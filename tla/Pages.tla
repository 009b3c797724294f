-------------------------------- MODULE Pages --------------------------------
(***************************************************************************)
(* The pages of the interface that list something and change it: a polled  *)
(* view beside handlers that send requests of their own, from a dialog or  *)
(* directly, and that on an answer close the dialog, ask the view again    *)
(* and clear a busy flag, each in its own order.  The view is FreshView,   *)
(* which the hook the pages poll with implements (Polling).                *)
(*                                                                         *)
(* The module describes every page by the shape of its handlers, and gives *)
(* one state machine for all of them: Init picks a page and the handlers   *)
(* the operator uses.  What the pages show and send is left out, except    *)
(* the server version a view shows and the row a request is about.         *)
(***************************************************************************)
EXTENDS FreshView, FiniteSets, Sequences

CONSTANTS
  Rows,        \* rows of a table, keys of the settings
  Slots,       \* handler invocations in flight
  MaxSubmits   \* bound: requests the operator sends

ASSUME PagesAssumption == Rows # {} /\ Slots \subseteq Nat /\ MaxSubmits \in Nat

-----------------------------------------------------------------------------
(* The calls of the client (api/client-*.js): whether they change what a   *)
(* view shows.  Each throws unless the answer is 200 (api/core.js).        *)

writes == TRUE
reads == FALSE

StorageClient == [createFilesystem |-> writes, modifyFilesystem |-> writes,
                  removeFilesystem |-> writes, listFilesystems |-> reads,
                  listPackageVolumes |-> reads, removePackageVolume |-> writes,
                  removePackageVolumeGroup |-> writes]
ArchiveClient == [uploadArchive |-> writes, downloadArchive |-> reads]
AuthClient == [authenticate |-> reads]
AccountClient == [createAccount |-> writes, updateAccount |-> writes, listAccounts |-> reads,
                  disableAccount |-> writes, enableAccount |-> writes]
PagesClient == [createPage |-> writes, updatePage |-> writes, removePage |-> writes,
                listPages |-> reads, rebuildPage |-> writes, uploadPageArchive |-> writes]
UnitClient == [listUnitsTree |-> reads, setUnitStatus |-> writes, setUnitStatusTree |-> writes]
SystemServiceClient == [listSystemServices |-> reads, setSystemServiceStatus |-> writes]
DNSClient == [dnsStatus |-> reads, listDNSRecords |-> reads, addDNSRecord |-> writes,
              removeDNSRecord |-> writes, setDNSTLD |-> writes, setupDNS |-> writes]
DNSListClient == [getDNSBLConfig |-> reads, setDNSBLConfig |-> writes, addLocalRBL |-> writes,
                  removeLocalRBL |-> writes, addDNSBLAllowlist |-> writes,
                  removeDNSBLAllowlist |-> writes, setDNSService |-> writes]
NetworksClient == [listNetworks |-> reads, createNetwork |-> writes, removeNetwork |-> writes,
                   enableNetwork |-> writes, disableNetwork |-> writes, addNetworkPeer |-> writes,
                   removeNetworkPeer |-> writes]
GfehClient == [listGfehPrincipals |-> reads, addGfehPrincipal |-> writes,
               removeGfehPrincipal |-> writes, addGfehGrant |-> writes, revokeGfehGrant |-> writes,
               withdrawGfehExposure |-> writes]
SettingsClient == [getSettings |-> reads, setSetting |-> writes]
RepositoryClient == [addRepository |-> writes, removeRepository |-> writes, moveRepository |-> writes,
                     refreshRepositoriesStream |-> writes, listRepositories |-> reads]
UpgradeClient == [listUpgrades |-> reads, dismissUpgrades |-> writes]

-----------------------------------------------------------------------------
(* Dialogs and the shapes of a handler.                                    *)
(*   dialog   the dialog it is submitted from, Inline for a control of the *)
(*            page itself                                                  *)
(*   admin    only offered to an administrator                             *)
(*   calls    the client calls it makes in turn                            *)
(*   busy     the flag that disables it while it runs, "" for none; "row"  *)
(*            is a flag for each row                                       *)
(*   marks    it sets the flag itself; it clears it in any case            *)
(*   closes   when it closes its dialog                                    *)
(*   follows  it then polls a status for a bounded time: an error there is *)
(*            swallowed ("tolerant") or thrown ("fragile")                 *)
(*   refresh  when it asks the view again; "remount" opens the page anew   *)
(*   hides    on success it hides its row until the page is refreshed, the *)
(*            one it hid before being shown again ("last") or not ("row")  *)

\* A dialog, named for the state that opens it, and the flag while which it can be neither
\* dismissed nor confirmed, "" for none.
ConfirmDialog(name, loading) == [name |-> name, loading |-> loading]
Dialog(name) == ConfirmDialog(name, "")
Inline == Dialog("")

Form(dlg, call) ==
  [dialog |-> dlg, admin |-> FALSE, calls |-> <<call>>, busy |-> dlg.loading, marks |-> TRUE,
   closes |-> "success", follows |-> "no", refresh |-> "success", hides |-> "no"]
Confirm(dlg, call) == [Form(dlg, call) EXCEPT !.closes = "always"]
Direct(call) == Form(Inline, call)
Admin(h) == [h EXCEPT !.admin = TRUE]

\* A view: whether its fetcher turns an error into the default value, and whether the operator
\* chooses what it asks for (page, sort, search, filter, selected network).
Table(catches, chosen) == [catches |-> catches, chosen |-> chosen]
Page(view, handlers) == [view |-> view, handlers |-> handlers]

\* DataTable: search, sort and page of a list are what its page asks the server for.
DataTable(catches) == Table(catches, TRUE)

DashboardHome == Table(FALSE, FALSE)

-----------------------------------------------------------------------------
(* Storage.                                                                *)

storage_editDialog == Dialog("editDialog")
storage_deleteConfirm == Dialog("deleteConfirm")
storage_deletePkgVolume == Dialog("deletePkgVolume")
storage_deletePkgGroup == Dialog("deletePkgGroup")
DownloadArchiveDialog == Dialog("downloadDialog")
UploadArchiveDialog == Dialog("uploadDialog")
VolumeModifyDialog == Dialog("volumeModifyDialog")
storage_handleCreate == Form(storage_editDialog, StorageClient.createFilesystem)
storage_handleModify == Form(storage_editDialog, StorageClient.modifyFilesystem)
storage_handleDelete == Confirm(storage_deleteConfirm, StorageClient.removeFilesystem)
storage_handleDeletePkgVolume == Confirm(storage_deletePkgVolume, StorageClient.removePackageVolume)
storage_handleDeletePkgGroup == Confirm(storage_deletePkgGroup, StorageClient.removePackageVolumeGroup)
storage_handleDownload ==
  [Form(DownloadArchiveDialog, ArchiveClient.downloadArchive) EXCEPT !.refresh = "none"]
storage_handleUpload == Form(UploadArchiveDialog, ArchiveClient.uploadArchive)
storage_handleVolumeModifyProps == Form(VolumeModifyDialog, StorageClient.modifyFilesystem)
UserFilesystems == DataTable(FALSE)
storage_columns == {storage_handleModify, storage_handleDelete}
PackageVolumeTree == Table(FALSE, TRUE)      \* with or without what is no longer installed
PackageNode == {storage_handleDeletePkgVolume, storage_handleDeletePkgGroup, storage_handleDownload,
                storage_handleUpload, storage_handleVolumeModifyProps}
StoragePages == {Page(UserFilesystems, {storage_handleCreate} \cup storage_columns),
                 Page(PackageVolumeTree, PackageNode)}

(* Accounts.  CreateUser and, on a new machine, Register are pages that are *)
(* their own form, whose success opens another page.                       *)

users_editDialog == Dialog("editDialog")
users_statusConfirm == Dialog("statusConfirm")
users_handleUpdate == Form(users_editDialog, AccountClient.updateAccount)
users_handleStatusToggle == Confirm(users_statusConfirm, AccountClient.disableAccount)
CreateUser == [Direct(AccountClient.createAccount) EXCEPT !.busy = "loading", !.refresh = "remount"]
Register ==
  [CreateUser EXCEPT !.calls = <<AccountClient.createAccount, AuthClient.authenticate>>]
UserTable == DataTable(FALSE)
users_columns == {users_handleUpdate, users_handleStatusToggle}
UserPages == {Page(UserTable, users_columns), Page(UserTable, {CreateUser}),
              Page(DashboardHome, {Register})}

(* Static pages.  A page from git or an image is followed until it is      *)
(* provisioned; one from an archive is created and then uploaded.          *)

pages_createDialog == ConfirmDialog("createDialog", "provisioning")
pages_editDialog == Dialog("editDialog")
pages_uploadDialog == ConfirmDialog("uploadDialog", "uploading")
pages_deleteConfirm == Dialog("deleteConfirm")
pages_rebuildConfirm == Dialog("rebuildConfirm")
pages_Create == Form(pages_createDialog, PagesClient.createPage)
pages_handleCreate_provisioned == [pages_Create EXCEPT !.follows = "fragile"]
pages_handleCreate_archive ==
  [pages_Create EXCEPT !.calls = <<PagesClient.createPage, PagesClient.uploadPageArchive>>]
pages_handleCreate_empty == [pages_Create EXCEPT !.marks = FALSE]
pages_handleUpdate == Form(pages_editDialog, PagesClient.updatePage)
pages_handleDelete == Confirm(pages_deleteConfirm, PagesClient.removePage)
pages_handleRebuild == Confirm(pages_rebuildConfirm, PagesClient.rebuildPage)
pages_handleUpload == Form(pages_uploadDialog, PagesClient.uploadPageArchive)
PageTable == DataTable(FALSE)
pages_columns == {pages_handleUpdate, pages_handleDelete, pages_handleRebuild, pages_handleUpload}
PagesPages ==
  {Page(PageTable, {pages_handleCreate_provisioned, pages_handleCreate_archive,
                    pages_handleCreate_empty} \cup pages_columns)}

(* Services.  Both handlers share one flag, and follow the unit they act   *)
(* on whatever the answer.                                                 *)

system_actionConfirm == ConfirmDialog("actionConfirm", "actionInProgress")
Followed(h) == [h EXCEPT !.follows = "tolerant", !.refresh = "always"]
system_handleAction == Followed(Confirm(system_actionConfirm, UnitClient.setUnitStatus))
system_handleSystemServiceAction ==
  Followed([Direct(SystemServiceClient.setSystemServiceStatus) EXCEPT !.busy = "actionInProgress"])
PackageServiceTree == Table(FALSE, TRUE)
TreeRow == {system_handleAction}
SystemServices == Table(TRUE, FALSE)
SystemPages == {Page(v, TreeRow \cup {system_handleSystemServiceAction}) :
                  v \in {PackageServiceTree, SystemServices}}

(* Name service.  A removed record is hidden, not asked for again.         *)

dns_addDialog == Dialog("addDialog")
dns_changeTLDDialog == Dialog("changeTLDDialog")
dns_setupConfirm == Dialog("setupConfirm")
dns_removeConfirm == Dialog("removeConfirm")
dns_handleAddRecord == Admin(Form(dns_addDialog, DNSClient.addDNSRecord))
dns_handleChangeTLD == Admin(Form(dns_changeTLDDialog, DNSClient.setDNSTLD))
dns_handleSetup == Admin(Confirm(dns_setupConfirm, DNSClient.setupDNS))
dns_handleRemoveRecord ==
  Admin([Form(dns_removeConfirm, DNSClient.removeDNSRecord)
           EXCEPT !.closes = "first", !.refresh = "none", !.hides = "row"])
displayedRecords == Table(TRUE, TRUE)        \* filtered by TLD
dns_columns == {dns_handleRemoveRecord}

RefusalDialog == Dialog("editRefusal")
blocklists_AddEntryDialog == Dialog("addEntry")
blocklists_removeEntry == Dialog("removeEntry")
blocklists_save == Admin(Direct(DNSListClient.setDNSBLConfig))
blocklists_saveRefusal ==
  Admin([Form(RefusalDialog, DNSListClient.setDNSBLConfig) EXCEPT !.closes = "first"])
blocklists_handleAddEntry == Admin(Form(blocklists_AddEntryDialog, DNSListClient.addLocalRBL))
blocklists_handleRemoveEntry ==
  Admin([Form(blocklists_removeEntry, DNSListClient.removeLocalRBL) EXCEPT !.closes = "first"])
BlocklistProviders == {blocklists_save, blocklists_saveRefusal}
BlocklistsTab == Table(TRUE, FALSE)

allowlists_AddEntryDialog == Dialog("addEntry")
allowlists_removeEntry == Dialog("removeEntry")
allowlists_handleAddEntry == Admin(Form(allowlists_AddEntryDialog, DNSListClient.addDNSBLAllowlist))
allowlists_handleRemoveEntry ==
  Admin([Form(allowlists_removeEntry, DNSListClient.removeDNSBLAllowlist) EXCEPT !.closes = "first"])
AllowListsTab == Table(TRUE, FALSE)

services_toggle == Admin([Direct(DNSListClient.setDNSService) EXCEPT !.busy = "row"])
ServicesTab == Table(TRUE, FALSE)
DNSPages ==
  {Page(displayedRecords, {dns_handleAddRecord, dns_handleChangeTLD, dns_handleSetup} \cup dns_columns),
   Page(BlocklistsTab, BlocklistProviders \cup {blocklists_handleAddEntry, blocklists_handleRemoveEntry}),
   Page(AllowListsTab, {allowlists_handleAddEntry, allowlists_handleRemoveEntry}),
   Page(ServicesTab, {services_toggle})}

(* Networks and their peers.                                               *)

networks_createOpen == Dialog("createOpen")
networks_removeTarget == Dialog("removeTarget")
networks_toggleEnabled == Admin([Direct(NetworksClient.enableNetwork) EXCEPT !.busy = "row"])
networks_createNetwork == Admin(Form(networks_createOpen, NetworksClient.createNetwork))
networks_removeNetwork == Admin(Confirm(networks_removeTarget, NetworksClient.removeNetwork))
NetworkTable == Table(TRUE, FALSE)
networks_columns == {networks_toggleEnabled, networks_removeNetwork}
peers_addPeer == Admin(Direct(NetworksClient.addNetworkPeer))
peers_removePeer == Admin(Direct(NetworksClient.removeNetworkPeer))
PeersDialog == Table(TRUE, FALSE)
PeersDialog_controls == {peers_addPeer, peers_removePeer}
peers_disconnectTarget == ConfirmDialog("disconnectTarget", "disconnecting")
peers_disconnectPeer == Admin(Confirm(peers_disconnectTarget, NetworksClient.removeNetworkPeer))
ConnectedPeersPanel == Table(TRUE, FALSE)
connected_columns == {peers_disconnectPeer}
NetworksPages ==
  {Page(NetworkTable, {networks_createNetwork} \cup networks_columns),
   Page(PeersDialog, PeersDialog_controls),
   Page(ConnectedPeersPanel, connected_columns)}

(* Object storage.  The tabs of a partition share a flag each.  The panel  *)
(* around them shows nothing else while it loads, so the change a user tab *)
(* reports opens that tab anew.                                            *)

Tabbed(h) == Admin([h EXCEPT !.busy = "busy"])
users_addOpen == Dialog("addOpen")
users_removeTarget == ConfirmDialog("removeTarget", "busy")
grants_addOpen == Dialog("addOpen")
grants_revokeTarget == ConfirmDialog("revokeTarget", "busy")
links_withdrawTarget == ConfirmDialog("withdrawTarget", "busy")
objects_users_handleAdd ==
  [Tabbed(Form(users_addOpen, GfehClient.addGfehPrincipal)) EXCEPT !.refresh = "remount"]
objects_users_handleRemove ==
  [Tabbed(Form(users_removeTarget, GfehClient.removeGfehPrincipal)) EXCEPT !.refresh = "remount"]
objects_grants_handleAdd == Tabbed(Form(grants_addOpen, GfehClient.addGfehGrant))
objects_grants_handleRevoke == Tabbed(Form(grants_revokeTarget, GfehClient.revokeGfehGrant))
objects_links_handleWithdraw == Tabbed(Form(links_withdrawTarget, GfehClient.withdrawGfehExposure))
UsersTab == Table(TRUE, TRUE)                \* of the network selected, as the other tabs
GrantsTab == Table(TRUE, TRUE)
LinksTab == Table(TRUE, TRUE)
principals_columns == {objects_users_handleRemove}
grants_columns == {objects_grants_handleRevoke}
links_columns == {objects_links_handleWithdraw}
ObjectStoragePanel ==
  {Page(UsersTab, {objects_users_handleAdd} \cup principals_columns),
   Page(GrantsTab, {objects_grants_handleAdd} \cup grants_columns),
   Page(LinksTab, links_columns)}

(* Packages and their repositories.  The dialogs an install goes through,  *)
(* and its form that comes back when it is refused, are in InstallFlow;    *)
(* here is the request at its end, which streams, and the list it changes. *)

PackageClient == [listPackages |-> reads, installPackageStream |-> writes,
                  uninstallPackageStream |-> writes]
packages_uninstallConfirm == Dialog("uninstallConfirm")
packages_handleInstall == Direct(PackageClient.installPackageStream)
packages_handleUninstall ==
  [Form(packages_uninstallConfirm, PackageClient.uninstallPackageStream) EXCEPT !.closes = "first"]
repos_handleRefreshRepos == [Direct(RepositoryClient.refreshRepositoriesStream) EXCEPT !.busy = "refreshing"]
PackageTable == DataTable(FALSE)

repos_repoDialog == Dialog("repoDialog")
repos_deleteRepoConfirm == Dialog("deleteRepoConfirm")
repos_handleAddRepo == Form(repos_repoDialog, RepositoryClient.addRepository)
repos_handleRemoveRepo == Confirm(repos_deleteRepoConfirm, RepositoryClient.removeRepository)
repos_handleMoveRepo == Direct(RepositoryClient.moveRepository)
RepositoryTab == DataTable(FALSE)
repoColumns == {repos_handleMoveRepo, repos_handleRemoveRepo}
RepositoryPages ==
  {Page(PackageTable, {packages_handleInstall, packages_handleUninstall}),
   Page(RepositoryTab, {repos_handleAddRepo, repos_handleRefreshRepos} \cup repoColumns)}

(* Settings, each saved by its own form, and the notice of the home page.  *)

settings_handleSaveQuota == Direct(SettingsClient.setSetting)
settings_handleSaveArchiveSize == Direct(SettingsClient.setSetting)
settings_handleSaveTimeout == Direct(SettingsClient.setSetting)
settings_handleSavePeerTTL == Direct(SettingsClient.setSetting)
settings_handleSaveProtonImage == Direct(SettingsClient.setSetting)
settings_handleSaveMonitoringBackend ==
  [Direct(SettingsClient.setSetting) EXCEPT !.busy = "monitoring", !.follows = "tolerant"]
settings_handleSaveResolutionMode == [Direct(SettingsClient.setSetting) EXCEPT !.busy = "resolution"]
settings_handleToggleLocalForwarders == [Direct(SettingsClient.setSetting) EXCEPT !.busy = "forwarders"]
SystemSettings == Table(FALSE, FALSE)
\* The notice counts the upgrades, and each count is a row: what is hidden is the count at the click,
\* a notice that counts otherwise is shown.
home_handleDismiss ==
  [Direct(UpgradeClient.dismissUpgrades) EXCEPT !.busy = "dismissing", !.refresh = "none", !.hides = "last"]
UpgradeBanner == {home_handleDismiss}
SettingsForms ==
  {settings_handleSaveQuota, settings_handleSaveArchiveSize, settings_handleSaveTimeout,
   settings_handleSavePeerTTL, settings_handleSaveProtonImage, settings_handleSaveMonitoringBackend,
   settings_handleSaveResolutionMode, settings_handleToggleLocalForwarders}
SettingsPages == {Page(SystemSettings, SettingsForms), Page(DashboardHome, UpgradeBanner)}

(* The audit log, which is only listed.                                    *)

AuditLog == DataTable(FALSE)
AuditPage == Page(AuditLog, {})

App == StoragePages \cup UserPages \cup PagesPages \cup SystemPages \cup DNSPages
         \cup NetworksPages \cup ObjectStoragePanel \cup RepositoryPages \cup SettingsPages \cup {AuditPage}

-----------------------------------------------------------------------------
VARIABLES
  page,      \* the page that is open, with the handlers in use
  dialog,    \* the dialog open: its name and the row it is about
  ops,       \* slot -> the handler that runs in it
  busy,      \* flags set
  hidden,    \* removedRecords, lastDismissedRef: rows not shown
  acked,     \* history: row -> version of the server when this page was last told of its change, 0
             \* when it was not or has been told to hide another row since
  submits    \* requests sent by the operator, for the bound

pageVars == <<page, dialog, ops, busy, hidden, acked, submits>>
vars == <<viewVars, pageVars>>

NoDialog == <<"", CHOOSE r \in Rows : TRUE>>
NoRow == CHOOSE r \in Rows : TRUE
Idle == [pc |-> "idle"]
Running == {s \in Slots : ops[s].pc # "idle"}
Live == {s \in Running : ops[s].live}

\* The flag of a handler: one for the page, or one for each row.
Flag(h, r) == <<h.busy, IF h.busy = "row" THEN r ELSE NoRow>>

Start ==
  /\ dialog = NoDialog /\ ops = [s \in Slots |-> Idle] /\ busy = {} /\ hidden = {}
  /\ acked = [r \in Rows |-> 0] /\ submits = 0

\* What an account is offered: an administrator everything, another account what is not for
\* administrators (or for holders of the grant a tab asks for).
Offered(p, admin) == {h \in p.handlers : h.admin => admin}

\* A handler with those it shares a dialog or a flag with.  Others share only the view with it.
Related(h, hs) ==
  {g \in hs : g = h \/ (g.dialog # Inline /\ g.dialog = h.dialog) \/ (g.busy # "" /\ g.busy = h.busy)}

PagesInit ==
  /\ Init /\ Start
  /\ \E p \in App, admin \in BOOLEAN :
       \/ Offered(p, admin) = {} /\ page = [p EXCEPT !.handlers = {}]
       \/ \E h \in Offered(p, admin) : page = [p EXCEPT !.handlers = Related(h, Offered(p, admin))]

-----------------------------------------------------------------------------
(* The operator.                                                           *)

\* Dialogs are modal: one is open at a time.
OpenDialog(h, r) ==
  /\ h.dialog # Inline /\ dialog = NoDialog
  /\ dialog' = <<h.dialog.name, r>>
  /\ UNCHANGED <<viewVars, page, ops, busy, hidden, acked, submits>>

\* Mutant: ConfirmDialog ignores loading when it is dismissed.
Dismissible_Always == TRUE

Dismissible ==
  ~\E h \in page.handlers : /\ h.dialog.name = dialog[1] /\ h.dialog.loading # ""
                            /\ <<h.dialog.loading, NoRow>> \in busy

\* Cancel, Escape or a click outside.
Dismiss ==
  /\ dialog # NoDialog /\ Dismissible
  /\ dialog' = NoDialog
  /\ UNCHANGED <<viewVars, page, ops, busy, hidden, acked, submits>>

Enabled(h, r) == Flag(h, r) \notin busy

\* The handler up to its first await: it captures its row, marks itself busy and sends.
Submit(s, h, r) ==
  /\ submits < MaxSubmits /\ Enabled(h, r)
  /\ dialog = IF h.dialog = Inline THEN NoDialog ELSE <<h.dialog.name, r>>
  /\ s \notin Running /\ \A z \in Slots : z < s => z \in Running
  /\ ops' = [ops EXCEPT ![s] = [pc |-> "sent", h |-> h, row |-> r, call |-> 1, live |-> TRUE]]
  /\ busy' = IF h.busy # "" /\ h.marks THEN busy \cup {Flag(h, r)} ELSE busy
  /\ dialog' = IF h.closes = "first" THEN NoDialog ELSE dialog
  /\ submits' = submits + 1
  /\ UNCHANGED <<viewVars, page, hidden, acked>>

\* The page is left and opened again, or the panel around a tab reloads: a new instance, with
\* nothing of the old one but the handlers that still run.
Reopen(q) ==
  /\ Open(q)
  /\ dialog' = NoDialog /\ busy' = {} /\ hidden' = {} /\ acked' = [r \in Rows |-> 0]
  /\ ops' = [s \in Slots |-> IF s \in Running THEN [ops[s] EXCEPT !.live = FALSE] ELSE Idle]
  /\ UNCHANGED <<page, submits>>

-----------------------------------------------------------------------------
(* The server, and the network between.                                    *)

Perform(s) ==
  LET o == ops[s] IN
  /\ o.pc = "sent"
  /\ version' = IF o.h.calls[o.call] THEN version + 1 ELSE version
  /\ ops' = [ops EXCEPT ![s].pc = "ok"]
  /\ UNCHANGED <<query, asked, pending, missed, data>>
  /\ UNCHANGED <<page, dialog, busy, hidden, acked, submits>>

\* Refused before it is performed, or the answer is lost after.
Refuse(s) ==
  /\ ops[s].pc \in {"sent", "ok"}
  /\ ops' = [ops EXCEPT ![s].pc = "err"]
  /\ UNCHANGED <<viewVars, page, dialog, busy, hidden, acked, submits>>

-----------------------------------------------------------------------------
(* The rest of the handler.                                                *)

LastCall(o) == o.call = Len(o.h.calls)

NextCall(s) ==
  /\ ops[s].pc = "ok" /\ ~LastCall(ops[s])
  /\ ops' = [ops EXCEPT ![s].pc = "sent", ![s].call = @ + 1]
  /\ UNCHANGED <<viewVars, page, dialog, busy, hidden, acked, submits>>

\* pollUnitState, pollPageStatus, pollMonitoringReady: until the status is seen or the time is up.
FollowStatus(s) ==
  /\ ops[s].pc = "ok" /\ LastCall(ops[s]) /\ ops[s].h.follows # "no"
  /\ ops' = [ops EXCEPT ![s].pc = "follow"]
  /\ UNCHANGED <<viewVars, page, dialog, busy, hidden, acked, submits>>

FollowThrows(s) ==
  /\ ops[s].pc = "follow" /\ ops[s].h.follows = "fragile"
  /\ ops' = [ops EXCEPT ![s].pc = "err"]
  /\ UNCHANGED <<viewVars, page, dialog, busy, hidden, acked, submits>>

\* setX(null) of the handler: its own dialog, whichever row it is about by now.
Close(h) == dialog' = IF dialog[1] = h.dialog.name THEN NoDialog ELSE dialog

\* The answer reaches a page that is gone.
Ignored(s) ==
  /\ ops' = [ops EXCEPT ![s] = Idle]
  /\ UNCHANGED <<viewVars, page, dialog, busy, hidden, acked, submits>>

\* doRefresh: the key of the view changes, and what was hidden is shown again.
doRefresh == Ask(query) /\ hidden' = {}

\* Mutant: a handler that succeeded leaves the view alone.
Refreshed_Never(o) == hidden' = hidden /\ UNCHANGED viewVars

\* The rows that stay hidden when o hides its own.
Keeps(o) == IF o.h.hides = "last" THEN {} ELSE hidden

Refreshed(o) ==
  IF o.h.refresh = "none"
  THEN hidden' = (IF o.h.hides # "no" THEN Keeps(o) \cup {o.row} ELSE hidden) /\ UNCHANGED viewVars
  ELSE doRefresh

\* What the page has been told of: the operator who dismisses another count takes the last one back.
Told(o) ==
  [r \in Rows |-> IF r = o.row THEN (IF o.h.calls[o.call] THEN version ELSE acked[r])
                  ELSE IF o.h.hides = "last" THEN 0 ELSE acked[r]]

Succeeded(s) ==
  LET o == ops[s] IN
  /\ IF o.h.closes \in {"success", "always"} THEN Close(o.h) ELSE UNCHANGED dialog
  /\ busy' = busy \ {Flag(o.h, o.row)}
  /\ acked' = Told(o)
  /\ Refreshed(o)
  /\ ops' = [ops EXCEPT ![s] = Idle]
  /\ UNCHANGED <<page, submits>>

\* The page or its panel is opened anew by the success itself.
SucceededAnew(s) ==
  LET o == ops[s] IN
  /\ Open(query)
  /\ dialog' = NoDialog /\ busy' = {} /\ hidden' = {}
  /\ acked' = [r \in Rows |-> IF r = o.row THEN version ELSE 0]
  /\ ops' = [z \in Slots |-> IF z \in Running \ {s} THEN [ops[z] EXCEPT !.live = FALSE] ELSE Idle]
  /\ UNCHANGED <<page, submits>>

Succeed(s) ==
  LET o == ops[s] IN
  /\ \/ o.pc = "ok" /\ LastCall(o) /\ o.h.follows = "no"
     \/ o.pc = "follow"
  /\ CASE ~o.live                                -> Ignored(s)
       [] o.live /\ o.h.refresh = "remount"      -> SucceededAnew(s)
       [] OTHER                                  -> Succeeded(s)

\* Mutant: the flag is cleared on success only.
Failed_StaysBusy(o) ==
  /\ IF o.h.closes = "always" THEN Close(o.h) ELSE UNCHANGED dialog
  /\ busy' = busy
  /\ IF o.h.refresh = "always" THEN doRefresh ELSE UNCHANGED <<viewVars, hidden>>

\* catch and finally.
Failed(o) ==
  /\ IF o.h.closes = "always" THEN Close(o.h) ELSE UNCHANGED dialog
  /\ busy' = busy \ {Flag(o.h, o.row)}
  /\ IF o.h.refresh = "always" THEN doRefresh ELSE UNCHANGED <<viewVars, hidden>>

Catch(s) ==
  /\ ops[s].pc = "err"
  /\ IF ops[s].live
     THEN /\ Failed(ops[s])
          /\ ops' = [ops EXCEPT ![s] = Idle]
          /\ UNCHANGED <<page, acked, submits>>
     ELSE Ignored(s)

-----------------------------------------------------------------------------
\* The hook: a tick, another query, and the answers of the server.  What other clients change is
\* what the handlers of a page already left change.
Poll ==
  \/ Show \/ Fail(page.view.catches)
  \/ \E q \in (IF page.view.chosen THEN Queries ELSE {query}) : Ask(q)

PagesNext ==
  \/ Poll /\ UNCHANGED pageVars
  \/ \E h \in page.handlers, r \in Rows : OpenDialog(h, r) \/ \E s \in Slots : Submit(s, h, r)
  \/ Dismiss
  \/ \E q \in (IF page.view.chosen THEN Queries ELSE {query}) : Reopen(q)
  \/ \E s \in Running : \/ Perform(s) \/ Refuse(s) \/ NextCall(s) \/ FollowStatus(s)
                        \/ FollowThrows(s) \/ Succeed(s) \/ Catch(s)

PagesSpec == PagesInit /\ [][PagesNext]_vars

\* Every request is answered or fails, and every handler runs on.
Fairness ==
  \A s \in Slots : /\ WF_vars(s \in Running /\ (Perform(s) \/ Refuse(s)))
                  /\ WF_vars(s \in Running /\ (NextCall(s) \/ FollowStatus(s) \/ Succeed(s) \/ Catch(s)))

FairSpec == PagesSpec /\ Fairness

-----------------------------------------------------------------------------
\* What the operator did is what the operator sees: once the view has its answer, it shows every
\* change this page was told had succeeded, as of the time it was told, or hides the row it was
\* about (of the notice, the count it had), although polls, other handlers and changes of query overlap with the request.
ReadYourWrites ==
  (~pending /\ ~missed /\ data.read # 0)
    => \A r \in Rows : data.read >= acked[r] \/ r \in hidden

\* Handlers whose flag no handler of the page clears without having set it.
Exclusive(h) == h.busy # "" /\ \A g \in page.handlers : g.busy = h.busy => g.marks

\* At most one handler runs under a flag, and while it runs a dialog it locks stays open on the
\* row it was submitted for: its answer never closes a dialog opened for something else.
AnswerMeetsItsDialog ==
  \A s \in Live : Exclusive(ops[s].h) =>
    /\ \A z \in Live \ {s} : Flag(ops[z].h, ops[z].row) # Flag(ops[s].h, ops[s].row)
    /\ (ops[s].h.dialog.loading # "" => dialog = <<ops[s].h.dialog.name, ops[s].row>>)

\* No control stays disabled for good: once the operator stops, every flag is cleared, whether the
\* requests succeeded, were refused, lost their answer or the page was left.
BusyClears == <>[](busy = {})

\* The dialog that adds a user offers the accounts the view does not show; what the view shows is
\* then an answer for the network selected ("so the dialog cannot offer a duplicate").
NoDuplicateOffered ==
  (objects_users_handleAdd \in page.handlers /\ dialog[1] = users_addOpen.name)
    => data.query = query /\ data.read # 0
=============================================================================
