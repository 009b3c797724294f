---------------------------- MODULE PagesProofs -----------------------------
(***************************************************************************)
(* That what the operator did is what the operator sees, and that the      *)
(* answer of a request meets the dialog it was sent from: on every page of *)
(* the interface, for any rows, any number of requests in flight and any   *)
(* number of changes.                                                      *)
(***************************************************************************)
EXTENDS Pages, TLAPS

-----------------------------------------------------------------------------
(* What the two properties need of the handlers of a page, whatever the    *)
(* page: the rest of this section checks it against every handler.         *)

\* A handler that neither asks the view again nor hides its row has changed nothing.
Quiet(h) == h.refresh = "none" /\ h.hides = "no" => h.calls = <<reads>>

\* A dialog that a flag locks: its handlers run under that flag, which is one for the page, do not
\* close it when they start, and no handler with another flag is submitted from it.
Locks(h, g) ==
  h.dialog.loading # "" =>
    /\ h.dialog.name # "" /\ h.busy = h.dialog.loading /\ h.busy # "row" /\ h.closes # "first"
    /\ g.dialog.name = h.dialog.name => g.busy = h.busy

Sound(p) ==
  /\ "handlers" \in DOMAIN p
  /\ \A h \in p.handlers : Quiet(h)
  /\ \A h, g \in p.handlers : Locks(h, g)

\* A handler that is submitted from no locked dialog.
Unlocked(h) == Quiet(h) /\ h.dialog.loading = ""

\* A handler that is submitted from the dialog `name`, which `flag` locks.
Locking(h, name, flag) ==
  Quiet(h) /\ h.dialog.name = name /\ h.dialog.loading = flag /\ h.busy = flag /\ h.closes # "first"

\* A page is sound when its handlers are.
LEMMA PageSound ==
  ASSUME NEW v, NEW hs, \A h \in hs : Quiet(h), \A h, g \in hs : Locks(h, g)
  PROVE Sound(Page(v, hs))
BY DEF Sound, Page

\* A page without locked dialogs.
LEMMA UnlockedSound ==
  ASSUME NEW v, NEW hs, \A h \in hs : Unlocked(h)
  PROVE Sound(Page(v, hs))
BY PageSound DEF Unlocked, Locks

\* Filesystems and package volumes: the download alone asks nothing of the view, and it only reads.
LEMMA StoragePagesSound == \A p \in StoragePages : Sound(p)
<1>1. Unlocked(storage_handleCreate)
  BY DEF Unlocked, Quiet, storage_handleCreate, Form, storage_editDialog, Dialog, ConfirmDialog
<1>2. Unlocked(storage_handleModify)
  BY DEF Unlocked, Quiet, storage_handleModify, Form, storage_editDialog, Dialog, ConfirmDialog
<1>3. Unlocked(storage_handleDelete)
  BY DEF Unlocked, Quiet, storage_handleDelete, Confirm, storage_deleteConfirm, Form, Dialog,
    ConfirmDialog
<1>4. Unlocked(storage_handleDeletePkgVolume)
  BY DEF Unlocked, Quiet, storage_handleDeletePkgVolume, Confirm, storage_deletePkgVolume, Form,
    Dialog, ConfirmDialog
<1>5. Unlocked(storage_handleDeletePkgGroup)
  BY DEF Unlocked, Quiet, storage_handleDeletePkgGroup, Confirm, storage_deletePkgGroup, Form,
    Dialog, ConfirmDialog
<1>6. Unlocked(storage_handleDownload)
  BY DEF Unlocked, Quiet, storage_handleDownload, Form, DownloadArchiveDialog, Dialog,
    ConfirmDialog, ArchiveClient, reads
<1>7. Unlocked(storage_handleUpload)
  BY DEF Unlocked, Quiet, storage_handleUpload, Form, UploadArchiveDialog, Dialog, ConfirmDialog
<1>8. Unlocked(storage_handleVolumeModifyProps)
  BY DEF Unlocked, Quiet, storage_handleVolumeModifyProps, Form, VolumeModifyDialog, Dialog,
    ConfirmDialog
<1>9. Sound(Page(UserFilesystems, {storage_handleCreate} \cup storage_columns))
  BY <1>1, <1>2, <1>3, UnlockedSound DEF storage_columns
<1>10. Sound(Page(PackageVolumeTree, PackageNode))
  BY <1>4, <1>5, <1>6, <1>7, <1>8, UnlockedSound DEF PackageNode
<1>. QED BY <1>9, <1>10 DEF StoragePages

\* Accounts.
LEMMA UserPagesSound == \A p \in UserPages : Sound(p)
<1>1. Unlocked(CreateUser)
  BY DEF Unlocked, Quiet, CreateUser, Direct, Form, Inline, Dialog, ConfirmDialog
<1>2. Unlocked(Register)
  BY DEF Unlocked, Quiet, Register, CreateUser, Direct, Form, Inline, Dialog, ConfirmDialog
<1>3. Unlocked(users_handleUpdate)
  BY DEF Unlocked, Quiet, users_handleUpdate, Form, users_editDialog, Dialog, ConfirmDialog
<1>4. Unlocked(users_handleStatusToggle)
  BY DEF Unlocked, Quiet, users_handleStatusToggle, Confirm, users_statusConfirm, Form, Dialog,
    ConfirmDialog
<1>5. Sound(Page(UserTable, users_columns))
  BY <1>3, <1>4, UnlockedSound DEF users_columns
<1>6. Sound(Page(UserTable, {CreateUser}))
  BY <1>1, UnlockedSound
<1>7. Sound(Page(DashboardHome, {Register}))
  BY <1>2, UnlockedSound
<1>. QED BY <1>5, <1>6, <1>7 DEF UserPages

\* Static pages: the create and the upload lock their dialogs.
LEMMA PagesPagesSound == \A p \in PagesPages : Sound(p)
<1>1. Locking(pages_handleCreate_provisioned, "createDialog", "provisioning")
  BY DEF Locking, Quiet, pages_handleCreate_provisioned, pages_Create, Form, pages_createDialog,
    ConfirmDialog
<1>2. Locking(pages_handleCreate_archive, "createDialog", "provisioning")
  BY DEF Locking, Quiet, pages_handleCreate_archive, pages_Create, Form, pages_createDialog,
    ConfirmDialog
<1>3. Locking(pages_handleCreate_empty, "createDialog", "provisioning")
  BY DEF Locking, Quiet, pages_handleCreate_empty, pages_Create, Form, pages_createDialog,
    ConfirmDialog
<1>4. Unlocked(pages_handleUpdate) /\ pages_handleUpdate.dialog.name = "editDialog"
  BY DEF Unlocked, Quiet, pages_handleUpdate, Form, pages_editDialog, Dialog, ConfirmDialog
<1>5. Unlocked(pages_handleDelete) /\ pages_handleDelete.dialog.name = "deleteConfirm"
  BY DEF Unlocked, Quiet, pages_handleDelete, Confirm, pages_deleteConfirm, Form, Dialog,
    ConfirmDialog
<1>6. Unlocked(pages_handleRebuild) /\ pages_handleRebuild.dialog.name = "rebuildConfirm"
  BY DEF Unlocked, Quiet, pages_handleRebuild, Confirm, pages_rebuildConfirm, Form, Dialog,
    ConfirmDialog
<1>7. Locking(pages_handleUpload, "uploadDialog", "uploading")
  BY DEF Locking, Quiet, pages_handleUpload, Form, pages_uploadDialog, ConfirmDialog
<1>. DEFINE hs == {pages_handleCreate_provisioned, pages_handleCreate_archive,
                   pages_handleCreate_empty} \cup pages_columns
<1>8. \A h \in hs : \/ Unlocked(h) /\ h.dialog.name \in {"editDialog", "deleteConfirm", "rebuildConfirm"}
                    \/ Locking(h, "createDialog", "provisioning")
                    \/ Locking(h, "uploadDialog", "uploading")
  BY <1>1, <1>2, <1>3, <1>4, <1>5, <1>6, <1>7 DEF pages_columns
<1>9. \A h \in hs : Quiet(h)
  BY <1>8 DEF Unlocked, Locking
<1>10. \A h, g \in hs : Locks(h, g)
  <2>. HIDE DEF hs
  <2>. QED BY <1>8 DEF Unlocked, Locking, Locks
<1>11. Sound(Page(PageTable, hs))
  <2>. HIDE DEF hs
  <2>. QED BY <1>9, <1>10, PageSound
<1>. QED BY <1>11 DEF PagesPages

\* Services: an action locks its dialog with a flag it shares with a control of the page.
LEMMA SystemPagesSound == \A p \in SystemPages : Sound(p)
<1>1. /\ Unlocked(system_handleSystemServiceAction)
      /\ system_handleSystemServiceAction.dialog.name = ""
  BY DEF Unlocked, Quiet, system_handleSystemServiceAction, Followed, Direct, Form, Inline,
    Dialog, ConfirmDialog
<1>2. Locking(system_handleAction, "actionConfirm", "actionInProgress")
  BY DEF Locking, Quiet, system_handleAction, Followed, Confirm, system_actionConfirm, Form,
    ConfirmDialog
<1>3. \A v : Sound(Page(v, TreeRow \cup {system_handleSystemServiceAction}))
  BY <1>1, <1>2, PageSound DEF Locking, Unlocked, Locks, TreeRow
<1>. QED BY <1>3 DEF SystemPages

\* The name service: a removed record is hidden, not asked for again.
LEMMA DNSPagesSound == \A p \in DNSPages : Sound(p)
<1>1. Unlocked(dns_handleAddRecord)
  BY DEF Unlocked, Quiet, dns_handleAddRecord, Admin, Form, dns_addDialog, Dialog, ConfirmDialog
<1>2. Unlocked(dns_handleChangeTLD)
  BY DEF Unlocked, Quiet, dns_handleChangeTLD, Admin, Form, dns_changeTLDDialog, Dialog,
    ConfirmDialog
<1>3. Unlocked(dns_handleSetup)
  BY DEF Unlocked, Quiet, dns_handleSetup, Admin, Confirm, dns_setupConfirm, Form, Dialog,
    ConfirmDialog
<1>4. Unlocked(blocklists_handleAddEntry)
  BY DEF Unlocked, Quiet, blocklists_handleAddEntry, Admin, Form, blocklists_AddEntryDialog,
    Dialog, ConfirmDialog
<1>5. Unlocked(blocklists_handleRemoveEntry)
  BY DEF Unlocked, Quiet, blocklists_handleRemoveEntry, Admin, Form, blocklists_removeEntry,
    Dialog, ConfirmDialog
<1>6. Unlocked(allowlists_handleAddEntry)
  BY DEF Unlocked, Quiet, allowlists_handleAddEntry, Admin, Form, allowlists_AddEntryDialog,
    Dialog, ConfirmDialog
<1>7. Unlocked(allowlists_handleRemoveEntry)
  BY DEF Unlocked, Quiet, allowlists_handleRemoveEntry, Admin, Form, allowlists_removeEntry,
    Dialog, ConfirmDialog
<1>8. Unlocked(services_toggle)
  BY DEF Unlocked, Quiet, services_toggle, Admin, Direct, Form, Inline, Dialog, ConfirmDialog
<1>9. Unlocked(dns_handleRemoveRecord)
  BY DEF Unlocked, Quiet, dns_handleRemoveRecord, Admin, Form, dns_removeConfirm, Dialog,
    ConfirmDialog
<1>10. Unlocked(blocklists_save)
  BY DEF Unlocked, Quiet, blocklists_save, Admin, Direct, Form, Inline, Dialog, ConfirmDialog
<1>11. Unlocked(blocklists_saveRefusal)
  BY DEF Unlocked, Quiet, blocklists_saveRefusal, Admin, Form, RefusalDialog, Dialog,
    ConfirmDialog
<1>12. Sound(Page(displayedRecords, {dns_handleAddRecord, dns_handleChangeTLD, dns_handleSetup}
                                       \cup dns_columns))
  BY <1>1, <1>2, <1>3, <1>9, UnlockedSound DEF dns_columns
<1>13. Sound(Page(BlocklistsTab, BlocklistProviders
                                   \cup {blocklists_handleAddEntry, blocklists_handleRemoveEntry}))
  BY <1>4, <1>5, <1>10, <1>11, UnlockedSound DEF BlocklistProviders
<1>14. Sound(Page(AllowListsTab, {allowlists_handleAddEntry, allowlists_handleRemoveEntry}))
  BY <1>6, <1>7, UnlockedSound
<1>15. Sound(Page(ServicesTab, {services_toggle}))
  BY <1>8, UnlockedSound
<1>. QED BY <1>12, <1>13, <1>14, <1>15 DEF DNSPages

\* Networks and peers: a disconnect locks its dialog.
LEMMA NetworksPagesSound == \A p \in NetworksPages : Sound(p)
<1>1. Unlocked(networks_createNetwork)
  BY DEF Unlocked, Quiet, networks_createNetwork, Admin, Form, networks_createOpen, Dialog,
    ConfirmDialog
<1>2. Unlocked(networks_toggleEnabled)
  BY DEF Unlocked, Quiet, networks_toggleEnabled, Admin, Direct, Form, Inline, Dialog,
    ConfirmDialog
<1>3. Unlocked(networks_removeNetwork)
  BY DEF Unlocked, Quiet, networks_removeNetwork, Admin, Confirm, networks_removeTarget, Form,
    Dialog, ConfirmDialog
<1>4. Unlocked(peers_addPeer)
  BY DEF Unlocked, Quiet, peers_addPeer, Admin, Direct, Form, Inline, Dialog, ConfirmDialog
<1>5. Unlocked(peers_removePeer)
  BY DEF Unlocked, Quiet, peers_removePeer, Admin, Direct, Form, Inline, Dialog, ConfirmDialog
<1>6. Locking(peers_disconnectPeer, "disconnectTarget", "disconnecting")
  BY DEF Locking, Quiet, peers_disconnectPeer, Admin, Confirm, peers_disconnectTarget, Form,
    ConfirmDialog
<1>7. Sound(Page(NetworkTable, {networks_createNetwork} \cup networks_columns))
  BY <1>1, <1>2, <1>3, UnlockedSound DEF networks_columns
<1>8. Sound(Page(PeersDialog, PeersDialog_controls))
  BY <1>4, <1>5, UnlockedSound DEF PeersDialog_controls
<1>9. Sound(Page(ConnectedPeersPanel, connected_columns))
  BY <1>6, PageSound DEF Locking, Unlocked, Locks, connected_columns
<1>. QED BY <1>7, <1>8, <1>9 DEF NetworksPages

\* Object storage: each removal locks its dialog with the flag of its tab.
LEMMA ObjectStoragePanelSound == \A p \in ObjectStoragePanel : Sound(p)
<1>1. Unlocked(objects_users_handleAdd) /\ objects_users_handleAdd.dialog.name = "addOpen"
  BY DEF Unlocked, Quiet, objects_users_handleAdd, Tabbed, Form, users_addOpen, Admin, Dialog,
    ConfirmDialog
<1>2. Unlocked(objects_grants_handleAdd) /\ objects_grants_handleAdd.dialog.name = "addOpen"
  BY DEF Unlocked, Quiet, objects_grants_handleAdd, Tabbed, Form, grants_addOpen, Admin, Dialog,
    ConfirmDialog
<1>3. Locking(objects_users_handleRemove, "removeTarget", "busy")
  BY DEF Locking, Quiet, objects_users_handleRemove, Tabbed, Form, users_removeTarget, Admin,
    ConfirmDialog
<1>4. Locking(objects_grants_handleRevoke, "revokeTarget", "busy")
  BY DEF Locking, Quiet, objects_grants_handleRevoke, Tabbed, Form, grants_revokeTarget, Admin,
    ConfirmDialog
<1>5. Locking(objects_links_handleWithdraw, "withdrawTarget", "busy")
  BY DEF Locking, Quiet, objects_links_handleWithdraw, Tabbed, Form, links_withdrawTarget,
    Admin, ConfirmDialog
<1>6. Sound(Page(UsersTab, {objects_users_handleAdd} \cup principals_columns))
  BY <1>1, <1>3, PageSound DEF Locking, Unlocked, Locks, principals_columns
<1>7. Sound(Page(GrantsTab, {objects_grants_handleAdd} \cup grants_columns))
  BY <1>2, <1>4, PageSound DEF Locking, Unlocked, Locks, grants_columns
<1>8. Sound(Page(LinksTab, links_columns))
  BY <1>5, PageSound DEF Locking, Unlocked, Locks, links_columns
<1>. QED BY <1>6, <1>7, <1>8 DEF ObjectStoragePanel

\* Packages and repositories.
LEMMA RepositoryPagesSound == \A p \in RepositoryPages : Sound(p)
<1>1. Unlocked(packages_handleInstall)
  BY DEF Unlocked, Quiet, packages_handleInstall, Direct, Form, Inline, Dialog, ConfirmDialog
<1>2. Unlocked(packages_handleUninstall)
  BY DEF Unlocked, Quiet, packages_handleUninstall, Form, packages_uninstallConfirm, Dialog,
    ConfirmDialog
<1>3. Unlocked(repos_handleAddRepo)
  BY DEF Unlocked, Quiet, repos_handleAddRepo, Form, repos_repoDialog, Dialog, ConfirmDialog
<1>4. Unlocked(repos_handleRefreshRepos)
  BY DEF Unlocked, Quiet, repos_handleRefreshRepos, Direct, Form, Inline, Dialog, ConfirmDialog
<1>5. Unlocked(repos_handleMoveRepo)
  BY DEF Unlocked, Quiet, repos_handleMoveRepo, Direct, Form, Inline, Dialog, ConfirmDialog
<1>6. Unlocked(repos_handleRemoveRepo)
  BY DEF Unlocked, Quiet, repos_handleRemoveRepo, Confirm, repos_deleteRepoConfirm, Form,
    Dialog, ConfirmDialog
<1>7. Sound(Page(PackageTable, {packages_handleInstall, packages_handleUninstall}))
  BY <1>1, <1>2, UnlockedSound
<1>8. Sound(Page(RepositoryTab, {repos_handleAddRepo, repos_handleRefreshRepos} \cup repoColumns))
  BY <1>3, <1>4, <1>5, <1>6, UnlockedSound DEF repoColumns
<1>. QED BY <1>7, <1>8 DEF RepositoryPages

\* Settings, and the notice of the home page.
LEMMA SettingsPagesSound == \A p \in SettingsPages : Sound(p)
<1>1. Unlocked(settings_handleSaveQuota)
  BY DEF Unlocked, Quiet, settings_handleSaveQuota, Direct, Form, Inline, Dialog, ConfirmDialog
<1>2. Unlocked(settings_handleSaveArchiveSize)
  BY DEF Unlocked, Quiet, settings_handleSaveArchiveSize, Direct, Form, Inline, Dialog,
    ConfirmDialog
<1>3. Unlocked(settings_handleSaveTimeout)
  BY DEF Unlocked, Quiet, settings_handleSaveTimeout, Direct, Form, Inline, Dialog,
    ConfirmDialog
<1>4. Unlocked(settings_handleSavePeerTTL)
  BY DEF Unlocked, Quiet, settings_handleSavePeerTTL, Direct, Form, Inline, Dialog,
    ConfirmDialog
<1>5. Unlocked(settings_handleSaveProtonImage)
  BY DEF Unlocked, Quiet, settings_handleSaveProtonImage, Direct, Form, Inline, Dialog,
    ConfirmDialog
<1>6. Unlocked(settings_handleSaveMonitoringBackend)
  BY DEF Unlocked, Quiet, settings_handleSaveMonitoringBackend, Direct, Form, Inline, Dialog,
    ConfirmDialog
<1>7. Unlocked(settings_handleSaveResolutionMode)
  BY DEF Unlocked, Quiet, settings_handleSaveResolutionMode, Direct, Form, Inline, Dialog,
    ConfirmDialog
<1>8. Unlocked(settings_handleToggleLocalForwarders)
  BY DEF Unlocked, Quiet, settings_handleToggleLocalForwarders, Direct, Form, Inline, Dialog,
    ConfirmDialog
<1>9. Unlocked(home_handleDismiss)
  BY DEF Unlocked, Quiet, home_handleDismiss, Direct, Form, Inline, Dialog, ConfirmDialog
<1>10. Sound(Page(SystemSettings, SettingsForms))
  BY <1>1, <1>2, <1>3, <1>4, <1>5, <1>6, <1>7, <1>8, UnlockedSound DEF SettingsForms
<1>11. Sound(Page(DashboardHome, UpgradeBanner))
  BY <1>9, UnlockedSound DEF UpgradeBanner
<1>. QED BY <1>10, <1>11 DEF SettingsPages

\* The pages of the interface.
LEMMA AppSound == \A p \in App : Sound(p)
<1>1. Sound(AuditPage)
  BY UnlockedSound DEF AuditPage
<1>. QED BY <1>1, StoragePagesSound, UserPagesSound, PagesPagesSound, SystemPagesSound, DNSPagesSound,
        NetworksPagesSound, ObjectStoragePanelSound, RepositoryPagesSound, SettingsPagesSound
    DEF App

-----------------------------------------------------------------------------
(* The invariant.                                                          *)

\* The view is asked no later than now, and shows nothing older than the question.
ViewInv ==
  /\ version \in Nat /\ asked \in Nat /\ asked <= version
  /\ query \in Queries /\ data.read \in Nat
  /\ ~pending /\ ~missed /\ data.read # 0 => asked <= data.read

\* The page was told of no change still to come, and has asked the view again since each it was told
\* of, unless it hides the row.
AckInv ==
  /\ acked \in [Rows -> Nat]
  /\ \A r \in Rows : acked[r] <= version /\ (acked[r] <= asked \/ r \in hidden)

\* A handler that runs, at one of its calls.
Op == [pc : {"sent", "ok", "err", "follow"}, h : page.handlers, row : Rows, call : Nat, live : BOOLEAN]

\* Every handler that runs is one of the page, and one that tells nobody is at its only call.
OpsInv ==
  /\ Sound(page)
  /\ ops \in [Slots -> {Idle} \cup Op]
  /\ \A s \in Running :
       ops[s].h.refresh = "none" /\ ops[s].h.hides = "no" => ops[s].call = 1

FlagOf(s) == Flag(ops[s].h, ops[s].row)

\* A flag is set while a handler runs under it, and for that one only.
FlagInv ==
  \A s \in Live : Exclusive(ops[s].h) =>
    /\ FlagOf(s) \in busy
    /\ \A z \in Live \ {s} : FlagOf(z) # FlagOf(s)

\* A dialog is open while a handler it is locked by runs.
LockInv ==
  \A s \in Live : Exclusive(ops[s].h) /\ ops[s].h.dialog.loading # "" =>
    dialog = <<ops[s].h.dialog.name, ops[s].row>>

PagesInv == ViewInv /\ AckInv /\ OpsInv /\ FlagInv /\ LockInv

-----------------------------------------------------------------------------
(* The view and what the page was told of.                                 *)

\* What a view does by itself keeps what the page knows: it never asks back in time.
LEMMA PollKeeps ==
  ASSUME ViewInv, AckInv, Poll, UNCHANGED pageVars
  PROVE ViewInv' /\ AckInv'
<1>. UNCHANGED <<acked, hidden>>
  BY DEF pageVars
<1>1. CASE Show
  <2>1. PICK v \in asked..version : data' = [query |-> query, read |-> v]
    BY <1>1 DEF Show
  <2>2. ViewInv'
    BY <1>1, <2>1 DEF Show, ViewInv
  <2>3. AckInv'
    BY <1>1 DEF Show, AckInv
  <2>. QED BY <2>2, <2>3
<1>2. CASE Fail(page.view.catches)
  <2>1. ViewInv'
    BY <1>2 DEF Fail, Nothing, ViewInv
  <2>2. AckInv'
    BY <1>2 DEF Fail, AckInv
  <2>. QED BY <2>1, <2>2
<1>3. ASSUME NEW q \in Queries \cup {query}, Ask(q) PROVE ViewInv' /\ AckInv'
  BY <1>3 DEF Ask, ViewInv, AckInv
<1>. QED BY <1>1, <1>2, <1>3 DEF Poll

\* A view that is asked again, with everything shown that was hidden, or opened anew: the page knows
\* of nothing later than the question.
LEMMA AskedAgain ==
  ASSUME ViewInv, AckInv, NEW q \in Queries, Ask(q) \/ Open(q),
         acked' \in [Rows -> Nat], \A r \in Rows : acked'[r] <= version
  PROVE ViewInv' /\ AckInv'
<1>1. ViewInv'
  BY DEF Ask, Open, Nothing, ViewInv
<1>2. AckInv'
  BY DEF Ask, Open, ViewInv, AckInv
<1>. QED BY <1>1, <1>2

\* The page is told nothing of row r, hides it, or knows of no change of it.
Kept(r) ==
  \/ acked'[r] = acked[r] /\ (r \in hidden => r \in hidden')
  \/ acked'[r] = version /\ r \in hidden'
  \/ acked'[r] = 0

\* A view left alone, by a page that is told of no change, or hides the row it is told of.
LEMMA LeftAlone ==
  ASSUME ViewInv, AckInv, UNCHANGED viewVars, acked' \in [Rows -> Nat],
         \A r \in Rows : Kept(r)
  PROVE ViewInv' /\ AckInv'
<1>1. ViewInv' /\ UNCHANGED <<version, asked>> /\ version \in Nat /\ asked \in Nat
  BY DEF viewVars, ViewInv
<1>2. \A r \in Rows : acked'[r] <= version /\ (acked'[r] <= asked \/ r \in hidden')
  BY <1>1 DEF AckInv, Kept
<1>. QED BY <1>1, <1>2 DEF AckInv

-----------------------------------------------------------------------------
(* The handlers that run.                                                  *)

\* A handler that runs is told from an idle slot.
LEMMA OpNotIdle == \A o \in Op : o # Idle /\ o.pc # "idle"
BY DEF Op, Idle

\* What runs in a slot is a handler of the page.
LEMMA RunningIsOp == ASSUME OpsInv, NEW s \in Running PROVE s \in Slots /\ ops[s] \in Op
BY OpNotIdle DEF OpsInv, Running, Idle

\* A step within a handler that neither opens nor closes, marks nor clears anything.
LEMMA WithinOp ==
  ASSUME OpsInv, FlagInv, LockInv, NEW s \in Running, NEW o \in Op,
         ops' = [ops EXCEPT ![s] = o],
         o.h = ops[s].h, o.row = ops[s].row, o.live = ops[s].live,
         o.h.refresh = "none" /\ o.h.hides = "no" => o.call = 1,
         UNCHANGED <<page, dialog, busy>>
  PROVE OpsInv' /\ FlagInv' /\ LockInv'
<1>1. s \in Slots /\ ops[s] \in Op
  BY RunningIsOp
<1>2. Op' = Op
  BY DEF Op
<1>3. ops' \in [Slots -> {Idle} \cup Op] /\ \A z \in Slots : ops'[z] = IF z = s THEN o ELSE ops[z]
  BY <1>1 DEF OpsInv
<1>4. Running' = Running /\ Live' = Live
  BY <1>1, <1>3, OpNotIdle DEF Running, Live
<1>5. OpsInv'
  BY <1>2, <1>3, <1>4 DEF OpsInv, Running
<1>6. \A z \in Live : /\ ops'[z].h = ops[z].h /\ ops'[z].row = ops[z].row
                      /\ FlagOf(z)' = FlagOf(z) /\ (Exclusive(ops[z].h)' <=> Exclusive(ops[z].h))
  BY <1>3 DEF FlagOf, Flag, Running, Live, Exclusive
<1>7. FlagInv'
  BY <1>4, <1>6 DEF FlagInv
<1>8. LockInv'
  BY <1>4, <1>6 DEF LockInv
<1>. QED BY <1>5, <1>7, <1>8

\* A handler that ends: it may clear its flag and close the dialog it was sent from, which are
\* those of no other handler.
LEMMA EndsOp ==
  ASSUME OpsInv, FlagInv, LockInv, NEW s \in Live,
         ops' = [ops EXCEPT ![s] = Idle], busy' = busy \ {FlagOf(s)},
         Close(ops[s].h) \/ dialog' = dialog, UNCHANGED page
  PROVE OpsInv' /\ FlagInv' /\ LockInv'
<1>1. s \in Running /\ s \in Slots /\ ops[s] \in Op
  BY RunningIsOp DEF Live
<1>2. Op' = Op
  BY DEF Op
<1>3. ops' \in [Slots -> {Idle} \cup Op] /\ \A z \in Slots : ops'[z] = IF z = s THEN Idle ELSE ops[z]
  BY <1>1 DEF OpsInv
<1>4. Running' = Running \ {s} /\ Live' = Live \ {s}
  BY <1>3 DEF Running, Live, Idle
<1>5. OpsInv'
  BY <1>2, <1>3, <1>4 DEF OpsInv, Running
<1>6. \A z \in Live' : /\ ops'[z].h = ops[z].h /\ ops'[z].row = ops[z].row
                       /\ FlagOf(z)' = FlagOf(z) /\ (Exclusive(ops[z].h)' <=> Exclusive(ops[z].h))
  BY <1>3, <1>4 DEF FlagOf, Flag, Running, Live, Exclusive
<1>7. FlagInv'
  BY <1>4, <1>6 DEF FlagInv
<1>8. ASSUME NEW z \in Live \ {s}, Exclusive(ops[z].h), ops[z].h.dialog.loading # ""
      PROVE dialog' = <<ops[z].h.dialog.name, ops[z].row>>
  <2>1. dialog = <<ops[z].h.dialog.name, ops[z].row>> /\ FlagOf(s) # FlagOf(z)
    BY <1>8 DEF LockInv, FlagInv
  <2>2. ops[z].h \in page.handlers /\ ops[s].h \in page.handlers
    BY <1>1, RunningIsOp DEF Op, Live
  <2>3. Locks(ops[z].h, ops[s].h)
    BY <2>2 DEF OpsInv, Sound
  <2>4. ops[s].h.dialog.name # ops[z].h.dialog.name
    BY <1>8, <2>1, <2>3 DEF Locks, FlagOf, Flag
  <2>. QED BY <2>1, <2>4 DEF Close
<1>9. LockInv'
  BY <1>4, <1>6, <1>8 DEF LockInv
<1>. QED BY <1>5, <1>7, <1>9

\* The answer of a handler whose page is gone.
LEMMA IgnoredOp ==
  ASSUME OpsInv, FlagInv, LockInv, NEW s \in Running, ~ops[s].live, Ignored(s)
  PROVE OpsInv' /\ FlagInv' /\ LockInv'
<1>1. s \in Slots /\ ops[s] \in Op
  BY RunningIsOp
<1>2. Op' = Op
  BY DEF Op, Ignored
<1>3. ops' \in [Slots -> {Idle} \cup Op] /\ \A z \in Slots : ops'[z] = IF z = s THEN Idle ELSE ops[z]
  BY <1>1 DEF OpsInv, Ignored
<1>4. Running' = Running \ {s} /\ Live' = Live
  BY <1>3 DEF Running, Live, Idle
<1>5. OpsInv'
  BY <1>2, <1>3, <1>4 DEF OpsInv, Running, Ignored
<1>6. \A z \in Live' : /\ ops'[z].h = ops[z].h /\ ops'[z].row = ops[z].row
                       /\ FlagOf(z)' = FlagOf(z) /\ (Exclusive(ops[z].h)' <=> Exclusive(ops[z].h))
  BY <1>3, <1>4 DEF FlagOf, Flag, Running, Live, Exclusive, Ignored
<1>7. FlagInv'
  BY <1>4, <1>6 DEF FlagInv, Ignored
<1>8. LockInv'
  BY <1>4, <1>6 DEF LockInv, Ignored
<1>. QED BY <1>5, <1>7, <1>8

\* A page that is left: what still runs of it has nobody to answer to.
LEMMA AbandonedOps ==
  ASSUME OpsInv, NEW K \in SUBSET Running, UNCHANGED page,
         ops' = [z \in Slots |-> IF z \in K THEN [ops[z] EXCEPT !.live = FALSE] ELSE Idle]
  PROVE OpsInv' /\ FlagInv' /\ LockInv'
<1>1. Op' = Op
  BY DEF Op
<1>2. ASSUME NEW z \in K PROVE /\ z \in Slots /\ ops'[z] \in Op /\ ~ops'[z].live
                               /\ ops'[z].h = ops[z].h /\ ops'[z].call = ops[z].call
  BY RunningIsOp DEF Op
<1>3. ops' \in [Slots -> {Idle} \cup Op]
  BY <1>2
<1>4. Running' = K /\ Live' = {}
  BY <1>2, OpNotIdle DEF Running, Live, Idle
<1>5. OpsInv'
  BY <1>1, <1>2, <1>3, <1>4 DEF OpsInv
<1>. QED BY <1>4, <1>5 DEF FlagInv, LockInv

-----------------------------------------------------------------------------
(* The initial states and each step.                                       *)

\* A page opens with no dialog, no request and a view that has just been asked.
LEMMA InitInv == PagesInit => PagesInv
<1>. SUFFICES ASSUME PagesInit PROVE PagesInv
  OBVIOUS
<1>1. ViewInv
  BY DEF PagesInit, Init, Nothing, ViewInv
<1>2. AckInv
  BY DEF PagesInit, Init, Start, AckInv
<1>3. PICK p \in App : \E hs \in SUBSET p.handlers : page = [p EXCEPT !.handlers = hs]
  BY DEF PagesInit, Offered, Related
<1>4. Sound(page)
  BY <1>3, AppSound DEF Sound
<1>5. Running = {} /\ Live = {}
  BY DEF PagesInit, Start, Running, Live, Idle
<1>6. OpsInv
  BY <1>4, <1>5 DEF PagesInit, Start, OpsInv
<1>. QED BY <1>1, <1>2, <1>5, <1>6 DEF PagesInv, FlagInv, LockInv

\* The hook polls, whatever the handlers do.
LEMMA PollInv == ASSUME PagesInv, Poll, UNCHANGED pageVars PROVE PagesInv'
<1>1. ViewInv' /\ AckInv'
  BY PollKeeps DEF PagesInv
<1>2. OpsInv'
  BY DEF PagesInv, OpsInv, Op, Running, pageVars
<1>3. FlagInv'
  BY DEF PagesInv, FlagInv, FlagOf, Exclusive, Live, Running, pageVars
<1>4. LockInv'
  BY DEF PagesInv, LockInv, Exclusive, Live, Running, pageVars
<1>. QED BY <1>1, <1>2, <1>3, <1>4 DEF PagesInv

\* What a step of the page that leaves the view and what it was told alone keeps.
LEMMA ViewKept ==
  ASSUME PagesInv, UNCHANGED <<viewVars, hidden, acked>>
  PROVE ViewInv' /\ AckInv'
<1>1. (\A r \in Rows : Kept(r)) /\ acked' \in [Rows -> Nat]
  BY DEF Kept, PagesInv, AckInv
<1>2. ViewInv /\ AckInv /\ UNCHANGED viewVars
  BY DEF PagesInv
<1>. QED BY <1>1, <1>2, LeftAlone

\* A locked dialog is the one open, with a flag set that keeps it open.
LEMMA LockedDialog ==
  ASSUME PagesInv, NEW s \in Live, Exclusive(ops[s].h), ops[s].h.dialog.loading # ""
  PROVE /\ dialog = <<ops[s].h.dialog.name, ops[s].row>> /\ dialog # NoDialog /\ ~Dismissible
<1>1. dialog = <<ops[s].h.dialog.name, ops[s].row>> /\ FlagOf(s) \in busy
  BY DEF PagesInv, LockInv, FlagInv
<1>2. ops[s].h \in page.handlers
  BY RunningIsOp DEF PagesInv, Op, Live
<1>3. Locks(ops[s].h, ops[s].h)
  BY <1>2 DEF PagesInv, OpsInv, Sound
<1>4. FlagOf(s) = <<ops[s].h.dialog.loading, NoRow>>
  BY <1>3 DEF Locks, FlagOf, Flag
<1>. QED BY <1>1, <1>2, <1>3, <1>4 DEF Locks, NoDialog, Dismissible

\* A dialog opens where none is open, so none is locked.
LEMMA OpenDialogInv ==
  ASSUME PagesInv, NEW h \in page.handlers, NEW r \in Rows, OpenDialog(h, r) PROVE PagesInv'
<1>1. UNCHANGED <<viewVars, page, ops, busy, hidden, acked, submits>> /\ dialog = NoDialog
  BY DEF OpenDialog
<1>2. OpsInv'
  BY <1>1 DEF PagesInv, OpsInv, Op, Running
<1>3. FlagInv'
  BY <1>1 DEF PagesInv, FlagInv, FlagOf, Exclusive, Live, Running
<1>4. LockInv'
  BY <1>1, LockedDialog DEF LockInv, Exclusive, Live, Running
<1>. QED BY <1>1, <1>2, <1>3, <1>4, ViewKept DEF PagesInv

\* A locked dialog is not dismissed.
LEMMA DismissInv == ASSUME PagesInv, Dismiss PROVE PagesInv'
<1>1. UNCHANGED <<viewVars, page, ops, busy, hidden, acked, submits>> /\ Dismissible
  BY DEF Dismiss
<1>2. OpsInv'
  BY <1>1 DEF PagesInv, OpsInv, Op, Running
<1>3. FlagInv'
  BY <1>1 DEF PagesInv, FlagInv, FlagOf, Exclusive, Live, Running
<1>4. LockInv'
  BY <1>1, LockedDialog DEF LockInv, Exclusive, Live, Running
<1>. QED BY <1>1, <1>2, <1>3, <1>4, ViewKept DEF PagesInv

\* A handler starts under a flag that no other handler runs under, and not beside the handler its
\* dialog is locked by.
LEMMA SubmitInv ==
  ASSUME PagesInv, NEW s \in Slots, NEW h \in page.handlers, NEW r \in Rows, Submit(s, h, r)
  PROVE PagesInv'
<1>. DEFINE o == [pc |-> "sent", h |-> h, row |-> r, call |-> 1, live |-> TRUE]
<1>1. /\ s \notin Running /\ Flag(h, r) \notin busy
      /\ ops' = [ops EXCEPT ![s] = o]
      /\ UNCHANGED <<viewVars, page, hidden, acked>>
  BY DEF Submit, Enabled
<1>2. o \in Op /\ Op' = Op
  BY <1>1 DEF Op
<1>3. ops' \in [Slots -> {Idle} \cup Op] /\ \A z \in Slots : ops'[z] = IF z = s THEN o ELSE ops[z]
  BY <1>1, <1>2 DEF PagesInv, OpsInv
<1>4. Running' = Running \cup {s} /\ Live' = Live \cup {s} /\ s \notin Live
  BY <1>1, <1>3 DEF Running, Live
<1>5. OpsInv'
  BY <1>1, <1>2, <1>3, <1>4 DEF PagesInv, OpsInv
<1>6. /\ \A z \in Live : /\ ops'[z].h = ops[z].h /\ ops'[z].row = ops[z].row
                         /\ FlagOf(z)' = FlagOf(z) /\ (Exclusive(ops[z].h)' <=> Exclusive(ops[z].h))
      /\ ops'[s].h = h /\ ops'[s].row = r /\ FlagOf(s)' = Flag(h, r)
      /\ Exclusive(ops[s].h)' <=> Exclusive(h)
  BY <1>1, <1>3, <1>4 DEF FlagOf, Flag, Exclusive, Live, Running
<1>7. busy \subseteq busy' /\ (Exclusive(h) => Flag(h, r) \in busy')
  BY DEF Submit, Exclusive
<1>8. ASSUME NEW z \in Live, Exclusive(ops[z].h) \/ Exclusive(h) PROVE FlagOf(z) # Flag(h, r)
  <2>1. SUFFICES ASSUME FlagOf(z) = Flag(h, r) PROVE FALSE
    OBVIOUS
  <2>2. ops[z].h.busy = h.busy
    BY <2>1 DEF FlagOf, Flag
  <2>3. Exclusive(ops[z].h)
    BY <1>8, <2>2 DEF Exclusive
  <2>4. FlagOf(z) \in busy
    BY <2>3 DEF PagesInv, FlagInv
  <2>. QED BY <1>1, <2>1, <2>4
<1>9. FlagInv'
  BY <1>4, <1>6, <1>7, <1>8 DEF PagesInv, FlagInv
<1>10. Locks(h, h)
  BY DEF PagesInv, OpsInv, Sound
<1>11. /\ dialog = IF h.dialog = Inline THEN NoDialog ELSE <<h.dialog.name, r>>
       /\ dialog' = IF h.closes = "first" THEN NoDialog ELSE dialog
  BY DEF Submit
<1>12. h.dialog.loading # "" => dialog' = <<h.dialog.name, r>>
  <2>1. Inline.loading = ""
    BY DEF Inline, Dialog, ConfirmDialog
  <2>. QED BY <1>10, <1>11, <2>1 DEF Locks
<1>13. ASSUME NEW z \in Live, Exclusive(ops[z].h), ops[z].h.dialog.loading # "" PROVE FALSE
  <2>1. dialog = <<ops[z].h.dialog.name, ops[z].row>> /\ dialog # NoDialog
    BY <1>13, LockedDialog
  <2>2. h.dialog.name = ops[z].h.dialog.name
    BY <1>11, <2>1
  <2>3. ops[z].h \in page.handlers
    BY RunningIsOp DEF PagesInv, Op, Live
  <2>4. Locks(ops[z].h, h)
    BY <2>3 DEF PagesInv, OpsInv, Sound
  <2>5. Flag(h, r) = FlagOf(z)
    BY <1>13, <2>2, <2>4 DEF Locks, FlagOf, Flag
  <2>. QED BY <1>8, <1>13, <2>5
<1>14. LockInv'
  BY <1>4, <1>6, <1>12, <1>13 DEF LockInv
<1>. QED BY <1>1, <1>5, <1>9, <1>14, ViewKept DEF PagesInv

\* The page is left and opened again.
LEMMA ReopenInv == ASSUME PagesInv, NEW q \in Queries, Reopen(q) PROVE PagesInv'
<1>1. ViewInv' /\ AckInv'
  <2>1. acked' \in [Rows -> Nat] /\ \A r \in Rows : acked'[r] <= version
    BY DEF Reopen, PagesInv, ViewInv
  <2>. QED BY <2>1, AskedAgain DEF Reopen, PagesInv
<1>2. OpsInv' /\ FlagInv' /\ LockInv'
  BY AbandonedOps DEF Reopen, PagesInv
<1>. QED BY <1>1, <1>2 DEF PagesInv

\* The server performs a call.
LEMMA PerformInv == ASSUME PagesInv, NEW s \in Running, Perform(s) PROVE PagesInv'
<1>1. ViewInv' /\ AckInv'
  BY DEF Perform, PagesInv, ViewInv, AckInv
<1>2. ops[s] \in Op
  BY RunningIsOp DEF PagesInv
<1>. DEFINE o == [ops[s] EXCEPT !.pc = "ok"]
<1>3. o \in Op /\ o.h = ops[s].h /\ o.row = ops[s].row /\ o.live = ops[s].live /\ o.call = ops[s].call
  BY <1>2 DEF Op
<1>4. ops' = [ops EXCEPT ![s] = o]
  BY DEF Perform
<1>. HIDE DEF o
<1>5. OpsInv' /\ FlagInv' /\ LockInv'
  BY <1>3, <1>4, WithinOp DEF PagesInv, OpsInv, Perform
<1>. QED BY <1>1, <1>5 DEF PagesInv

\* A call is refused, its answer is lost, or following the status throws.
LEMMA ErrInv == ASSUME PagesInv, NEW s \in Running, Refuse(s) \/ FollowThrows(s) PROVE PagesInv'
<1>1. UNCHANGED <<viewVars, page, dialog, busy, hidden, acked, submits>>
  BY DEF Refuse, FollowThrows
<1>2. ops[s] \in Op
  BY RunningIsOp DEF PagesInv
<1>. DEFINE o == [ops[s] EXCEPT !.pc = "err"]
<1>3. o \in Op /\ o.h = ops[s].h /\ o.row = ops[s].row /\ o.live = ops[s].live /\ o.call = ops[s].call
  BY <1>2 DEF Op
<1>4. ops' = [ops EXCEPT ![s] = o]
  BY DEF Refuse, FollowThrows
<1>. HIDE DEF o
<1>5. OpsInv' /\ FlagInv' /\ LockInv'
  BY <1>1, <1>3, <1>4, WithinOp DEF PagesInv, OpsInv
<1>. QED BY <1>1, <1>5, ViewKept DEF PagesInv

\* A handler sends its next call: it is not one that tells nobody, which has only one.
LEMMA NextCallInv == ASSUME PagesInv, NEW s \in Running, NextCall(s) PROVE PagesInv'
<1>1. /\ UNCHANGED <<viewVars, page, dialog, busy, hidden, acked, submits>>
      /\ ops[s].call # Len(ops[s].h.calls)
  BY DEF NextCall, LastCall
<1>2. ops[s] \in Op
  BY RunningIsOp DEF PagesInv
<1>. DEFINE o == [ops[s] EXCEPT !.pc = "sent", !.call = @ + 1]
<1>3. o \in Op /\ o.h = ops[s].h /\ o.row = ops[s].row /\ o.live = ops[s].live
  <2>1. ops[s].call + 1 \in Nat
    BY <1>2 DEF Op
  <2>2. o = [ops[s] EXCEPT !.pc = "sent", !.call = ops[s].call + 1]
    OBVIOUS
  <2>. QED BY <1>2, <2>1, <2>2 DEF Op
<1>4. ops' = [ops EXCEPT ![s] = o]
  BY DEF NextCall
<1>5. ~(ops[s].h.refresh = "none" /\ ops[s].h.hides = "no")
  <2>1. SUFFICES ASSUME ops[s].h.refresh = "none", ops[s].h.hides = "no" PROVE FALSE
    OBVIOUS
  <2>2. ops[s].call = 1 /\ Quiet(ops[s].h)
    BY <1>2, <2>1 DEF PagesInv, OpsInv, Op, Sound
  <2>3. Len(<<reads>>) = 1
    OBVIOUS
  <2>. QED BY <1>1, <2>1, <2>2, <2>3 DEF Quiet
<1>. HIDE DEF o
<1>6. OpsInv' /\ FlagInv' /\ LockInv'
  BY <1>1, <1>3, <1>4, <1>5, WithinOp DEF PagesInv
<1>. QED BY <1>1, <1>6, ViewKept DEF PagesInv

\* A handler starts to follow the status of what it changed.
LEMMA FollowInv == ASSUME PagesInv, NEW s \in Running, FollowStatus(s) PROVE PagesInv'
<1>1. UNCHANGED <<viewVars, page, dialog, busy, hidden, acked, submits>>
  BY DEF FollowStatus
<1>2. ops[s] \in Op
  BY RunningIsOp DEF PagesInv
<1>. DEFINE o == [ops[s] EXCEPT !.pc = "follow"]
<1>3. o \in Op /\ o.h = ops[s].h /\ o.row = ops[s].row /\ o.live = ops[s].live /\ o.call = ops[s].call
  BY <1>2 DEF Op
<1>4. ops' = [ops EXCEPT ![s] = o]
  BY DEF FollowStatus
<1>. HIDE DEF o
<1>5. OpsInv' /\ FlagInv' /\ LockInv'
  BY <1>1, <1>3, <1>4, WithinOp DEF PagesInv, OpsInv
<1>. QED BY <1>1, <1>5, ViewKept DEF PagesInv

\* A handler whose page is gone ends.
LEMMA IgnoredInv == ASSUME PagesInv, NEW s \in Running, ~ops[s].live, Ignored(s) PROVE PagesInv'
<1>1. OpsInv' /\ FlagInv' /\ LockInv'
  BY IgnoredOp DEF PagesInv
<1>. QED BY <1>1, ViewKept DEF Ignored, PagesInv

\* A handler that succeeded tells the page, and either asks the view again, hides its row or has
\* changed nothing.
LEMMA SucceededInv ==
  ASSUME PagesInv, NEW s \in Live, Succeeded(s), LastCall(ops[s]) \/ ops[s].pc = "follow" PROVE PagesInv'
<1>. DEFINE o == ops[s]
<1>1. s \in Running /\ o \in Op
  BY RunningIsOp DEF PagesInv, Live
<1>2. OpsInv' /\ FlagInv' /\ LockInv'
  BY EndsOp DEF PagesInv, Succeeded, FlagOf
<1>3. o.row \in Rows /\ version \in Nat /\ acked \in [Rows -> Nat] /\ \A r \in Rows : acked[r] <= version
  BY <1>1 DEF Op, PagesInv, ViewInv, AckInv
<1>4. acked' = Told(o) /\ Refreshed(o)
  BY DEF Succeeded
<1>5. acked' \in [Rows -> Nat] /\ \A r \in Rows : acked'[r] <= version
  BY <1>3, <1>4 DEF Told
<1>6. CASE o.h.refresh # "none"
  <2>1. Ask(query) /\ query \in Queries
    BY <1>4, <1>6 DEF Refreshed, doRefresh, PagesInv, ViewInv
  <2>2. ViewInv' /\ AckInv'
    BY <1>5, <2>1, AskedAgain DEF PagesInv
  <2>. QED BY <1>2, <2>2 DEF PagesInv
<1>7. CASE o.h.refresh = "none" /\ o.h.hides # "no"
  <2>1. hidden' = Keeps(o) \cup {o.row} /\ UNCHANGED viewVars
    BY <1>4, <1>7 DEF Refreshed
  <2>2. \A r \in Rows : Kept(r)
    <3> TAKE r \in Rows
    <3>1. acked'[r] = IF r = o.row THEN (IF o.h.calls[o.call] THEN version ELSE acked[r])
                      ELSE IF o.h.hides = "last" THEN 0 ELSE acked[r]
      BY <1>4 DEF Told
    <3>2. r = o.row => r \in hidden'
      BY <2>1
    <3>3. o.h.hides # "last" => (r \in hidden => r \in hidden')
      BY <2>1 DEF Keeps
    <3> QED BY <3>1, <3>2, <3>3 DEF Kept
  <2>3. ViewInv' /\ AckInv'
    <3> HIDE DEF o
    <3> QED BY <1>5, <2>1, <2>2, LeftAlone DEF PagesInv
  <2>. QED BY <1>2, <2>3 DEF PagesInv
<1>8. CASE o.h.refresh = "none" /\ o.h.hides = "no"
  <2>1. hidden' = hidden /\ UNCHANGED viewVars
    BY <1>4, <1>8 DEF Refreshed
  <2>2. o.call = 1 /\ o.h.calls = <<reads>>
    BY <1>1, <1>8 DEF PagesInv, OpsInv, Op, Sound, Quiet
  <2>3. o.h.calls[o.call] = FALSE
    BY <2>2 DEF reads
  <2>4. \A r \in Rows : acked'[r] = acked[r]
    BY <1>3, <1>4, <1>8, <2>3 DEF Told
  <2>5. ViewInv' /\ AckInv'
    <3>1. \A r \in Rows : Kept(r)
      BY <2>1, <2>4 DEF Kept
    <3> QED BY <1>5, <2>1, <3>1, LeftAlone DEF PagesInv
  <2>. QED BY <1>2, <2>5 DEF PagesInv
<1>. QED BY <1>6, <1>7, <1>8

\* A handler whose success opens the page anew.
LEMMA SucceededAnewInv == ASSUME PagesInv, NEW s \in Live, SucceededAnew(s) PROVE PagesInv'
<1>1. ops[s] \in Op /\ Open(query) /\ query \in Queries
  BY RunningIsOp DEF PagesInv, Live, ViewInv, SucceededAnew
<1>2. ViewInv' /\ AckInv'
  <2>1. acked' \in [Rows -> Nat] /\ \A r \in Rows : acked'[r] <= version
    BY DEF SucceededAnew, PagesInv, ViewInv
  <2>. QED BY <1>1, <2>1, AskedAgain DEF PagesInv
<1>3. OpsInv' /\ FlagInv' /\ LockInv'
  BY AbandonedOps DEF SucceededAnew, PagesInv
<1>. QED BY <1>2, <1>3 DEF PagesInv

\* A handler that succeeded, on its page or after it was left.
LEMMA SucceedInv == ASSUME PagesInv, NEW s \in Running, Succeed(s) PROVE PagesInv'
<1>1. CASE ~ops[s].live
  BY <1>1, IgnoredInv DEF Succeed
<1>2. CASE ops[s].live
  <2>1. s \in Live
    BY <1>2 DEF Live
  <2>. QED BY <1>2, <2>1, SucceededInv, SucceededAnewInv DEF Succeed
<1>. QED BY <1>1, <1>2

\* A handler that failed clears its flag as well.
LEMMA CatchInv == ASSUME PagesInv, NEW s \in Running, Catch(s) PROVE PagesInv'
<1>1. CASE ~ops[s].live
  BY <1>1, IgnoredInv DEF Catch
<1>2. CASE ops[s].live
  <2>1. s \in Live
    BY <1>2 DEF Live
  <2>2. /\ ops' = [ops EXCEPT ![s] = Idle] /\ busy' = busy \ {FlagOf(s)}
        /\ Close(ops[s].h) \/ dialog' = dialog
        /\ UNCHANGED <<page, acked, submits>>
    BY <1>2 DEF Catch, Failed, FlagOf
  <2>3. OpsInv' /\ FlagInv' /\ LockInv'
    BY <2>1, <2>2, EndsOp DEF PagesInv
  <2>4. CASE Ask(query)
    <3>1. ViewInv' /\ AckInv'
      BY <2>2, <2>4, AskedAgain DEF PagesInv, ViewInv, AckInv
    <3>. QED BY <2>3, <3>1 DEF PagesInv
  <2>5. CASE UNCHANGED <<viewVars, hidden>>
    BY <2>2, <2>3, <2>5, ViewKept DEF PagesInv
  <2>. QED BY <1>2, <2>4, <2>5 DEF Catch, Failed, doRefresh
<1>. QED BY <1>1, <1>2

-----------------------------------------------------------------------------
\* Every reachable state of every page satisfies the invariant.
THEOREM InvariantHolds == PagesSpec => []PagesInv
<1>1. PagesInv /\ [PagesNext]_vars => PagesInv'
  <2>. SUFFICES ASSUME PagesInv, [PagesNext]_vars PROVE PagesInv'
    OBVIOUS
  <2>1. CASE Poll /\ UNCHANGED pageVars
    BY <2>1, PollInv
  <2>2. ASSUME NEW h \in page.handlers, NEW r \in Rows,
               OpenDialog(h, r) \/ \E s \in Slots : Submit(s, h, r)
        PROVE PagesInv'
    BY <2>2, OpenDialogInv, SubmitInv
  <2>3. CASE Dismiss
    BY <2>3, DismissInv
  <2>4. ASSUME NEW q \in Queries \cup {query}, Reopen(q) PROVE PagesInv'
    BY <2>4, ReopenInv DEF PagesInv, ViewInv
  <2>5. ASSUME NEW s \in Running,
               \/ Perform(s) \/ Refuse(s) \/ NextCall(s) \/ FollowStatus(s)
               \/ FollowThrows(s) \/ Succeed(s) \/ Catch(s)
        PROVE PagesInv'
    BY <2>5, PerformInv, ErrInv, NextCallInv, FollowInv, SucceedInv, CatchInv
  <2>6. CASE UNCHANGED vars
    <3>1. OpsInv'
      BY <2>6 DEF PagesInv, OpsInv, Op, Running, vars, pageVars
    <3>2. FlagInv'
      BY <2>6 DEF PagesInv, FlagInv, FlagOf, Exclusive, Live, Running, vars, pageVars
    <3>3. LockInv'
      BY <2>6 DEF PagesInv, LockInv, Exclusive, Live, Running, vars, pageVars
    <3>. QED BY <2>6, <3>1, <3>2, <3>3, ViewKept DEF PagesInv, vars, pageVars
  <2>. QED BY <2>1, <2>2, <2>3, <2>4, <2>5, <2>6 DEF PagesNext
<1>. QED BY InitInv, <1>1, PTL DEF PagesSpec

\* On every page a view that has its answer shows every change the page was told of, or hides its
\* row: each handler asks the view again after its answer, hides its row or changes nothing, and the
\* hook never shows an answer older than its last question.
THEOREM WritesAreRead == PagesSpec => []ReadYourWrites
<1>1. PagesInv => ReadYourWrites
  BY DEF PagesInv, ViewInv, AckInv, ReadYourWrites
<1>. QED BY InvariantHolds, <1>1, PTL

\* On every page at most one handler runs under a flag of its own, and the dialog that flag locks
\* stays open on its row until the handler has its answer.
THEOREM AnswersMeetTheirDialogs == PagesSpec => []AnswerMeetsItsDialog
<1>1. PagesInv => AnswerMeetsItsDialog
  BY DEF PagesInv, FlagInv, LockInv, FlagOf, AnswerMeetsItsDialog
<1>. QED BY InvariantHolds, <1>1, PTL
=============================================================================
