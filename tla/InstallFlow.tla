----------------------------- MODULE InstallFlow -----------------------------
(***************************************************************************)
(* The packages page (routes/PackageManagement.jsx and the dialogs of      *)
(* components/packages): an install is a chain of requests and dialogs     *)
(* (versions, preview, left-over volumes, questions, progress stream), and *)
(* several chains may run at once, started by quick clicks or still on     *)
(* their way when the page is left.  They share the dialogs, one of each   *)
(* kind, the progress toast and the device flow of an oauth question.      *)
(*                                                                         *)
(* What the server answers is a choice: PackageLifecycle models the        *)
(* server.  Of the answers of a form only the token of an oauth question,  *)
(* which is state of the dialog and not of its fields, is modelled; pages  *)
(* of the questions dialog and what the previews display are left out.     *)
(* Oauth questions have the same key in every package that has one.  The   *)
(* state of an effect that runs when a dialog opens or closes changes with *)
(* the dialog.                                                             *)
(***************************************************************************)
EXTENDS Integers, SequencesExt

CONSTANTS
  Names,       \* packages
  Versions,    \* versions of a package: the latest is the largest, 0 stands for none
  Asks,        \* name -> version -> "nothing", "fields" or "oauth"
  Slots,       \* handlers in flight
  Flows,       \* runs of runOAuth in flight
  MaxClicks    \* bound: operations the operator starts from the tables

ASSUME InstallAssumption ==
  /\ Versions \subseteq Nat \ {0}
  /\ \E latest \in Versions : \A v \in Versions : v <= latest
  /\ Asks \in [Names -> [Versions -> {"nothing", "fields", "oauth"}]]
  /\ Slots \subseteq Nat /\ Flows \subseteq Nat /\ MaxClicks \in Nat

VARIABLES
  dialogs,    \* kind -> what the dialog of that kind is about, Closed when it is not open
  stack,      \* kinds of the open dialogs, the one on top last
  purge,      \* purgeVolumes, the tick box of the uninstall dialog
  chains,     \* slot -> the handler that runs in it
  toast,      \* the progress toast is shown
  refreshing, \* the repositories are being refreshed
  oauth,      \* status and token of the oauth question of the questions dialog
  flows,      \* runs of runOAuth
  mixed,      \* history: other packages this opening of the questions dialog has had to do with
  ticked,     \* history: the package for which the operator ticked the box in this opening
  clicks      \* operations started, for the bound

vars == <<dialogs, stack, purge, chains, toast, refreshing, oauth, flows, mixed, ticked, clicks>>

-----------------------------------------------------------------------------
Kinds == {"version", "preview", "reuse", "questions", "info", "manifest", "uninstall"}
Closed == [open |-> FALSE]
Idle == [pc |-> "idle"]
Latest == CHOOSE v \in Versions : \A w \in Versions : w <= v

\* What an install is about: identity, reuse of left-over volumes, version whose data is imported.
Request(n, v, r, i) == [name |-> n, ver |-> v, reuse |-> r, import |-> i]
Requests == [name : Names, ver : Versions, reuse : BOOLEAN, import : Versions \cup {0}]
NoRequest == [name |-> "none", ver |-> 0, reuse |-> FALSE, import |-> 0]

\* What each dialog holds while it is open; chose is a history field, what the operator has chosen
\* for this install so far.
versionSelectDialog(req, chose) == [open |-> TRUE, req |-> req, chose |-> chose]
previewDialog(req, chose, from) == [open |-> TRUE, req |-> req, chose |-> chose, upgrading_from |-> from]
volumeReuseDialog(req, chose) == [open |-> TRUE, req |-> req, chose |-> chose]
questionsDialog(req, chose, cached) == [open |-> TRUE, req |-> req, chose |-> chose, cached |-> cached]
infoDialog(n) == [open |-> TRUE, name |-> n]
manifestDialog(n) == [open |-> TRUE, name |-> n, content |-> "none"]
uninstallConfirm(n) == [open |-> TRUE, name |-> n]

\* The values of a dialog of kind k.
Dialogs(k) ==
  {Closed} \cup
    CASE k \in {"version", "reuse"} -> [open : {TRUE}, req : Requests, chose : Requests]
      [] k = "preview" ->
           [open : {TRUE}, req : Requests, chose : Requests, upgrading_from : Versions \cup {0}]
      [] k = "questions"            -> [open : {TRUE}, req : Requests, chose : Requests, cached : BOOLEAN]
      [] k \in {"info", "uninstall"} -> [open : {TRUE}, name : Names]
      [] k = "manifest"             -> [open : {TRUE}, name : Names, content : Names \cup {"none"}]

Alone(flow) == IF flow.pc = "idle" THEN flow ELSE [flow EXCEPT !.here = FALSE]

Busy(c) == chains[c].pc # "idle"
NoFlow == [status |-> "idle", token |-> "none"]

Init ==
  /\ dialogs = [k \in Kinds |-> Closed] /\ stack = <<>> /\ purge = FALSE
  /\ chains = [c \in Slots |-> Idle] /\ toast = FALSE /\ refreshing = FALSE
  /\ oauth = NoFlow /\ flows = [f \in Flows |-> Idle]
  /\ mixed = {} /\ ticked = "none" /\ clicks = 0

-----------------------------------------------------------------------------
(* Dialogs.  The operator reaches the one on top, and the page only when   *)
(* none is open; an answer opens its dialog over whatever is there, and    *)
(* replaces what a dialog of its kind is about.                            *)

Top(k) == stack # <<>> /\ stack[Len(stack)] = k

Put(k, d) == dialogs' = [dialogs EXCEPT ![k] = d]

Raise(k) == stack' = IF dialogs[k].open THEN stack ELSE Append(stack, k)

\* setXDialog({ open: true, ... }) of every kind but the questions.
Open(k, d) == Put(k, d) /\ Raise(k) /\ UNCHANGED <<oauth, mixed>>

\* What the dialog holds for its oauth question when it opens: the token of a previous install.
Initial(d) == IF d.cached THEN [status |-> "connected", token |-> d.req.name] ELSE NoFlow

\* Mutant: only a token that is cached replaces the one of the dialog before.
OpenQuestions_KeepsToken(d) ==
  /\ Put("questions", d) /\ Raise("questions")
  /\ IF dialogs["questions"].open
     THEN oauth' = oauth /\ mixed' = mixed \cup {dialogs["questions"].req.name}
     ELSE oauth' = (IF d.cached THEN Initial(d) ELSE oauth) /\ mixed' = {}

\* setQuestionsDialog({ open: true, ... }): the effects run when open changes, so a dialog that is
\* replaced while it is open keeps what it holds.
OpenQuestions(d) ==
  /\ Put("questions", d) /\ Raise("questions")
  /\ IF dialogs["questions"].open
     THEN oauth' = oauth /\ mixed' = mixed \cup {dialogs["questions"].req.name}
     ELSE oauth' = Initial(d) /\ mixed' = {}

\* A dialog on top is closed, by the operator or by the handler it starts.  The flows of a
\* questions dialog that closes are nobody's from then on (here is a history field).
Shut(k) ==
  /\ dialogs' = [dialogs EXCEPT ![k] = Closed]
  /\ stack' = RemoveFirst(stack, k)
  /\ flows' = IF k = "questions" THEN [f \in Flows |-> Alone(flows[f])] ELSE flows
  /\ mixed' = IF k = "questions" THEN {} ELSE mixed

Cancel(k) ==
  /\ Top(k) /\ Shut(k)
  /\ UNCHANGED <<purge, chains, toast, refreshing, oauth, ticked, clicks>>

-----------------------------------------------------------------------------
(* Handlers started from the tables.                                       *)

Free(c) == ~Busy(c) /\ \A z \in Slots : z < c => Busy(z)

Click(c, chain) ==
  /\ stack = <<>> /\ clicks < MaxClicks /\ Free(c)
  /\ clicks' = clicks + 1
  /\ chains' = [chains EXCEPT ![c] = chain]

Chain(pc, req, chose) == [pc |-> pc, req |-> req, chose |-> chose, live |-> TRUE]

handleStartInstall(c, n) ==
  LET req == Request(n, Latest, FALSE, 0) IN
  /\ Click(c, Chain("listPackageVersions", req, req))
  /\ UNCHANGED <<dialogs, stack, purge, toast, refreshing, oauth, flows, mixed, ticked>>

handleShowInfo(c, n) ==
  /\ Click(c, Chain("getInstalledInfo", Request(n, Latest, FALSE, 0), NoRequest))
  /\ UNCHANGED <<dialogs, stack, purge, toast, refreshing, oauth, flows, mixed, ticked>>

\* The dialog is opened before its content is asked for.
handleShowManifest(c, n) ==
  /\ Click(c, Chain("getPackageManifest", Request(n, Latest, FALSE, 0), NoRequest))
  /\ Open("manifest", manifestDialog(n))
  /\ UNCHANGED <<purge, toast, refreshing, flows, ticked>>

\* Mutant: the box keeps the tick of the dialog before.
OpenUninstall_KeepsTick(n) == purge' = purge /\ ticked' = "none"

OpenUninstall(n) == purge' = FALSE /\ ticked' = "none"

setUninstallConfirm(n) ==
  /\ stack = <<>> /\ clicks < MaxClicks
  /\ clicks' = clicks + 1
  /\ OpenUninstall(n)
  /\ Open("uninstall", uninstallConfirm(n))
  /\ UNCHANGED <<chains, toast, refreshing, flows>>

setPurgeVolumes ==
  /\ Top("uninstall")
  /\ purge' = ~purge
  /\ ticked' = IF purge THEN "none" ELSE dialogs["uninstall"].name
  /\ UNCHANGED <<dialogs, stack, chains, toast, refreshing, oauth, flows, mixed, clicks>>

-----------------------------------------------------------------------------
(* Streams.  The server works on the request and sends steps, then done or *)
(* an error; the connection may break before that is read.                 *)

Streams == {"install", "submit", "uninstall", "refresh"}
Stream(pc, req, chose) ==
  [pc |-> pc, req |-> req, chose |-> chose, saved |-> Closed, token |-> "none", purge |-> FALSE,
   asked |-> "none", server |-> "works", live |-> TRUE]
Streaming(c) == chains[c].pc \in Streams

handleUninstall(c) ==
  LET n == dialogs["uninstall"].name IN
  /\ Top("uninstall") /\ Free(c)
  /\ Shut("uninstall")
  /\ chains' = [chains EXCEPT ![c] =
                  [Stream("uninstall", Request(n, Latest, FALSE, 0), NoRequest)
                     EXCEPT !.purge = purge, !.asked = ticked]]
  /\ toast' = TRUE
  /\ UNCHANGED <<purge, refreshing, oauth, ticked, clicks>>

handleRefreshRepos(c) ==
  /\ ~refreshing
  /\ Click(c, Stream("refresh", NoRequest, NoRequest))
  /\ refreshing' = TRUE /\ toast' = TRUE
  /\ UNCHANGED <<dialogs, stack, purge, oauth, flows, mixed, ticked>>

\* The token the form has: what the dialog holds, if the version asks for one.
Token(req) == IF Asks[req.name][req.ver] = "oauth" THEN oauth.token ELSE "none"

\* handleInstallWithResponses: the dialog is kept to be shown again, and closed.
handleInstallWithResponses(c) ==
  LET d == dialogs["questions"] IN
  /\ Top("questions") /\ Free(c)
  /\ Shut("questions")
  /\ chains' = [chains EXCEPT ![c] =
                  [Stream("submit", d.req, d.chose) EXCEPT !.saved = d, !.token = Token(d.req)]]
  /\ toast' = TRUE
  /\ UNCHANGED <<purge, refreshing, oauth, ticked, clicks>>

\* How a stream may end: with done, with an error event or broken off, with the answers refused
\* before it starts, or closed in order with neither event sent.
ServerEnds(c) ==
  /\ Streaming(c) /\ chains[c].server = "works"
  /\ \E s \in {"finished", "failed", "rejects", "ended"} :
       /\ s = "rejects" => chains[c].pc = "submit"
       /\ chains' = [chains EXCEPT ![c].server = s]
  /\ UNCHANGED <<dialogs, stack, purge, toast, refreshing, oauth, flows, mixed, ticked, clicks>>

\* updateProgress, for every step the stream brings.
StreamStep(c) ==
  /\ Streaming(c) /\ chains[c].server = "works" /\ ~toast
  /\ toast' = TRUE
  /\ UNCHANGED <<dialogs, stack, purge, chains, refreshing, oauth, flows, mixed, ticked, clicks>>

\* done returns, and so does the end of the stream; an error event, a refused request and a broken
\* connection throw.
readProgressStream(server) == IF server \in {"finished", "ended"} THEN "returns" ELSE "throws"

\* Mutant: the toast is dismissed on success only.
dismissProgress_OnSuccess(server) == toast' = (readProgressStream(server) # "returns")

dismissProgress(server) == toast' = FALSE

\* The rest of the handler: flags and, for refused answers, the dialog kept before.
StreamEnds(c) ==
  LET s == chains[c].server
      back == s = "rejects" /\ chains[c].live IN
  /\ Streaming(c) /\ s # "works"
  /\ dismissProgress(s)
  /\ refreshing' = IF chains[c].pc = "refresh" /\ chains[c].live THEN FALSE ELSE refreshing
  /\ IF back THEN OpenQuestions([chains[c].saved EXCEPT !.open = TRUE])
             ELSE UNCHANGED <<dialogs, stack, oauth, mixed>>
  /\ chains' = [chains EXCEPT ![c] = Idle]
  /\ UNCHANGED <<purge, flows, ticked, clicks>>

-----------------------------------------------------------------------------
(* The chain of an install: the answers to its requests.                   *)

\* The calls of the client a handler waits for (getLastResponses, which follows getResponses, is
\* taken with it).  Each throws unless the answer is 200.
PackageClient ==
  {"listPackageVersions", "installPreview", "listUninstalledVolumes", "purgeUninstalledVolumes",
   "getPackageQuestionsByIdentity", "getResponses", "getInstalledInfo", "getPackageManifest"}

Goto(c, pc) == chains' = [chains EXCEPT ![c].pc = pc]
End(c) == chains' = [chains EXCEPT ![c] = Idle]
Calm == UNCHANGED <<purge, refreshing, flows, ticked, clicks>>

\* A dialog of a page that has been left is not shown.
OpenFor(c, k, d) ==
  IF chains[c].live THEN Open(k, d) ELSE UNCHANGED <<dialogs, stack, oauth, mixed>>

Throws(c) ==
  /\ chains[c].pc \in PackageClient
  /\ End(c)
  /\ UNCHANGED <<dialogs, stack, toast, oauth, mixed>>

\* listPackageVersions: several versions are chosen from, one is previewed.
VersionsAnswered(c) ==
  /\ chains[c].pc = "listPackageVersions"
  /\ \/ Throws(c)
     \/ /\ OpenFor(c, "version", versionSelectDialog(chains[c].req, chains[c].chose)) /\ End(c)
        /\ UNCHANGED toast
     \/ Goto(c, "installPreview") /\ UNCHANGED <<dialogs, stack, oauth, mixed, toast>>
  /\ Calm

\* installPreview: shown with the version it upgrades, or passed over on an error.
handleShowPreview(c) ==
  LET req == chains[c].req IN
  /\ chains[c].pc = "installPreview"
  /\ \/ /\ \E i \in (Versions \ {req.ver}) \cup {0} :
             OpenFor(c, "preview", previewDialog(req, chains[c].chose, i))
        /\ End(c)
     \/ Goto(c, "listUninstalledVolumes") /\ UNCHANGED <<dialogs, stack, oauth, mixed>>
  /\ UNCHANGED toast /\ Calm

\* listUninstalledVolumes: there are some, or none, or an error that is passed over.
handleCheckVolumes(c) ==
  /\ chains[c].pc = "listUninstalledVolumes"
  /\ \/ OpenFor(c, "reuse", volumeReuseDialog(chains[c].req, chains[c].chose)) /\ End(c)
     \/ Goto(c, "getPackageQuestionsByIdentity") /\ UNCHANGED <<dialogs, stack, oauth, mixed>>
  /\ UNCHANGED toast /\ Calm

\* purgeUninstalledVolumes: an error ends the install.
VolumesPurged(c) ==
  /\ chains[c].pc = "purgeUninstalledVolumes"
  /\ \/ Throws(c)
     \/ Goto(c, "getPackageQuestionsByIdentity") /\ UNCHANGED <<dialogs, stack, oauth, mixed, toast>>
  /\ Calm

\* getPackageQuestionsByIdentity.
QuestionsAnswered(c) ==
  /\ chains[c].pc = "getPackageQuestionsByIdentity"
  /\ \/ Throws(c)
     \/ Goto(c, "getResponses") /\ UNCHANGED <<dialogs, stack, oauth, mixed, toast>>
  /\ Calm

\* getResponses and getLastResponses, whose errors are passed over: the dialog with the answers of
\* before, or for a package that asks nothing the install itself.
handleInstall(c) ==
  LET req == chains[c].req IN
  /\ chains[c].pc = "getResponses"
  /\ \/ /\ Asks[req.name][req.ver] # "nothing"
        /\ IF chains[c].live
           THEN \E cached \in BOOLEAN : OpenQuestions(questionsDialog(req, chains[c].chose, cached))
           ELSE UNCHANGED <<dialogs, stack, oauth, mixed>>
        /\ End(c) /\ toast' = toast
     \/ /\ Asks[req.name][req.ver] = "nothing"
        /\ chains' = [chains EXCEPT ![c] =
                        [Stream("install", req, chains[c].chose) EXCEPT !.live = chains[c].live]]
        /\ toast' = TRUE
        /\ UNCHANGED <<dialogs, stack, oauth, mixed>>
  /\ Calm

\* getInstalledInfo.
InfoAnswered(c) ==
  /\ chains[c].pc = "getInstalledInfo"
  /\ \/ Throws(c)
     \/ /\ OpenFor(c, "info", infoDialog(chains[c].req.name)) /\ End(c)
        /\ UNCHANGED toast
  /\ Calm

\* getPackageManifest: the content goes to the dialog as it is by then, open or closed, and an
\* error closes it.
ManifestAnswered(c) ==
  /\ chains[c].pc = "getPackageManifest"
  /\ End(c)
  /\ \/ /\ chains[c].live /\ dialogs["manifest"].open
        /\ Put("manifest", [dialogs["manifest"] EXCEPT !.content = chains[c].req.name])
        /\ UNCHANGED <<stack, flows>>
     \/ /\ ~(chains[c].live /\ dialogs["manifest"].open)
        /\ UNCHANGED <<dialogs, stack, flows>>
     \/ IF chains[c].live THEN Shut("manifest") ELSE UNCHANGED <<dialogs, stack, flows>>
  /\ UNCHANGED <<purge, toast, refreshing, oauth, mixed, ticked, clicks>>

-----------------------------------------------------------------------------
(* The dialogs of the chain.                                               *)

\* The operator goes on from a dialog: what the handler then has is the code's, what was chosen is
\* recorded apart from it.
Proceed(c, k, pc, req, chose) ==
  /\ Top(k) /\ Free(c)
  /\ Shut(k)
  /\ chains' = [chains EXCEPT ![c] = Chain(pc, req, chose)]
  /\ UNCHANGED <<purge, toast, refreshing, oauth, ticked, clicks>>

\* The version is picked from a list that opens on the latest one.
PickVersion ==
  /\ Top("version")
  /\ \E v \in Versions : Put("version", [dialogs["version"] EXCEPT !.req.ver = v, !.chose.ver = v])
  /\ UNCHANGED <<stack, purge, chains, toast, refreshing, oauth, flows, mixed, ticked, clicks>>

SelectVersion(c) ==
  LET d == dialogs["version"] IN
  Proceed(c, "version", "installPreview", d.req, d.chose)

PreviewContinue(c) ==
  LET d == dialogs["preview"] IN
  Proceed(c, "preview", "listUninstalledVolumes", [d.req EXCEPT !.import = d.upgrading_from],
          [d.chose EXCEPT !.import = d.upgrading_from])

onStartFresh(c) ==
  LET d == dialogs["reuse"] IN
  Proceed(c, "reuse", "purgeUninstalledVolumes", d.req, [d.chose EXCEPT !.reuse = FALSE])

\* Mutant: the version whose data is imported is not handed on.
onReuse_NoImport(c) ==
  LET d == dialogs["reuse"] IN
  Proceed(c, "reuse", "getPackageQuestionsByIdentity", [d.req EXCEPT !.reuse = TRUE, !.import = 0],
          [d.chose EXCEPT !.reuse = TRUE])

onReuse(c) ==
  LET d == dialogs["reuse"] IN
  Proceed(c, "reuse", "getPackageQuestionsByIdentity", [d.req EXCEPT !.reuse = TRUE],
          [d.chose EXCEPT !.reuse = TRUE])

-----------------------------------------------------------------------------
(* The device flow of an oauth question.                                   *)

\* oauthCancelled: a flow sees whether the dialog of its page is open when it looks, and after
\* the page is left what it was then.
Cancelled(f) == IF flows[f].live THEN ~dialogs["questions"].open ELSE flows[f].cancelled

\* setFlow of a page that is still there.
SetFlow(f, status, token) ==
  oauth' = IF flows[f].live THEN [status |-> status, token |-> token] ELSE oauth

\* renderQuestion: the button that connects is disabled while a flow runs.
Connectable ==
  /\ Top("questions")
  /\ Asks[dialogs["questions"].req.name][dialogs["questions"].req.ver] = "oauth"
  /\ oauth.status \notin {"starting", "waiting"}

runOAuth(f) ==
  LET req == dialogs["questions"].req IN
  /\ Connectable
  /\ flows[f].pc = "idle" /\ \A g \in Flows : g < f => flows[g].pc # "idle"
  /\ flows' = [flows EXCEPT ![f] = [pc |-> "starting", name |-> req.name, here |-> TRUE,
                                    live |-> TRUE, cancelled |-> FALSE]]
  /\ oauth' = [oauth EXCEPT !.status = "starting"]
  /\ UNCHANGED <<dialogs, stack, purge, chains, toast, refreshing, mixed, ticked, clicks>>

FlowStill == UNCHANGED <<dialogs, stack, purge, chains, toast, refreshing, ticked, clicks>>

\* startOAuth: the loop looks once before it sleeps.
FlowStarted(f) ==
  /\ flows[f].pc = "starting"
  /\ \/ SetFlow(f, "error", oauth.token) /\ flows' = [flows EXCEPT ![f] = Idle]
     \/ /\ SetFlow(f, "waiting", oauth.token)
        /\ flows' = [flows EXCEPT ![f] = IF Cancelled(f) THEN Idle ELSE [@ EXCEPT !.pc = "asleep"]]
  /\ mixed' = mixed /\ FlowStill

\* It looks again after it has slept, and then polls.
FlowWakes(f) ==
  /\ flows[f].pc = "asleep"
  /\ flows' = [flows EXCEPT ![f] =
       IF Cancelled(f) THEN Idle
       ELSE [@ EXCEPT !.pc = "polling"]]
  /\ UNCHANGED <<oauth, mixed>>
  /\ FlowStill

\* pollOAuth: pending, approved, or expired, failed or approved with nothing.
FlowPolled(f) ==
  /\ flows[f].pc = "polling"
  /\ \/ flows' = [flows EXCEPT ![f] = IF Cancelled(f) THEN Idle ELSE [@ EXCEPT !.pc = "asleep"]]
        /\ UNCHANGED <<oauth, mixed>>
     \/ /\ SetFlow(f, "connected", flows[f].name) /\ flows' = [flows EXCEPT ![f] = Idle]
        /\ mixed' = IF flows[f].live /\ ~flows[f].here /\ dialogs["questions"].open
                    THEN mixed \cup {flows[f].name} ELSE mixed
     \/ SetFlow(f, "error", oauth.token) /\ flows' = [flows EXCEPT ![f] = Idle] /\ mixed' = mixed
  /\ FlowStill

-----------------------------------------------------------------------------
\* The page is left and opened again.  Handlers and flows run on; what they set is lost.
Leave ==
  /\ dialogs' = [k \in Kinds |-> Closed] /\ stack' = <<>> /\ purge' = FALSE /\ refreshing' = FALSE
  /\ oauth' = NoFlow /\ mixed' = {} /\ ticked' = "none"
  /\ chains' = [c \in Slots |-> IF Busy(c) THEN [chains[c] EXCEPT !.live = FALSE] ELSE Idle]
  /\ flows' = [f \in Flows |-> IF flows[f].pc = "idle" THEN Idle
                               ELSE [Alone(flows[f]) EXCEPT !.live = FALSE, !.cancelled = Cancelled(f)]]
  /\ UNCHANGED <<toast, clicks>>

Answered(c) ==
  \/ VersionsAnswered(c) \/ handleShowPreview(c) \/ handleCheckVolumes(c) \/ VolumesPurged(c)
  \/ QuestionsAnswered(c) \/ handleInstall(c) \/ InfoAnswered(c) \/ ManifestAnswered(c)

Next ==
  \/ Leave \/ setPurgeVolumes \/ PickVersion
  \/ \E k \in Kinds : Cancel(k)
  \/ \E n \in Names : setUninstallConfirm(n)
  \/ \E c \in Slots :
       \/ \E n \in Names : handleStartInstall(c, n) \/ handleShowInfo(c, n) \/ handleShowManifest(c, n)
       \/ handleRefreshRepos(c) \/ handleUninstall(c) \/ handleInstallWithResponses(c)
       \/ SelectVersion(c) \/ PreviewContinue(c) \/ onStartFresh(c) \/ onReuse(c)
       \/ Answered(c) \/ ServerEnds(c) \/ StreamStep(c) \/ StreamEnds(c)
  \/ \E f \in Flows : runOAuth(f) \/ FlowStarted(f) \/ FlowWakes(f) \/ FlowPolled(f)

Spec == Init /\ [][Next]_vars

-----------------------------------------------------------------------------
\* A handler that waits for an answer, and one that reads a progress stream.
Waits == [pc : PackageClient, req : Requests, chose : Requests \cup {NoRequest}, live : BOOLEAN]
Works ==
  [pc : Streams, req : Requests \cup {NoRequest}, chose : Requests \cup {NoRequest},
   saved : Dialogs("questions"), token : Names \cup {"none"}, purge : BOOLEAN, asked : Names \cup {"none"},
   server : {"works", "finished", "failed", "rejects", "ended"}, live : BOOLEAN]
Chains == {Idle} \cup Waits \cup Works
OAuthFlows ==
  {Idle} \cup [pc : {"starting", "asleep", "polling"}, name : Names, here : BOOLEAN,
               live : BOOLEAN, cancelled : BOOLEAN]

\* Type invariant.
TypeOK ==
  /\ dialogs \in [Kinds -> UNION {Dialogs(k) : k \in Kinds}]
  /\ \A k \in Kinds : dialogs[k] \in Dialogs(k)
  /\ stack \in Seq(Kinds)
  /\ purge \in BOOLEAN /\ toast \in BOOLEAN /\ refreshing \in BOOLEAN
  /\ chains \in [Slots -> Chains]
  /\ oauth \in [status : {"idle", "starting", "waiting", "connected", "error"}, token : Names \cup {"none"}]
  /\ flows \in [Flows -> OAuthFlows]
  /\ mixed \subseteq Names /\ ticked \in Names \cup {"none"}
  /\ clicks \in Nat

\* The dialogs of the stack are open, each of them once: the one on top is there to be used.
Stacked ==
  /\ \A i, j \in 1..Len(stack) : stack[i] = stack[j] => i = j
  /\ \A i \in 1..Len(stack) : dialogs[stack[i]].open

\* The handlers of an install and the dialogs between them.
Installing ==
  (PackageClient \ {"getInstalledInfo", "getPackageManifest"}) \cup {"install", "submit"}
Carries(c) == chains[c].pc \in Installing
Shows(k) == dialogs[k].open /\ k \in {"version", "preview", "reuse", "questions"}

\* The handlers that come before the choice of the volumes.
Undecided == {"listPackageVersions", "installPreview", "listUninstalledVolumes"}

\* Each of them has what was chosen for its install so far, and so has a form that may come back;
\* the reuse of volumes is not chosen before they are offered.
Agreed ==
  /\ \A c \in Slots : Carries(c) => chains[c].req = chains[c].chose
  /\ \A k \in Kinds : Shows(k) => dialogs[k].req = dialogs[k].chose
  /\ \A c \in Slots : chains[c].pc \in Undecided => ~chains[c].req.reuse
  /\ \A k \in Kinds : Shows(k) /\ k # "questions" => ~dialogs[k].req.reuse
  /\ \A c \in Slots : chains[c].pc = "submit" =>
       chains[c].saved.open /\ chains[c].saved.req = chains[c].saved.chose
  /\ \A c \in Slots : Streaming(c) /\ chains[c].server = "rejects" => chains[c].pc = "submit"

\* The packages whose token the questions dialog may hold.
Own == {"none", dialogs["questions"].req.name} \cup mixed
Held ==
  /\ dialogs["questions"].open => oauth.token \in Own
  /\ \A f \in Flows : flows[f].pc # "idle" /\ flows[f].here =>
       dialogs["questions"].open /\ flows[f].name \in Own

\* The tick that will be sent was set for the package the open dialog is about.
Ticked == dialogs["uninstall"].open /\ purge => ticked = dialogs["uninstall"].name

-----------------------------------------------------------------------------
\* What is sent is what was chosen: an install on its way has the version the operator picked, the
\* reuse of volumes and the import the operator last agreed to for this very install, although
\* other installs, of the same package too, use and replace the same dialogs, previews and volume
\* checks may be passed over and a refused form comes back.
ChoicesHold ==
  \A c \in Slots :
    chains[c].pc \in {"install", "submit"} => chains[c].req = chains[c].chose

\* The token that is sent with an install was cached, or earned by a device flow, for its own
\* package.
TokenIsOwn ==
  \A c \in Slots : chains[c].pc = "submit" => chains[c].token \in {"none", chains[c].req.name}

\* It holds but for the two ways the code has of mixing them: a dialog of another package that was
\* replaced while it was open (the effect that sets the token runs when open changes,
\* InstallQuestionsDialog.jsx:103-116) and the device flow of a dialog that was closed (:138).  A
\* token never comes from a dialog that was closed, cancelled or sent before this one opened.
TokenOfThisOpening ==
  [][\A c \in Slots :
       chains[c].pc # "submit" /\ chains'[c].pc = "submit" =>
         chains'[c].token \in {"none", chains'[c].req.name} \cup mixed]_vars

\* An uninstall purges the volumes only of a package for which the box was ticked since its dialog
\* was opened.
PurgeIsChosen ==
  \A c \in Slots :
    (chains[c].pc = "uninstall" /\ chains[c].purge) => chains[c].asked = chains[c].req.name

\* progress.js:4, "Returns when the "done" event is received": a handler that reports success has
\* read the done event.
SuccessIsDone ==
  \A c \in Slots :
    Streaming(c) /\ chains[c].server # "works" /\ readProgressStream(chains[c].server) = "returns" =>
      chains[c].server = "finished"

\* The progress toast, which all operations share and which stays until it is dismissed, is never
\* left behind by operations that have all ended.
ProgressMeansWork == toast => \E c \in Slots : Streaming(c)

\* The inductive invariant of these properties.
InstallInv ==
  /\ TypeOK /\ Stacked /\ Agreed /\ Held /\ Ticked
  /\ PurgeIsChosen /\ ProgressMeansWork

\* "A dialog that closes mid-flow must not leave a poll loop running against a flow nobody is
\* waiting for": a poll is sent only while the dialog the flow was started from is still open.
PollHasDialog ==
  [][\A f \in Flows : flows[f].pc # "polling" /\ flows'[f].pc = "polling" => flows[f].here]_vars
=============================================================================
