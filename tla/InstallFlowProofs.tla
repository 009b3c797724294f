-------------------------- MODULE InstallFlowProofs --------------------------
(***************************************************************************)
(* Proofs about InstallFlow: InstallInv is inductive, for any packages,    *)
(* versions and number of handlers in flight, and with it the type         *)
(* invariant, ChoicesHold, TokenOfThisOpening, PurgeIsChosen and           *)
(* ProgressMeansWork.  The invariant is proved in parts, of the handlers,  *)
(* of the dialogs, of the token, of the toast and of the rest: most steps  *)
(* move one handler and at most one dialog, and leave the others' parts    *)
(* alone.                                                                  *)
(***************************************************************************)
EXTENDS InstallFlow, SequenceTheorems, TLAPS

\* Taking an element out of a sequence without repetitions.
LEMMA RemoveFirstFacts ==
  ASSUME NEW S, NEW s \in Seq(S), NEW k,
         \A i, j \in 1..Len(s) : s[i] = s[j] => i = j
  PROVE  /\ RemoveFirst(s, k) \in Seq(S)
         /\ \A i \in 1..Len(RemoveFirst(s, k)) :
              /\ RemoveFirst(s, k)[i] # k
              /\ \E j \in 1..Len(s) : RemoveFirst(s, k)[i] = s[j]
         /\ \A i, j \in 1..Len(RemoveFirst(s, k)) :
              RemoveFirst(s, k)[i] = RemoveFirst(s, k)[j] => i = j
<1>1. CASE ~ \E i \in 1..Len(s) : s[i] = k
  BY <1>1 DEF RemoveFirst
<1>2. CASE \E i \in 1..Len(s) : s[i] = k
  <2> DEFINE at == SelectInSeq(s, LAMBDA v : v = k)
             r == RemoveAt(s, at)
  <2>1. at \in 1..Len(s) /\ s[at] = k
    <3>1. PICK i \in 1..Len(s) : s[i] = k
      BY <1>2
    <3>2. {j \in 1..Len(s) : s[j] = k} = {i}
      BY <3>1
    <3>3. Min({i}) = i
      BY DEF Min
    <3> QED
      BY <3>1, <3>2, <3>3 DEF SelectInSeq
  <2>2. RemoveFirst(s, k) = r
    BY <1>2 DEF RemoveFirst
  <2> HIDE DEF at
  <2> DEFINE p == SubSeq(s, 1, at - 1)
             q == SubSeq(s, at + 1, Len(s))
  <2>3. /\ p \in Seq(S) /\ Len(p) = at - 1
        /\ \A i \in 1..Len(p) : p[i] = s[i]
    BY <2>1
  <2>4. /\ q \in Seq(S) /\ Len(q) = Len(s) - at
        /\ \A i \in 1..Len(q) : q[i] = s[at + i]
    BY <2>1
  <2>5. r = p \o q
    BY DEF RemoveAt
  <2> HIDE DEF p, q, r
  <2>6. /\ r \in Seq(S) /\ Len(r) = Len(p) + Len(q)
        /\ \A i \in 1..(Len(p) + Len(q)) : r[i] = IF i <= Len(p) THEN p[i] ELSE q[i - Len(p)]
    BY <2>3, <2>4, <2>5, ConcatProperties
  <2>7. /\ Len(r) = Len(s) - 1
        /\ \A i \in 1..Len(r) : r[i] = IF i < at THEN s[i] ELSE s[i + 1]
    <3>a. Len(s) \in Nat
      BY LenProperties
    <3>1. Len(s) \in Nat /\ Len(r) = Len(s) - 1
      BY <3>a, <2>1, <2>3, <2>4, <2>6
    <3>2. ASSUME NEW i \in 1..Len(r), i < at PROVE r[i] = s[i]
      <4>1. i \in 1..Len(p) /\ i \in 1..(Len(p) + Len(q)) /\ i <= Len(p)
        BY <3>1, <3>2, <2>1, <2>3, <2>4
      <4> QED
        BY <4>1, <2>3, <2>6
    <3>3. ASSUME NEW i \in 1..Len(r), ~(i < at) PROVE r[i] = s[i + 1]
      <4>1. i - Len(p) \in 1..Len(q) /\ at + (i - Len(p)) = i + 1 /\ ~(i <= Len(p))
        BY <3>1, <3>3, <2>1, <2>3, <2>4, <2>6
      <4> QED
        BY <4>1, <3>1, <2>4, <2>6
    <3> QED
      BY <3>1, <3>2, <3>3
  <2>8. \A i \in 1..Len(r) : \E j \in 1..Len(s) : j # at /\ r[i] = s[j]
    BY <2>1, <2>7
  <2>9. \A i, j \in 1..Len(r) : r[i] = r[j] => i = j
    BY <2>1, <2>7
  <2>10. \A i \in 1..Len(r) : r[i] # k /\ \E j \in 1..Len(s) : r[i] = s[j]
    BY <2>1, <2>8
  <2>11. r \in Seq(S)
    BY <2>6
  <2> QED
    BY <2>2, <2>9, <2>10, <2>11, Zenon
<1> QED
  BY <1>1, <1>2
-----------------------------------------------------------------------------
(* Dialogs. *)

DialogsTyped ==
  /\ dialogs \in [Kinds -> UNION {Dialogs(k) : k \in Kinds}]
  /\ \A k \in Kinds : dialogs[k] \in Dialogs(k)
  /\ stack \in Seq(Kinds)

\* An open questions dialog.
Forms == [open : {TRUE}, req : Requests, chose : Requests, cached : BOOLEAN]

\* What a dialog of each kind can be.
LEMMA DialogFacts ==
  /\ Dialogs("version") = {Closed} \cup [open : {TRUE}, req : Requests, chose : Requests]
  /\ Dialogs("reuse") = {Closed} \cup [open : {TRUE}, req : Requests, chose : Requests]
  /\ Dialogs("preview") =
       {Closed} \cup [open : {TRUE}, req : Requests, chose : Requests, upgrading_from : Versions \cup {0}]
  /\ Dialogs("questions") = {Closed} \cup Forms
  /\ Dialogs("info") = {Closed} \cup [open : {TRUE}, name : Names]
  /\ Dialogs("uninstall") = {Closed} \cup [open : {TRUE}, name : Names]
  /\ Dialogs("manifest") = {Closed} \cup [open : {TRUE}, name : Names, content : Names \cup {"none"}]
  BY DEF Dialogs, Forms

\* A handler opens a dialog of its kind, or replaces the one that is there.
LEMMA OpenKeeps ==
  ASSUME DialogsTyped, Stacked, NEW k \in Kinds, NEW d \in Dialogs(k), d.open,
         Put(k, d), Raise(k)
  PROVE  /\ DialogsTyped' /\ Stacked' /\ dialogs'[k] = d
         /\ \A j \in Kinds : j # k => dialogs'[j] = dialogs[j]
<1>1. /\ dialogs'[k] = d /\ \A j \in Kinds : j # k => dialogs'[j] = dialogs[j]
      /\ dialogs' \in [Kinds -> UNION {Dialogs(j) : j \in Kinds}]
      /\ \A j \in Kinds : dialogs'[j] \in Dialogs(j)
  BY DEF DialogsTyped, Put
<1>2. CASE dialogs[k].open
  <2>1. stack' = stack
    BY <1>2 DEF Raise
  <2> QED
    BY <1>1, <2>1 DEF DialogsTyped, Stacked
<1>3. CASE ~dialogs[k].open
  <2>1. stack' = Append(stack, k)
    BY <1>3 DEF Raise
  <2>2. /\ stack' \in Seq(Kinds) /\ Len(stack') = Len(stack) + 1 /\ Len(stack) \in Nat
        /\ \A i \in 1..Len(stack) : stack'[i] = stack[i] /\ stack[i] \in Kinds
        /\ stack'[Len(stack) + 1] = k
    BY <2>1, AppendProperties DEF DialogsTyped
  <2>3. \A i \in 1..Len(stack) : stack[i] # k
    BY <1>3 DEF Stacked
  <2>4. \A i \in 1..Len(stack') : i \in 1..Len(stack) \/ i = Len(stack) + 1
    BY <2>2
  <2>5. Stacked'
    <3>1. \A i, j \in 1..Len(stack') : stack'[i] = stack'[j] => i = j
      BY <2>2, <2>3, <2>4 DEF Stacked
    <3>2. \A i \in 1..Len(stack') : dialogs'[stack'[i]].open
      BY <1>1, <2>2, <2>3, <2>4 DEF Stacked
    <3> QED
      BY <3>1, <3>2 DEF Stacked
  <2> QED
    BY <1>1, <2>2, <2>5 DEF DialogsTyped
<1> QED
  BY <1>1, <1>2, <1>3

\* A dialog is closed.
LEMMA ShutKeeps ==
  ASSUME DialogsTyped, Stacked, flows \in [Flows -> OAuthFlows], NEW k \in Kinds, Shut(k)
  PROVE  /\ DialogsTyped' /\ Stacked' /\ dialogs'[k] = Closed
         /\ \A j \in Kinds : j # k => dialogs'[j] = dialogs[j]
         /\ flows' \in [Flows -> OAuthFlows]
<1>1. /\ dialogs'[k] = Closed /\ \A j \in Kinds : j # k => dialogs'[j] = dialogs[j]
      /\ dialogs' \in [Kinds -> UNION {Dialogs(j) : j \in Kinds}]
      /\ \A j \in Kinds : dialogs'[j] \in Dialogs(j)
  <2>1. \A j \in Kinds : Closed \in Dialogs(j)
    BY DEF Dialogs
  <2> QED
    BY <2>1 DEF DialogsTyped, Shut
<1>2. /\ stack' \in Seq(Kinds)
      /\ \A i \in 1..Len(stack') : stack'[i] # k /\ \E j \in 1..Len(stack) : stack'[i] = stack[j]
      /\ \A i, j \in 1..Len(stack') : stack'[i] = stack'[j] => i = j
  BY RemoveFirstFacts DEF DialogsTyped, Stacked, Shut
<1>3. \A i \in 1..Len(stack') : dialogs'[stack'[i]].open
  <2> TAKE i \in 1..Len(stack')
  <2>1. PICK j \in 1..Len(stack) : stack'[i] = stack[j]
    BY <1>2
  <2>2. stack[j] \in Kinds /\ stack[j] # k /\ dialogs[stack[j]].open
    BY <1>2, <2>1 DEF DialogsTyped, Stacked
  <2> QED
    BY <1>1, <2>1, <2>2
<1>4. \A f \in OAuthFlows : Alone(f) \in OAuthFlows
  BY DEF OAuthFlows, Alone, Idle
<1>5. flows' \in [Flows -> OAuthFlows]
  BY <1>4 DEF Shut
<1> QED
  BY <1>1, <1>2, <1>3, <1>5 DEF DialogsTyped, Stacked

\* The dialog on top is open.
LEMMA TopIsOpen ==
  ASSUME DialogsTyped, Stacked, NEW k \in Kinds, Top(k)
  PROVE  dialogs[k].open /\ dialogs[k] # Closed
<1>1. Len(stack) \in 1..Len(stack)
  <2>1. stack \in Seq(Kinds) /\ stack # << >>
    BY DEF DialogsTyped, Top
  <2>2. Len(stack) \in Nat /\ Len(stack) # 0
    BY <2>1, EmptySeq, LenProperties
  <2> QED
    BY <2>2
<1>2. dialogs[k].open
  BY <1>1 DEF Top, Stacked
<1>3. ~Closed.open
  BY DEF Closed
<1> QED
  BY <1>2, <1>3
-----------------------------------------------------------------------------
(* Chains. *)

\* The requests an install sends before the last one.
Asking == PackageClient \ {"getInstalledInfo", "getPackageManifest"}

\* What the invariant says of one handler.
ChainOK(x) ==
  /\ x \in Chains
  /\ x.pc \in Installing => x.req = x.chose
  /\ x.pc \in Undecided => ~x.req.reuse
  /\ x.pc = "submit" => x.saved.open /\ x.saved.req = x.saved.chose
  /\ x.pc \in Streams /\ x.server = "rejects" => x.pc = "submit"
  /\ x.pc = "uninstall" /\ x.purge => x.asked = x.req.name

\* What it says of a dialog of an install.
Fit(k, d) ==
  /\ k \in {"version", "preview", "reuse", "questions"} => d.req = d.chose
  /\ k \in {"version", "preview", "reuse"} => ~d.req.reuse

\* The parts of the invariant: of the handlers, of the dialogs, and of what is left.
ChainInv ==
  /\ chains \in [Slots -> Chains]
  /\ \A c \in Slots : ChainOK(chains[c])
DialogInv ==
  /\ DialogsTyped /\ Stacked /\ Ticked
  /\ \A k \in Kinds : dialogs[k].open => Fit(k, dialogs[k])
RestInv ==
  /\ purge \in BOOLEAN /\ toast \in BOOLEAN /\ refreshing \in BOOLEAN
  /\ oauth \in [status : {"idle", "starting", "waiting", "connected", "error"}, token : Names \cup {"none"}]
  /\ flows \in [Flows -> OAuthFlows]
  /\ mixed \subseteq Names /\ ticked \in Names \cup {"none"}
  /\ clicks \in Nat

Inv == ChainInv /\ DialogInv /\ Held /\ RestInv /\ ProgressMeansWork

\* The parts make up the invariant.
LEMMA Parts == InstallInv <=> Inv
<1>1. ChainInv /\ (\A k \in Kinds : dialogs[k].open => Fit(k, dialogs[k]))
        <=> chains \in [Slots -> Chains] /\ Agreed /\ PurgeIsChosen
  <2>1. (\A k \in Kinds : dialogs[k].open => Fit(k, dialogs[k]))
          <=> /\ \A k \in Kinds : Shows(k) => dialogs[k].req = dialogs[k].chose
              /\ \A k \in Kinds : Shows(k) /\ k # "questions" => ~dialogs[k].req.reuse
    BY DEF Fit, Shows
  <2> QED
    BY <2>1 DEF ChainInv, ChainOK, Agreed, PurgeIsChosen, Streaming, Carries
<1> QED
  BY <1>1 DEF InstallInv, Inv, TypeOK, DialogInv, RestInv, DialogsTyped

\* The program counter of a handler says what it is doing.
LEMMA ChainShape ==
  ASSUME NEW x \in Chains
  PROVE  /\ x.pc = "idle" <=> x = Idle
         /\ x.pc \in PackageClient => x \in Waits
         /\ x.pc \in Streams => x \in Works
<1>1. x \in Waits => x.pc \in PackageClient
  BY DEF Waits
<1>2. x \in Works => x.pc \in Streams
  BY DEF Works
<1>3. x = Idle => x.pc = "idle"
  BY DEF Idle
<1>4. "idle" \notin PackageClient /\ "idle" \notin Streams /\ PackageClient \cap Streams = {}
  BY DEF PackageClient, Streams
<1> QED
  BY <1>1, <1>2, <1>3, <1>4 DEF Chains

\* A handler that has ended keeps it.
LEMMA IdleOK == ChainOK(Idle)
  BY DEF ChainOK, Idle, Chains, Installing, Undecided, PackageClient, Streams

\* A step of one handler.
LEMMA ChainSet ==
  ASSUME ChainInv, NEW c \in Slots, NEW x, chains' = [chains EXCEPT ![c] = x], ChainOK(x)
  PROVE  /\ ChainInv'
         /\ chains'[c] = x /\ \A z \in Slots : z # c => chains'[z] = chains[z]
<1>1. chains'[c] = x /\ \A z \in Slots : z # c => chains'[z] = chains[z]
  BY DEF ChainInv
<1>2. chains' \in [Slots -> Chains]
  BY DEF ChainInv, ChainOK
<1>3. \A z \in Slots : ChainOK(chains'[z])
  BY <1>1 DEF ChainInv
<1> QED
  BY <1>1, <1>2, <1>3 DEF ChainInv

\* A step of a handler that reads no stream leaves those that do.
LEMMA ProgressKept ==
  ASSUME ProgressMeansWork, ChainInv, NEW c \in Slots, NEW x, chains' = [chains EXCEPT ![c] = x],
         ~Streaming(c), toast' = toast
  PROVE  ProgressMeansWork'
<1>1. \A z \in Slots : Streaming(z) => chains'[z] = chains[z]
  BY DEF ChainInv
<1> QED
  BY <1>1 DEF ProgressMeansWork, Streaming

\* The requests handlers make are requests.
LEMMA RequestTyped ==
  ASSUME NEW n \in Names
  PROVE  Request(n, Latest, FALSE, 0) \in Requests
<1>1. Latest \in Versions
  BY InstallAssumption DEF Latest
<1> QED
  BY <1>1 DEF Request, Requests

\* A handler that waits for an answer has what was chosen, if it is one of an install.
LEMMA WaitOK ==
  ASSUME NEW pc \in PackageClient, NEW req \in Requests, NEW chose \in Requests \cup {NoRequest},
         NEW live \in BOOLEAN, pc \in Asking => req = chose, pc \in Undecided => ~req.reuse
  PROVE  ChainOK([pc |-> pc, req |-> req, chose |-> chose, live |-> live])
<1> DEFINE x == [pc |-> pc, req |-> req, chose |-> chose, live |-> live]
<1>1. x \in Chains
  BY DEF Chains, Waits
<1>2. x.pc = pc /\ x.req = req /\ x.chose = chose
  OBVIOUS
<1>3. pc \notin Streams /\ pc # "submit" /\ pc # "uninstall" /\ pc # "install"
  BY DEF Streams, PackageClient
<1>4. pc \in Installing => pc \in Asking
  BY <1>3 DEF Installing, Asking
<1> HIDE DEF x
<1> QED
  BY <1>1, <1>2, <1>3, <1>4 DEF ChainOK, x
-----------------------------------------------------------------------------
(* The invariant is kept by each kind of step.                             *)

\* Nothing that concerns the dialogs changes.
LEMMA DialogsStay ==
  ASSUME DialogInv, UNCHANGED <<dialogs, stack, purge, ticked>>
  PROVE  DialogInv'
  BY DEF DialogInv, DialogsTyped, Stacked, Ticked

\* Nothing that concerns the token changes.
LEMMA HeldStays ==
  ASSUME Held, dialogs'["questions"] = dialogs["questions"], UNCHANGED <<oauth, flows, mixed>>
  PROVE  Held'
  BY DEF Held, Own

\* A dialog other than those of the questions and of an uninstall is opened, replaced or closed.
LEMMA DialogsOther ==
  ASSUME DialogInv, NEW k \in Kinds \ {"questions", "uninstall"},
         DialogsTyped', Stacked', \A j \in Kinds : j # k => dialogs'[j] = dialogs[j],
         dialogs'[k].open => Fit(k, dialogs'[k]), UNCHANGED <<purge, ticked>>
  PROVE  DialogInv' /\ dialogs'["questions"] = dialogs["questions"]
<1>1. dialogs'["questions"] = dialogs["questions"] /\ dialogs'["uninstall"] = dialogs["uninstall"]
  BY DEF Kinds
<1>2. Ticked'
  BY <1>1 DEF DialogInv, Ticked
<1>3. \A j \in Kinds : dialogs'[j].open => Fit(j, dialogs'[j])
  BY DEF DialogInv
<1> QED
  BY <1>1, <1>2, <1>3 DEF DialogInv

\* A dialog of any kind is closed.
LEMMA DialogShut ==
  ASSUME DialogInv, RestInv, Held, NEW k \in Kinds, Shut(k), UNCHANGED <<purge, ticked, oauth>>
  PROVE  DialogInv' /\ Held' /\ flows' \in [Flows -> OAuthFlows] /\ mixed' \subseteq Names
<1>1. /\ DialogsTyped' /\ Stacked' /\ dialogs'[k] = Closed /\ flows' \in [Flows -> OAuthFlows]
      /\ \A j \in Kinds : j # k => dialogs'[j] = dialogs[j]
  BY ShutKeeps DEF DialogInv, RestInv
<1>2. ~Closed.open
  BY DEF Closed
<1>3. "questions" \in Kinds /\ "uninstall" \in Kinds
  BY DEF Kinds
<1>4. \A j \in Kinds : dialogs'[j].open => Fit(j, dialogs'[j])
  BY <1>1, <1>2 DEF DialogInv
<1>5. Ticked'
  BY <1>1, <1>2, <1>3 DEF DialogInv, Ticked
<1>6. Held'
  <2>1. CASE k # "questions"
    BY <1>1, <1>3, <2>1, HeldStays DEF Shut
  <2>2. CASE k = "questions"
    <3>1. ~dialogs'["questions"].open
      BY <1>1, <1>2, <2>2
    <3>2. ASSUME NEW f \in Flows PROVE flows'[f].pc = "idle" \/ ~flows'[f].here
      <4>1. flows'[f] = Alone(flows[f]) /\ flows[f] \in OAuthFlows
        BY <2>2 DEF Shut, RestInv
      <4> QED
        BY <4>1 DEF Alone, OAuthFlows, Idle
    <3> QED
      BY <3>1, <3>2 DEF Held
  <2> QED
    BY <2>1, <2>2
<1>7. mixed' \subseteq Names
  BY DEF Shut, RestInv
<1> QED
  BY <1>1, <1>4, <1>5, <1>6, <1>7 DEF DialogInv

\* The operator closes the dialog on top.
LEMMA CancelKeeps ==
  ASSUME Inv, NEW k \in Kinds, Cancel(k)
  PROVE  Inv'
<1>1. DialogInv' /\ Held' /\ flows' \in [Flows -> OAuthFlows] /\ mixed' \subseteq Names
  BY DialogShut DEF Inv, Cancel
<1>2. ChainInv' /\ ProgressMeansWork'
  BY DEF Inv, Cancel, ChainInv, ProgressMeansWork, Streaming
<1>3. RestInv'
  BY <1>1 DEF Inv, Cancel, RestInv
<1> QED
  BY <1>1, <1>2, <1>3 DEF Inv

\* A handler is started from a table, or by a dialog: its slot was free.
LEMMA FreeIsQuiet ==
  ASSUME ChainInv, NEW c \in Slots, Free(c)
  PROVE  chains[c] = Idle /\ ~Streaming(c)
<1>1. chains[c] \in Chains /\ chains[c].pc = "idle"
  BY DEF ChainInv, Free, Busy
<1> QED
  BY <1>1, ChainShape DEF Streaming, Streams

OAuthStates == [status : {"idle", "starting", "waiting", "connected", "error"}, token : Names \cup {"none"}]

\* A step of a handler that reads no stream and starts none.
LEMMA StepKeeps ==
  ASSUME Inv, NEW c \in Slots, NEW x, chains' = [chains EXCEPT ![c] = x], ~Streaming(c),
         ChainOK(x), UNCHANGED <<purge, toast, refreshing, ticked>>,
         DialogInv', Held', clicks' \in Nat, mixed' \subseteq Names,
         oauth' \in OAuthStates, flows' \in [Flows -> OAuthFlows]
  PROVE  Inv'
<1>1. ChainInv' /\ ProgressMeansWork'
  BY ChainSet, ProgressKept DEF Inv
<1>2. RestInv'
  BY DEF Inv, RestInv, OAuthStates
<1> QED
  BY <1>1, <1>2 DEF Inv

\* One that leaves the dialogs and the device flow alone too.
LEMMA QuietKeeps ==
  ASSUME Inv, NEW c \in Slots, NEW x, chains' = [chains EXCEPT ![c] = x], ~Streaming(c), ChainOK(x),
         UNCHANGED <<dialogs, stack, purge, toast, refreshing, oauth, flows, mixed, ticked>>,
         clicks' \in Nat
  PROVE  Inv'
<1>1. DialogInv' /\ Held'
  BY DialogsStay, HeldStays DEF Inv
<1>2. mixed' \subseteq Names /\ oauth' \in OAuthStates /\ flows' \in [Flows -> OAuthFlows]
  BY DEF Inv, RestInv, OAuthStates
<1> QED
  BY <1>1, <1>2, StepKeeps

\* An install is started with nothing chosen but its package.
LEMMA handleStartInstallKeeps ==
  ASSUME Inv, NEW c \in Slots, NEW n \in Names, handleStartInstall(c, n)
  PROVE  Inv'
<1> DEFINE req == Request(n, Latest, FALSE, 0)
           x == [pc |-> "listPackageVersions", req |-> req, chose |-> req, live |-> TRUE]
<1>1. req \in Requests
  BY RequestTyped
<1>2. chains' = [chains EXCEPT ![c] = x] /\ ~Streaming(c)
  BY FreeIsQuiet DEF handleStartInstall, Click, Chain, Inv
<1>3. ChainOK(x)
  BY <1>1, WaitOK DEF PackageClient, Request
<1>4. clicks' \in Nat
  BY DEF handleStartInstall, Click, Inv, RestInv
<1> HIDE DEF x
<1> QED
  BY <1>2, <1>3, <1>4, QuietKeeps DEF handleStartInstall

\* The information of a package is asked for: nothing is chosen.
LEMMA handleShowInfoKeeps ==
  ASSUME Inv, NEW c \in Slots, NEW n \in Names, handleShowInfo(c, n)
  PROVE  Inv'
<1> DEFINE req == Request(n, Latest, FALSE, 0)
           x == [pc |-> "getInstalledInfo", req |-> req, chose |-> NoRequest, live |-> TRUE]
<1>1. req \in Requests
  BY RequestTyped
<1>2. chains' = [chains EXCEPT ![c] = x] /\ ~Streaming(c)
  BY FreeIsQuiet DEF handleShowInfo, Click, Chain, Inv
<1>3. ChainOK(x)
  BY <1>1, WaitOK DEF PackageClient, Asking, Undecided
<1>4. clicks' \in Nat
  BY DEF handleShowInfo, Click, Inv, RestInv
<1> HIDE DEF x
<1> QED
  BY <1>2, <1>3, <1>4, QuietKeeps DEF handleShowInfo

\* The manifest dialog opens before its content is there.
LEMMA handleShowManifestKeeps ==
  ASSUME Inv, NEW c \in Slots, NEW n \in Names, handleShowManifest(c, n)
  PROVE  Inv'
<1> DEFINE req == Request(n, Latest, FALSE, 0)
           x == [pc |-> "getPackageManifest", req |-> req, chose |-> NoRequest, live |-> TRUE]
<1>1. req \in Requests
  BY RequestTyped
<1>2. chains' = [chains EXCEPT ![c] = x] /\ ~Streaming(c)
  BY FreeIsQuiet DEF handleShowManifest, Click, Chain, Inv
<1>3. ChainOK(x)
  BY <1>1, WaitOK DEF PackageClient, Asking, Undecided
<1>4. clicks' \in Nat
  BY DEF handleShowManifest, Click, Inv, RestInv
<1>5. DialogInv' /\ dialogs'["questions"] = dialogs["questions"]
  <2>1. manifestDialog(n) \in Dialogs("manifest") /\ manifestDialog(n).open
    BY DialogFacts DEF manifestDialog
  <2>2. "manifest" \in Kinds \ {"questions", "uninstall"} /\ Fit("manifest", dialogs'["manifest"])
    BY DEF Kinds, Fit
  <2>3. /\ DialogsTyped' /\ Stacked'
        /\ \A j \in Kinds : j # "manifest" => dialogs'[j] = dialogs[j]
    BY <2>1, <2>2, OpenKeeps DEF Inv, DialogInv, handleShowManifest, Open
  <2> QED
    BY <2>2, <2>3, DialogsOther DEF Inv, handleShowManifest
<1>6. /\ Held' /\ mixed' \subseteq Names /\ oauth' \in OAuthStates /\ flows' \in [Flows -> OAuthFlows]
  BY <1>5, HeldStays DEF Inv, RestInv, OAuthStates, handleShowManifest, Open
<1> HIDE DEF x
<1> QED
  BY <1>2, <1>3, <1>4, <1>5, <1>6, StepKeeps DEF handleShowManifest

\* A handler that starts to read a stream.
LEMMA StreamKeeps ==
  ASSUME Inv, NEW c \in Slots, NEW x, chains' = [chains EXCEPT ![c] = x], ChainOK(x), x.pc \in Streams,
         toast' = TRUE, refreshing' \in BOOLEAN, UNCHANGED <<purge, oauth, ticked>>,
         DialogInv', Held', clicks' \in Nat, mixed' \subseteq Names, flows' \in [Flows -> OAuthFlows]
  PROVE  Inv'
<1>1. ChainInv' /\ chains'[c] = x
  BY ChainSet DEF Inv
<1>2. ProgressMeansWork'
  BY <1>1 DEF ProgressMeansWork, Streaming
<1>3. RestInv'
  BY DEF Inv, RestInv
<1> QED
  BY <1>1, <1>2, <1>3 DEF Inv

\* A refresh streams from the start.
LEMMA handleRefreshReposKeeps ==
  ASSUME Inv, NEW c \in Slots, handleRefreshRepos(c)
  PROVE  Inv'
<1> DEFINE x == Stream("refresh", NoRequest, NoRequest)
<1>1. chains' = [chains EXCEPT ![c] = x]
  BY DEF handleRefreshRepos, Click
<1>2. x \in Works /\ x.pc = "refresh" /\ x.server = "works"
  <2>1. Closed \in Dialogs("questions")
    BY DialogFacts
  <2> QED
    BY <2>1 DEF Stream, Works, Streams
<1>3. ChainOK(x) /\ x.pc \in Streams
  BY <1>2 DEF ChainOK, Chains, Installing, Undecided, PackageClient, Streams
<1>4. DialogInv' /\ Held'
  BY DialogsStay, HeldStays DEF Inv, handleRefreshRepos
<1>5. clicks' \in Nat /\ mixed' \subseteq Names /\ flows' \in [Flows -> OAuthFlows]
  BY DEF Inv, RestInv, handleRefreshRepos, Click
<1> HIDE DEF x
<1> QED
  BY <1>1, <1>3, <1>4, <1>5, StreamKeeps DEF handleRefreshRepos

\* The uninstall dialog opens with the box cleared.
LEMMA setUninstallConfirmKeeps ==
  ASSUME Inv, NEW n \in Names, setUninstallConfirm(n)
  PROVE  Inv'
<1> DEFINE d == uninstallConfirm(n)
<1>1. d \in Dialogs("uninstall") /\ d.open
  BY DialogFacts DEF uninstallConfirm
<1>2. "uninstall" \in Kinds /\ "questions" \in Kinds
  BY DEF Kinds
<1>3. Put("uninstall", d) /\ Raise("uninstall") /\ purge' = FALSE /\ ticked' = "none"
  BY DEF setUninstallConfirm, Open, OpenUninstall
<1>4. /\ DialogsTyped' /\ Stacked'
      /\ \A j \in Kinds : j # "uninstall" => dialogs'[j] = dialogs[j]
  BY <1>1, <1>2, <1>3, OpenKeeps DEF Inv, DialogInv
<1>5. DialogInv'
  <2>1. Fit("uninstall", dialogs'["uninstall"])
    BY DEF Fit
  <2>2. \A j \in Kinds : dialogs'[j].open => Fit(j, dialogs'[j])
    BY <1>4, <2>1 DEF Inv, DialogInv
  <2> QED
    BY <1>3, <1>4, <2>2 DEF DialogInv, Ticked
<1>6. UNCHANGED <<toast, refreshing, oauth, flows, mixed, chains>>
  BY DEF setUninstallConfirm, Open
<1>7. RestInv'
  <2>1. clicks' \in Nat
    BY DEF Inv, RestInv, setUninstallConfirm
  <2>2. purge' \in BOOLEAN /\ ticked' \in Names \cup {"none"}
    BY <1>3
  <2> QED
    BY <1>6, <2>1, <2>2 DEF Inv, RestInv
<1>8. ChainInv' /\ ProgressMeansWork'
  BY <1>6 DEF Inv, ChainInv, ProgressMeansWork, Streaming
<1>9. Held'
  BY <1>2, <1>4, <1>6, HeldStays DEF Inv
<1> QED
  BY <1>5, <1>7, <1>8, <1>9 DEF Inv

\* An open uninstall dialog is about a package.
LEMMA UninstallTyped ==
  ASSUME DialogInv, Top("uninstall")
  PROVE  dialogs["uninstall"].open /\ dialogs["uninstall"].name \in Names
<1>1. "uninstall" \in Kinds
  BY DEF Kinds
<1>2. dialogs["uninstall"].open /\ dialogs["uninstall"] # Closed
  BY <1>1, TopIsOpen DEF DialogInv
<1>3. dialogs["uninstall"] \in {Closed} \cup [open : {TRUE}, name : Names]
  BY <1>1, DialogFacts DEF DialogInv, DialogsTyped
<1> QED
  BY <1>2, <1>3

\* The box is ticked for the package the dialog on top is about.
LEMMA setPurgeVolumesKeeps ==
  ASSUME Inv, setPurgeVolumes
  PROVE  Inv'
<1>1. dialogs["uninstall"].name \in Names
  BY UninstallTyped DEF Inv, setPurgeVolumes
<1>2. purge' = ~purge /\ ticked' = IF purge THEN "none" ELSE dialogs["uninstall"].name
  BY DEF setPurgeVolumes
<1>3. RestInv'
  BY <1>1, <1>2 DEF Inv, RestInv, setPurgeVolumes
<1>4. Ticked'
  BY <1>2 DEF Ticked, setPurgeVolumes
<1>5. DialogInv'
  BY <1>4 DEF Inv, DialogInv, DialogsTyped, Stacked, setPurgeVolumes
<1>6. ChainInv' /\ ProgressMeansWork'
  BY DEF Inv, ChainInv, ProgressMeansWork, Streaming, setPurgeVolumes
<1>7. Held'
  BY HeldStays DEF Inv, setPurgeVolumes
<1> QED
  BY <1>3, <1>5, <1>6, <1>7 DEF Inv

\* An uninstall is sent with the box as it was ticked for its package.
LEMMA handleUninstallKeeps ==
  ASSUME Inv, NEW c \in Slots, handleUninstall(c)
  PROVE  Inv'
<1> DEFINE n == dialogs["uninstall"].name
           x == [Stream("uninstall", Request(n, Latest, FALSE, 0), NoRequest)
                   EXCEPT !.purge = purge, !.asked = ticked]
<1>1. dialogs["uninstall"].open /\ n \in Names
  BY UninstallTyped DEF Inv, handleUninstall
<1>2. chains' = [chains EXCEPT ![c] = x] /\ Shut("uninstall") /\ "uninstall" \in Kinds
  BY DEF handleUninstall, Kinds
<1>3. /\ x \in Works /\ x.pc = "uninstall" /\ x.server = "works"
      /\ x.purge = purge /\ x.asked = ticked /\ x.req = Request(n, Latest, FALSE, 0)
  <2>1. Closed \in Dialogs("questions")
    BY DialogFacts
  <2>2. Request(n, Latest, FALSE, 0) \in Requests
    BY <1>1, RequestTyped
  <2> QED
    BY <2>1, <2>2 DEF Stream, Works, Streams, Inv, RestInv
<1> HIDE DEF x
<1>4. x.purge => x.asked = x.req.name
  <2>1. x.req.name = n
    BY <1>3 DEF Request
  <2>2. purge => ticked = n
    BY <1>1 DEF Inv, DialogInv, Ticked
  <2> QED
    BY <1>3, <2>1, <2>2
<1>5. ChainOK(x) /\ x.pc \in Streams
  BY <1>3, <1>4 DEF ChainOK, Chains, Installing, Undecided, PackageClient, Streams
<1>6. DialogInv' /\ Held' /\ flows' \in [Flows -> OAuthFlows] /\ mixed' \subseteq Names
  BY <1>2, DialogShut DEF Inv, handleUninstall
<1>7. clicks' \in Nat /\ refreshing' \in BOOLEAN
  BY DEF Inv, RestInv, handleUninstall
<1> QED
  BY <1>2, <1>5, <1>6, <1>7, StreamKeeps DEF handleUninstall

\* An open questions dialog has what was chosen for its install.
LEMMA QuestionsTyped ==
  ASSUME DialogInv, dialogs["questions"].open
  PROVE  /\ dialogs["questions"] \in Forms
         /\ dialogs["questions"] \in Dialogs("questions")
         /\ dialogs["questions"].req = dialogs["questions"].chose
<1>1. "questions" \in Kinds
  BY DEF Kinds
<1>2. ~Closed.open
  BY DEF Closed
<1>3. dialogs["questions"] \in Dialogs("questions")
  BY <1>1 DEF DialogInv, DialogsTyped
<1>4. Fit("questions", dialogs["questions"])
  BY <1>1 DEF DialogInv
<1> QED
  BY <1>2, <1>3, <1>4, DialogFacts DEF Fit

\* What a form that is sent takes with it.
LEMMA SubmitFacts ==
  ASSUME Inv, NEW c \in Slots, handleInstallWithResponses(c)
  PROVE  /\ ChainInv'
         /\ chains'[c] \in Works /\ chains'[c].pc = "submit"
         /\ chains'[c].req = dialogs["questions"].req
         /\ chains'[c].token \in {"none", dialogs["questions"].req.name} \cup mixed
         /\ \A z \in Slots : z # c => chains'[z] = chains[z]
<1> DEFINE d == dialogs["questions"]
           x == [Stream("submit", d.req, d.chose) EXCEPT !.saved = d, !.token = Token(d.req)]
<1>1. "questions" \in Kinds
  BY DEF Kinds
<1>2. d.open
  BY <1>1, TopIsOpen DEF Inv, DialogInv, handleInstallWithResponses
<1>3. d \in Dialogs("questions") /\ d.req \in Requests /\ d.chose \in Requests /\ d.req = d.chose
  BY <1>2, QuestionsTyped DEF Inv, Forms
<1>4. chains' = [chains EXCEPT ![c] = x]
  BY DEF handleInstallWithResponses
<1>5. Token(d.req) \in {"none", d.req.name} \cup mixed /\ Token(d.req) \in Names \cup {"none"}
  BY <1>2 DEF Inv, Held, Own, Token, RestInv
<1> HIDE DEF d
<1>6. /\ x \in Works /\ x.pc = "submit" /\ x.server = "works" /\ x.req = d.req /\ x.chose = d.chose
      /\ x.saved = d /\ x.token = Token(d.req)
  BY <1>3, <1>5 DEF Stream, Works, Streams
<1> HIDE DEF x
<1>7. ChainOK(x)
  BY <1>2, <1>3, <1>6 DEF ChainOK, Chains, Undecided
<1>8. ChainInv' /\ chains'[c] = x /\ \A z \in Slots : z # c => chains'[z] = chains[z]
  BY <1>4, <1>7, ChainSet DEF Inv
<1> QED
  BY <1>5, <1>6, <1>8 DEF d

\* A form is sent, and kept to be shown again.
LEMMA handleInstallWithResponsesKeeps ==
  ASSUME Inv, NEW c \in Slots, handleInstallWithResponses(c)
  PROVE  Inv'
<1>1. ChainInv' /\ chains'[c].pc = "submit"
  BY SubmitFacts
<1>2. "questions" \in Kinds
  BY DEF Kinds
<1>3. DialogInv' /\ Held' /\ flows' \in [Flows -> OAuthFlows] /\ mixed' \subseteq Names
  BY <1>2, DialogShut DEF Inv, handleInstallWithResponses
<1>4. RestInv'
  BY <1>3 DEF Inv, RestInv, handleInstallWithResponses
<1>5. ProgressMeansWork'
  BY <1>1 DEF ProgressMeansWork, Streaming, Streams
<1> QED
  BY <1>1, <1>3, <1>4, <1>5 DEF Inv

\* The server is done with a request; the answers of a form are the only ones it refuses.
LEMMA ServerEndsKeeps ==
  ASSUME Inv, NEW c \in Slots, ServerEnds(c)
  PROVE  Inv' /\ \A z \in Slots : chains'[z].pc = chains[z].pc
<1>1. PICK s \in {"finished", "failed", "rejects", "ended"} :
        /\ s = "rejects" => chains[c].pc = "submit"
        /\ chains' = [chains EXCEPT ![c] = [chains[c] EXCEPT !.server = s]]
  BY DEF ServerEnds
<1> DEFINE x == [chains[c] EXCEPT !.server = s]
<1>2. chains[c] \in Works /\ ChainOK(chains[c])
  BY ChainShape DEF ServerEnds, Streaming, Inv, ChainInv
<1>3. /\ x \in Works /\ x.server = s /\ x.pc = chains[c].pc /\ x.req = chains[c].req /\ x.chose = chains[c].chose
      /\ x.saved = chains[c].saved /\ x.purge = chains[c].purge /\ x.asked = chains[c].asked
  BY <1>2 DEF Works
<1> HIDE DEF x
<1>4. ChainOK(x)
  BY <1>1, <1>2, <1>3 DEF ChainOK, Chains
<1>5. UNCHANGED <<dialogs, stack, purge, toast, refreshing, oauth, flows, mixed, ticked, clicks>>
  BY DEF ServerEnds
<1>6. ChainInv' /\ chains'[c] = x /\ \A z \in Slots : z # c => chains'[z] = chains[z]
  BY <1>1, <1>4, ChainSet DEF Inv, x
<1>7. DialogInv' /\ Held'
  BY <1>5, DialogsStay, HeldStays DEF Inv
<1>8. RestInv'
  BY <1>5 DEF Inv, RestInv
<1>9. \A z \in Slots : chains'[z].pc = chains[z].pc
  BY <1>3, <1>6
<1>10. ProgressMeansWork'
  BY <1>5, <1>9 DEF Inv, ProgressMeansWork, Streaming
<1> QED
  BY <1>6, <1>7, <1>8, <1>9, <1>10 DEF Inv

\* A step of a stream shows the toast again.
LEMMA StreamStepKeeps ==
  ASSUME Inv, NEW c \in Slots, StreamStep(c)
  PROVE  Inv'
<1>1. UNCHANGED <<dialogs, stack, purge, ticked, chains, oauth, flows, mixed>>
  BY DEF StreamStep
<1>2. DialogInv' /\ Held' /\ ChainInv'
  BY <1>1, DialogsStay, HeldStays DEF Inv, ChainInv
<1>3. RestInv'
  BY DEF Inv, RestInv, StreamStep
<1>4. ProgressMeansWork'
  BY <1>1 DEF ProgressMeansWork, StreamStep, Streaming
<1> QED
  BY <1>2, <1>3, <1>4 DEF Inv

\* The questions dialog is opened, or what it is about replaced: the token is that of the dialog
\* before, which is then one of those mixed, or that of the new one.
LEMMA OpenQuestionsKeeps ==
  ASSUME DialogInv, Held, RestInv, NEW d \in Forms, d.req = d.chose, OpenQuestions(d),
         UNCHANGED <<purge, ticked, flows>>
  PROVE  DialogInv' /\ Held' /\ mixed' \subseteq Names /\ oauth' \in OAuthStates
<1>1. d \in Dialogs("questions") /\ d.open /\ "questions" \in Kinds /\ "uninstall" \in Kinds
  BY DialogFacts DEF Kinds, Forms
<1>2. /\ DialogsTyped' /\ Stacked' /\ dialogs'["questions"] = d
      /\ \A j \in Kinds : j # "questions" => dialogs'[j] = dialogs[j]
  BY <1>1, OpenKeeps DEF DialogInv, OpenQuestions
<1>3. DialogInv'
  <2>1. Fit("questions", d)
    BY DEF Fit
  <2>2. \A j \in Kinds : dialogs'[j].open => Fit(j, dialogs'[j])
    BY <1>2, <2>1 DEF DialogInv
  <2>3. Ticked'
    BY <1>1, <1>2 DEF DialogInv, Ticked
  <2> QED
    BY <1>2, <2>2, <2>3 DEF DialogInv
<1>4. d.req.name \in Names /\ d.req \in Requests
  BY DEF Requests, Forms
<1>5. CASE dialogs["questions"].open
  <2> DEFINE old == dialogs["questions"].req.name
  <2>1. oauth' = oauth /\ mixed' = mixed \cup {old}
    BY <1>5 DEF OpenQuestions
  <2>2. dialogs["questions"] \in Forms
    BY <1>5, QuestionsTyped
  <2>3. old \in Names
    BY <2>2 DEF Forms, Requests
  <2>4. Own \subseteq Own'
    BY <2>1 DEF Own
  <2>5. Held'
    BY <1>1, <1>2, <1>5, <2>1, <2>4 DEF Held
  <2> QED
    BY <1>3, <2>1, <2>3, <2>5 DEF RestInv, OAuthStates
<1>6. CASE ~dialogs["questions"].open
  <2>1. oauth' = Initial(d) /\ mixed' = {}
    BY <1>6 DEF OpenQuestions
  <2>2. Initial(d) \in OAuthStates /\ Initial(d).token \in {"none", d.req.name}
    BY <1>4 DEF Initial, NoFlow, OAuthStates
  <2>3. \A f \in Flows : ~(flows[f].pc # "idle" /\ flows[f].here)
    BY <1>6 DEF Held
  <2>4. Held'
    BY <1>2, <2>1, <2>2, <2>3 DEF Held, Own
  <2> QED
    BY <1>3, <2>1, <2>2, <2>4
<1> QED
  BY <1>5, <1>6

\* A stream is over; a refused form comes back with what was chosen for it.
LEMMA StreamEndsKeeps ==
  ASSUME Inv, NEW c \in Slots, StreamEnds(c)
  PROVE  Inv'
<1>1. chains' = [chains EXCEPT ![c] = Idle] /\ UNCHANGED <<purge, ticked, flows, clicks>>
  BY DEF StreamEnds
<1>2. ChainInv'
  BY <1>1, IdleOK, ChainSet DEF Inv
<1>3. toast' = FALSE /\ refreshing' \in BOOLEAN
  BY DEF StreamEnds, dismissProgress, Inv, RestInv
<1>4. DialogInv' /\ Held' /\ mixed' \subseteq Names /\ oauth' \in OAuthStates
  <2>1. CASE UNCHANGED <<dialogs, stack, oauth, mixed>>
    BY <1>1, <2>1, DialogsStay, HeldStays DEF Inv, RestInv, OAuthStates
  <2>2. CASE /\ chains[c].server = "rejects"
             /\ OpenQuestions([chains[c].saved EXCEPT !.open = TRUE])
    <3> DEFINE saved == chains[c].saved
               d == [saved EXCEPT !.open = TRUE]
    <3>1. ChainOK(chains[c]) /\ chains[c] \in Works /\ chains[c].pc \in Streams
      BY ChainShape DEF StreamEnds, Streaming, Inv, ChainInv
    <3>2. saved.open /\ saved.req = saved.chose /\ saved \in Dialogs("questions")
      BY <2>2, <3>1 DEF ChainOK, Works
    <3>3. ~Closed.open
      BY DEF Closed
    <3>4. saved \in Forms
      BY <3>2, <3>3, DialogFacts
    <3> HIDE DEF saved
    <3>5. d \in Forms /\ d.req = saved.req /\ d.chose = saved.chose
      BY <3>4 DEF Forms
    <3>6. OpenQuestions(d) /\ d.req = d.chose
      BY <2>2, <3>2, <3>5 DEF saved
    <3> HIDE DEF d
    <3> QED
      BY <1>1, <3>5, <3>6, OpenQuestionsKeeps DEF Inv
  <2> QED
    BY <2>1, <2>2 DEF StreamEnds
<1>5. RestInv'
  BY <1>1, <1>3, <1>4 DEF Inv, RestInv, OAuthStates
<1>6. ProgressMeansWork'
  BY <1>3 DEF ProgressMeansWork
<1> QED
  BY <1>2, <1>4, <1>5, <1>6 DEF Inv

\* A dialog is opened for a handler whose page is still there.
LEMMA OpenForKeeps ==
  ASSUME DialogInv, NEW c \in Slots, NEW k \in Kinds \ {"questions", "uninstall"}, NEW d \in Dialogs(k),
         d.open, Fit(k, d), OpenFor(c, k, d), UNCHANGED <<purge, ticked>>
  PROVE  DialogInv' /\ UNCHANGED <<oauth, mixed>> /\ dialogs'["questions"] = dialogs["questions"]
<1>1. CASE Open(k, d)
  <2>1. /\ DialogsTyped' /\ Stacked' /\ dialogs'[k] = d
        /\ \A j \in Kinds : j # k => dialogs'[j] = dialogs[j]
    BY <1>1, OpenKeeps DEF DialogInv, Open
  <2> QED
    BY <1>1, <2>1, DialogsOther DEF Open
<1>2. CASE UNCHANGED <<dialogs, stack, oauth, mixed>>
  BY <1>2, DialogsStay
<1> QED
  BY <1>1, <1>2 DEF OpenFor

\* What a handler that waits for an answer is like.
LEMMA WaitFacts ==
  ASSUME Inv, NEW c \in Slots, chains[c].pc \in PackageClient
  PROVE  /\ ~Streaming(c) /\ chains[c] \in Waits /\ chains[c].req \in Requests /\ chains[c].live \in BOOLEAN
         /\ chains[c].pc \in Asking => chains[c].chose = chains[c].req
         /\ chains[c].pc \in Undecided => ~chains[c].req.reuse
<1>1. chains[c] \in Chains /\ ChainOK(chains[c])
  BY DEF Inv, ChainInv
<1>2. chains[c] \in Waits
  BY <1>1, ChainShape
<1>3. ~Streaming(c)
  BY DEF Streaming, Streams, PackageClient
<1>4. chains[c].pc \in Asking => chains[c].pc \in Installing
  BY DEF Asking, Installing
<1> QED
  BY <1>1, <1>2, <1>3, <1>4 DEF ChainOK, Waits

\* A call that fails ends its handler.
LEMMA ThrowsKeeps ==
  ASSUME Inv, NEW c \in Slots, Throws(c), toast' = toast, Calm
  PROVE  Inv'
<1>1. /\ chains' = [chains EXCEPT ![c] = Idle]
      /\ UNCHANGED <<dialogs, stack, toast, oauth, mixed, purge, refreshing, flows, ticked, clicks>>
  BY DEF Throws, End, Calm
<1>2. ~Streaming(c)
  BY WaitFacts DEF Throws
<1>3. clicks' \in Nat
  BY <1>1 DEF Inv, RestInv
<1> QED
  BY <1>1, <1>2, <1>3, IdleOK, QuietKeeps

\* The next request of an install is sent.
LEMMA GotoKeeps ==
  ASSUME Inv, NEW c \in Slots, chains[c].pc \in Asking, NEW pc \in Asking, Goto(c, pc),
         pc \in Undecided => chains[c].pc \in Undecided,
         UNCHANGED <<dialogs, stack, oauth, mixed, toast>>, Calm
  PROVE  Inv'
<1> DEFINE x == [chains[c] EXCEPT !.pc = pc]
<1>1. chains' = [chains EXCEPT ![c] = x]
  BY DEF Goto
<1>2. /\ ~Streaming(c) /\ chains[c] \in Waits /\ chains[c].req \in Requests /\ chains[c].req = chains[c].chose
      /\ pc \in Undecided => ~chains[c].req.reuse
  BY WaitFacts DEF Asking
<1>3. x \in Waits /\ x.pc = pc /\ x.req = chains[c].req /\ x.chose = chains[c].chose
  BY <1>2 DEF Waits, Asking
<1>4. pc \notin Streams /\ pc # "submit" /\ pc # "uninstall" /\ pc # "install"
  BY DEF Streams, PackageClient, Asking
<1> HIDE DEF x
<1>5. ChainOK(x)
  BY <1>2, <1>3, <1>4 DEF ChainOK, Chains
<1>6. clicks' \in Nat
  BY DEF Inv, RestInv, Calm
<1> QED
  BY <1>1, <1>2, <1>5, <1>6, QuietKeeps DEF Calm

\* The answer is shown in a dialog, if the page is still there, and the handler is over.
LEMMA ShowsKeeps ==
  ASSUME Inv, NEW c \in Slots, chains[c].pc \in PackageClient,
         NEW k \in Kinds \ {"questions", "uninstall"}, NEW d \in Dialogs(k), d.open, Fit(k, d),
         OpenFor(c, k, d), End(c), toast' = toast, Calm
  PROVE  Inv'
<1>1. DialogInv' /\ UNCHANGED <<oauth, mixed>> /\ dialogs'["questions"] = dialogs["questions"]
  BY OpenForKeeps DEF Inv, Calm
<1>2. ~Streaming(c)
  BY WaitFacts
<1>3. ChainOK(Idle) /\ chains' = [chains EXCEPT ![c] = Idle]
  BY IdleOK DEF End
<1>4. /\ mixed' \subseteq Names /\ oauth' \in OAuthStates /\ flows' \in [Flows -> OAuthFlows]
      /\ clicks' \in Nat
  BY <1>1 DEF Inv, RestInv, OAuthStates, Calm
<1>5. Held'
  BY <1>1, HeldStays DEF Inv, Calm
<1> QED
  BY <1>1, <1>2, <1>3, <1>4, <1>5, StepKeeps DEF Calm

\* The questions are shown, or the install is sent for a package that asks nothing.
LEMMA handleInstallKeeps ==
  ASSUME Inv, NEW c \in Slots, handleInstall(c)
  PROVE  Inv'
<1> DEFINE req == chains[c].req
           chose == chains[c].chose
<1>1. chains[c].pc = "getResponses" /\ Calm
  BY DEF handleInstall
<1>2. ~Streaming(c) /\ req \in Requests /\ req = chose /\ chains[c].live \in BOOLEAN
  BY <1>1, WaitFacts DEF PackageClient, Asking
<1>3. flows' \in [Flows -> OAuthFlows] /\ clicks' \in Nat /\ refreshing' \in BOOLEAN
  BY <1>1 DEF Inv, RestInv, Calm
<1>4. CASE /\ \/ UNCHANGED <<dialogs, stack, oauth, mixed>>
              \/ \E cached \in BOOLEAN : OpenQuestions(questionsDialog(req, chose, cached))
           /\ End(c) /\ toast' = toast
  <2>1. DialogInv' /\ Held' /\ mixed' \subseteq Names /\ oauth' \in OAuthStates
    <3>1. CASE UNCHANGED <<dialogs, stack, oauth, mixed>>
      BY <1>1, <3>1, DialogsStay, HeldStays DEF Inv, RestInv, OAuthStates, Calm
    <3>2. CASE \E cached \in BOOLEAN : OpenQuestions(questionsDialog(req, chose, cached))
      <4>1. PICK cached \in BOOLEAN : OpenQuestions(questionsDialog(req, chose, cached))
        BY <3>2
      <4> DEFINE d == questionsDialog(req, chose, cached)
      <4>2. d \in Forms /\ d.req = d.chose
        BY <1>2 DEF questionsDialog, Forms
      <4> HIDE DEF d
      <4> QED
        BY <1>1, <4>1, <4>2, OpenQuestionsKeeps DEF Inv, Calm, d
    <3> QED
      BY <1>4, <3>1, <3>2
  <2>2. ChainOK(Idle) /\ chains' = [chains EXCEPT ![c] = Idle]
    BY <1>4, IdleOK DEF End
  <2> QED
    BY <1>1, <1>2, <1>3, <1>4, <2>1, <2>2, StepKeeps DEF Calm
<1>5. CASE /\ chains' = [chains EXCEPT ![c] = [Stream("install", req, chose) EXCEPT !.live = chains[c].live]]
           /\ toast' = TRUE /\ UNCHANGED <<dialogs, stack, oauth, mixed>>
  <2> DEFINE x == [Stream("install", req, chose) EXCEPT !.live = chains[c].live]
  <2>1. x \in Works /\ x.pc = "install" /\ x.server = "works" /\ x.req = req /\ x.chose = chose
    <3>1. Closed \in Dialogs("questions")
      BY DialogFacts
    <3> QED
      BY <1>2, <3>1 DEF Stream, Works, Streams
  <2> HIDE DEF x
  <2>2. ChainOK(x) /\ x.pc \in Streams
    BY <1>2, <2>1 DEF ChainOK, Chains, Undecided, Streams
  <2>3. DialogInv' /\ Held' /\ mixed' \subseteq Names
    BY <1>1, <1>5, DialogsStay, HeldStays DEF Inv, Calm, RestInv
  <2> QED
    BY <1>1, <1>3, <1>5, <2>2, <2>3, StreamKeeps DEF Calm, x
<1> QED
  BY <1>4, <1>5 DEF handleInstall

\* The content of a manifest goes to whatever the dialog is by then.
LEMMA ManifestAnsweredKeeps ==
  ASSUME Inv, NEW c \in Slots, ManifestAnswered(c)
  PROVE  Inv'
<1>1. /\ chains[c].pc \in PackageClient /\ chains' = [chains EXCEPT ![c] = Idle]
      /\ UNCHANGED <<purge, toast, refreshing, oauth, mixed, ticked, clicks>>
  BY DEF ManifestAnswered, PackageClient, End
<1>2. ~Streaming(c) /\ chains[c].req \in Requests
  BY <1>1, WaitFacts
<1>3. oauth' \in OAuthStates /\ mixed' \subseteq Names /\ clicks' \in Nat
  BY <1>1 DEF Inv, RestInv, OAuthStates
<1>4. "manifest" \in Kinds \ {"questions", "uninstall"} /\ "manifest" \in Kinds
  BY DEF Kinds
<1>5. DialogInv' /\ Held' /\ flows' \in [Flows -> OAuthFlows]
  <2>1. CASE /\ dialogs["manifest"].open
             /\ Put("manifest", [dialogs["manifest"] EXCEPT !.content = chains[c].req.name])
             /\ UNCHANGED <<stack, flows>>
    <3> DEFINE m == dialogs["manifest"]
               d == [m EXCEPT !.content = chains[c].req.name]
    <3>1. ~Closed.open
      BY DEF Closed
    <3>2. m \in [open : {TRUE}, name : Names, content : Names \cup {"none"}]
      BY <1>4, <2>1, <3>1, DialogFacts DEF Inv, DialogInv, DialogsTyped
    <3>3. chains[c].req.name \in Names
      BY <1>2 DEF Requests
    <3>4. d \in Dialogs("manifest") /\ d.open
      <4> HIDE DEF m
      <4> QED
        BY <3>2, <3>3, DialogFacts
    <3>5. Put("manifest", d) /\ Raise("manifest")
      BY <2>1 DEF Raise
    <3> HIDE DEF d
    <3>6. DialogsTyped' /\ Stacked' /\ \A j \in Kinds : j # "manifest" => dialogs'[j] = dialogs[j]
      BY <1>4, <3>4, <3>5, OpenKeeps DEF Inv, DialogInv
    <3>7. Fit("manifest", dialogs'["manifest"])
      BY DEF Fit
    <3>8. DialogInv' /\ dialogs'["questions"] = dialogs["questions"]
      BY <1>1, <1>4, <3>6, <3>7, DialogsOther DEF Inv
    <3> QED
      BY <1>1, <2>1, <3>8, HeldStays DEF Inv, RestInv
  <2>2. CASE UNCHANGED <<dialogs, stack, flows>>
    BY <1>1, <2>2, DialogsStay, HeldStays DEF Inv, RestInv
  <2>3. CASE Shut("manifest")
    BY <1>1, <1>4, <2>3, DialogShut DEF Inv
  <2> QED
    BY <2>1, <2>2, <2>3 DEF ManifestAnswered
<1> QED
  BY <1>1, <1>2, <1>3, <1>5, IdleOK, StepKeeps

\* Every answer to a request.
LEMMA AnsweredKeeps ==
  ASSUME Inv, NEW c \in Slots, Answered(c)
  PROVE  Inv'
<1> DEFINE req == chains[c].req
           chose == chains[c].chose
<1>a. ASSUME chains[c].pc \in Asking
      PROVE  req \in Requests /\ chose = req /\ chains[c].pc \in PackageClient
  BY <1>a, WaitFacts DEF Asking
<1>c. chains[c].pc \in Asking /\ chains[c].pc \in Undecided => ~req.reuse
  BY WaitFacts DEF Asking
<1>b. Throws(c) => UNCHANGED <<dialogs, stack, toast, oauth, mixed>>
  BY DEF Throws
<1>1. CASE VersionsAnswered(c)
  <2>1. chains[c].pc \in Asking /\ chains[c].pc \in Undecided /\ Calm
    BY <1>1 DEF VersionsAnswered, PackageClient, Asking, Undecided
  <2>2. CASE Throws(c)
    BY <1>b, <2>1, <2>2, ThrowsKeeps
  <2>3. CASE OpenFor(c, "version", versionSelectDialog(req, chose)) /\ End(c) /\ toast' = toast
    <3> DEFINE d == versionSelectDialog(req, chose)
    <3>1. d \in Dialogs("version") /\ d.open /\ Fit("version", d)
      BY <1>a, <1>c, <2>1, DialogFacts DEF versionSelectDialog, Fit
    <3> HIDE DEF d
    <3> QED
      BY <1>a, <2>1, <2>3, <3>1, ShowsKeeps DEF Kinds, d
  <2>4. CASE Goto(c, "installPreview") /\ UNCHANGED <<dialogs, stack, oauth, mixed, toast>>
    BY <2>1, <2>4, GotoKeeps DEF Asking, Undecided, PackageClient
  <2> QED
    BY <1>1, <2>2, <2>3, <2>4 DEF VersionsAnswered
<1>2. CASE handleShowPreview(c)
  <2>1. chains[c].pc \in Asking /\ chains[c].pc \in Undecided /\ Calm /\ toast' = toast
    BY <1>2 DEF handleShowPreview, PackageClient, Asking, Undecided
  <2>2. ASSUME NEW i \in Versions \cup {0}, OpenFor(c, "preview", previewDialog(req, chose, i)), End(c)
        PROVE  Inv'
    <3> DEFINE d == previewDialog(req, chose, i)
    <3>1. d \in Dialogs("preview") /\ d.open /\ Fit("preview", d)
      BY <1>a, <1>c, <2>1, DialogFacts DEF previewDialog, Fit
    <3> HIDE DEF d
    <3> QED
      BY <1>a, <2>1, <2>2, <3>1, ShowsKeeps DEF Kinds, d
  <2>3. CASE Goto(c, "listUninstalledVolumes") /\ UNCHANGED <<dialogs, stack, oauth, mixed>>
    BY <2>1, <2>3, GotoKeeps DEF Asking, Undecided, PackageClient
  <2> QED
    BY <1>2, <2>2, <2>3 DEF handleShowPreview
<1>3. CASE handleCheckVolumes(c)
  <2>1. chains[c].pc \in Asking /\ chains[c].pc \in Undecided /\ Calm /\ toast' = toast
    BY <1>3 DEF handleCheckVolumes, PackageClient, Asking, Undecided
  <2>2. CASE OpenFor(c, "reuse", volumeReuseDialog(req, chose)) /\ End(c)
    <3> DEFINE d == volumeReuseDialog(req, chose)
    <3>1. d \in Dialogs("reuse") /\ d.open /\ Fit("reuse", d)
      BY <1>a, <1>c, <2>1, DialogFacts DEF volumeReuseDialog, Fit
    <3> HIDE DEF d
    <3> QED
      BY <1>a, <2>1, <2>2, <3>1, ShowsKeeps DEF Kinds, d
  <2>3. CASE Goto(c, "getPackageQuestionsByIdentity") /\ UNCHANGED <<dialogs, stack, oauth, mixed>>
    BY <2>1, <2>3, GotoKeeps DEF Asking, Undecided, PackageClient
  <2> QED
    BY <1>3, <2>2, <2>3 DEF handleCheckVolumes
<1>4. CASE VolumesPurged(c)
  <2>1. chains[c].pc \in Asking /\ Calm
    BY <1>4 DEF VolumesPurged, PackageClient, Asking
  <2>2. CASE Throws(c)
    BY <1>b, <2>1, <2>2, ThrowsKeeps
  <2>3. CASE /\ Goto(c, "getPackageQuestionsByIdentity")
             /\ UNCHANGED <<dialogs, stack, oauth, mixed, toast>>
    BY <2>1, <2>3, GotoKeeps DEF Asking, Undecided, PackageClient
  <2> QED
    BY <1>4, <2>2, <2>3 DEF VolumesPurged
<1>5. CASE QuestionsAnswered(c)
  <2>1. chains[c].pc \in Asking /\ Calm
    BY <1>5 DEF QuestionsAnswered, PackageClient, Asking
  <2>2. CASE Throws(c)
    BY <1>b, <2>1, <2>2, ThrowsKeeps
  <2>3. CASE Goto(c, "getResponses") /\ UNCHANGED <<dialogs, stack, oauth, mixed, toast>>
    BY <2>1, <2>3, GotoKeeps DEF Asking, Undecided, PackageClient
  <2> QED
    BY <1>5, <2>2, <2>3 DEF QuestionsAnswered
<1>6. CASE InfoAnswered(c)
  <2>1. chains[c].pc \in PackageClient /\ Calm
    BY <1>6 DEF InfoAnswered, PackageClient
  <2>2. CASE Throws(c)
    BY <1>b, <2>1, <2>2, ThrowsKeeps
  <2>3. CASE OpenFor(c, "info", infoDialog(req.name)) /\ End(c) /\ toast' = toast
    <3> DEFINE d == infoDialog(req.name)
    <3>1. d \in Dialogs("info") /\ d.open /\ Fit("info", d)
      BY <2>1, WaitFacts, DialogFacts DEF infoDialog, Requests, Fit
    <3> HIDE DEF d
    <3> QED
      BY <2>1, <2>3, <3>1, ShowsKeeps DEF Kinds, d
  <2> QED
    BY <1>6, <2>2, <2>3 DEF InfoAnswered
<1> QED
  BY <1>1, <1>2, <1>3, <1>4, <1>5, <1>6, handleInstallKeeps, ManifestAnsweredKeeps DEF Answered

\* The operator goes on from a dialog of an install, with what was chosen in it.
LEMMA ProceedKeeps ==
  ASSUME Inv, NEW c \in Slots, NEW k \in Kinds, NEW pc \in Asking, NEW req \in Requests,
         pc \in Undecided => ~req.reuse, Proceed(c, k, pc, req, req)
  PROVE  Inv'
<1> DEFINE x == [pc |-> pc, req |-> req, chose |-> req, live |-> TRUE]
<1>1. /\ chains' = [chains EXCEPT ![c] = x] /\ Shut(k)
      /\ UNCHANGED <<purge, toast, refreshing, oauth, ticked, clicks>>
  BY DEF Proceed, Chain
<1>2. ~Streaming(c)
  BY FreeIsQuiet DEF Proceed, Inv
<1>3. ChainOK(x)
  BY WaitOK DEF Asking
<1>4. DialogInv' /\ Held' /\ flows' \in [Flows -> OAuthFlows] /\ mixed' \subseteq Names
  BY <1>1, DialogShut DEF Inv
<1>5. oauth' \in OAuthStates /\ clicks' \in Nat
  BY <1>1 DEF Inv, RestInv, OAuthStates
<1> HIDE DEF x
<1> QED
  BY <1>1, <1>2, <1>3, <1>4, <1>5, StepKeeps

\* What a dialog of an install that is on top is about.
LEMMA InstallTyped ==
  ASSUME Inv, NEW k \in {"version", "preview", "reuse"}, Top(k)
  PROVE  /\ k \in Kinds /\ dialogs[k].req \in Requests /\ dialogs[k].chose = dialogs[k].req
         /\ ~dialogs[k].req.reuse
         /\ k = "preview" => dialogs[k].upgrading_from \in Versions \cup {0}
         /\ k = "version" => dialogs[k] \in [open : {TRUE}, req : Requests, chose : Requests]
<1>1. k \in Kinds
  BY DEF Kinds
<1>2. dialogs[k] # Closed /\ dialogs[k] \in Dialogs(k) /\ dialogs[k].open
  BY <1>1, TopIsOpen DEF Inv, DialogInv, DialogsTyped
<1>3. dialogs[k].chose = dialogs[k].req /\ ~dialogs[k].req.reuse
  BY <1>1, <1>2 DEF Inv, DialogInv, Fit
<1>4. CASE k = "version"
  BY <1>1, <1>2, <1>3, <1>4, DialogFacts
<1>5. CASE k = "reuse"
  BY <1>1, <1>2, <1>3, <1>5, DialogFacts
<1>6. CASE k = "preview"
  BY <1>1, <1>2, <1>3, <1>6, DialogFacts
<1> QED
  BY <1>4, <1>5, <1>6

\* A version is picked in the dialog that offers them.
LEMMA PickVersionKeeps ==
  ASSUME Inv, PickVersion
  PROVE  Inv'
<1> DEFINE m == dialogs["version"]
<1>1. PICK v \in Versions : Put("version", [m EXCEPT !.req.ver = v, !.chose.ver = v])
  BY DEF PickVersion
<1> DEFINE d == [m EXCEPT !.req.ver = v, !.chose.ver = v]
<1>2. "version" \in Kinds \ {"questions", "uninstall"} /\ m \in [open : {TRUE}, req : Requests, chose : Requests]
  BY InstallTyped DEF PickVersion, Kinds
<1>3. m.req = m.chose /\ ~m.req.reuse
  BY InstallTyped DEF PickVersion
<1>4. d \in [open : {TRUE}, req : Requests, chose : Requests] /\ d.req = d.chose /\ ~d.req.reuse
  <2> HIDE DEF m
  <2>1. [m.req EXCEPT !.ver = v] \in Requests /\ ~[m.req EXCEPT !.ver = v].reuse
    BY <1>2, <1>3 DEF Requests
  <2>2. d = [m EXCEPT !.req = [m.req EXCEPT !.ver = v], !.chose = [m.chose EXCEPT !.ver = v]]
    BY <1>2
  <2> HIDE DEF d
  <2> QED
    BY <1>2, <1>3, <2>1, <2>2
<1> HIDE DEF d
<1>5. d \in Dialogs("version") /\ d.open /\ Fit("version", d)
  BY <1>4, DialogFacts DEF Fit
<1>6. Raise("version")
  BY <1>2 DEF Raise, PickVersion
<1>7. /\ DialogsTyped' /\ Stacked' /\ dialogs'["version"] = d
      /\ \A j \in Kinds : j # "version" => dialogs'[j] = dialogs[j]
  BY <1>1, <1>2, <1>5, <1>6, OpenKeeps DEF Inv, DialogInv, d
<1>8. DialogInv' /\ dialogs'["questions"] = dialogs["questions"]
  BY <1>2, <1>5, <1>7, DialogsOther DEF Inv, PickVersion
<1>9. Held' /\ RestInv'
  BY <1>8, HeldStays DEF Inv, RestInv, PickVersion
<1>10. ChainInv' /\ ProgressMeansWork'
  BY DEF Inv, ChainInv, ProgressMeansWork, Streaming, PickVersion
<1> QED
  BY <1>8, <1>9, <1>10 DEF Inv

\* The dialogs of a chain, each with what it adds to the request and to what was chosen.
LEMMA DialogStepKeeps ==
  ASSUME Inv, NEW c \in Slots,
         SelectVersion(c) \/ PreviewContinue(c) \/ onStartFresh(c) \/ onReuse(c)
  PROVE  Inv'
<1>1. CASE SelectVersion(c)
  <2> DEFINE d == dialogs["version"]
  <2>1. "version" \in Kinds /\ d.req \in Requests /\ d.chose = d.req /\ ~d.req.reuse
    BY <1>1, InstallTyped DEF Proceed, SelectVersion
  <2>2. Proceed(c, "version", "installPreview", d.req, d.req)
    BY <1>1, <2>1 DEF SelectVersion
  <2> QED
    BY <2>1, <2>2, ProceedKeeps DEF Asking, Undecided, PackageClient
<1>2. CASE PreviewContinue(c)
  <2> DEFINE d == dialogs["preview"]
             req == [d.req EXCEPT !.import = d.upgrading_from]
  <2>1. "preview" \in Kinds /\ d.req \in Requests /\ d.chose = d.req /\ ~d.req.reuse /\ d.upgrading_from \in Versions \cup {0}
    BY <1>2, InstallTyped DEF Proceed, PreviewContinue
  <2>2. req \in Requests /\ ~req.reuse
    BY <2>1 DEF Requests
  <2>3. Proceed(c, "preview", "listUninstalledVolumes", req, req)
    BY <1>2, <2>1 DEF PreviewContinue
  <2> QED
    BY <2>1, <2>2, <2>3, ProceedKeeps DEF Asking, Undecided, PackageClient
<1>3. CASE onStartFresh(c)
  <2> DEFINE d == dialogs["reuse"]
  <2>1. "reuse" \in Kinds /\ d.req \in Requests /\ d.chose = d.req /\ ~d.req.reuse
    BY <1>3, InstallTyped DEF Proceed, onStartFresh
  <2>2. [d.chose EXCEPT !.reuse = FALSE] = d.req
    BY <2>1 DEF Requests
  <2>3. Proceed(c, "reuse", "purgeUninstalledVolumes", d.req, d.req)
    BY <1>3, <2>2 DEF onStartFresh
  <2> QED
    BY <2>1, <2>3, ProceedKeeps DEF Asking, Undecided, PackageClient
<1>4. CASE onReuse(c)
  <2> DEFINE d == dialogs["reuse"]
             req == [d.req EXCEPT !.reuse = TRUE]
  <2>1. "reuse" \in Kinds /\ d.req \in Requests /\ d.chose = d.req /\ ~d.req.reuse
    BY <1>4, InstallTyped DEF Proceed, onReuse
  <2>2. req \in Requests
    BY <2>1 DEF Requests
  <2>3. Proceed(c, "reuse", "getPackageQuestionsByIdentity", req, req)
    BY <1>4, <2>1 DEF onReuse
  <2> QED
    BY <2>1, <2>2, <2>3, ProceedKeeps DEF Asking, Undecided, PackageClient
<1> QED
  BY <1>1, <1>2, <1>3, <1>4

-----------------------------------------------------------------------------
(* The device flow.                                                        *)

\* The steps of a device flow touch the flow and what its question shows.
LEMMA FlowKeeps ==
  ASSUME Inv, FlowStill, oauth' \in OAuthStates, flows' \in [Flows -> OAuthFlows],
         mixed' \subseteq Names, Held'
  PROVE  Inv'
<1>1. DialogInv'
  BY DialogsStay DEF Inv, FlowStill
<1>2. ChainInv' /\ ProgressMeansWork'
  BY DEF Inv, ChainInv, ProgressMeansWork, Streaming, FlowStill
<1>3. RestInv'
  BY DEF Inv, RestInv, OAuthStates, FlowStill
<1> QED
  BY <1>1, <1>2, <1>3 DEF Inv

\* A flow that runs.
RunningFlows ==
  [pc : {"starting", "asleep", "polling"}, name : Names, here : BOOLEAN,
   live : BOOLEAN, cancelled : BOOLEAN]

\* A flow that is not idle runs.
LEMMA FlowShape ==
  ASSUME Inv, NEW f \in Flows, flows[f].pc # "idle"
  PROVE  flows[f] \in RunningFlows
  BY DEF Inv, RestInv, OAuthFlows, RunningFlows, Idle

\* A flow goes on or ends.
Goes(f, x) == x = Idle \/ (x \in RunningFlows /\ x.name = flows[f].name /\ x.here = flows[f].here)

\* A step of a flow that leaves the token alone.
LEMMA FlowGoes ==
  ASSUME Inv, NEW f \in Flows, flows[f].pc # "idle", NEW x, Goes(f, x), flows' = [flows EXCEPT ![f] = x],
         oauth' \in OAuthStates, oauth'.token = oauth.token, mixed' = mixed, FlowStill
  PROVE  Inv'
<1>1. flows \in [Flows -> OAuthFlows] /\ x \in OAuthFlows
  BY DEF Inv, RestInv, Goes, OAuthFlows, RunningFlows
<1>2. flows' \in [Flows -> OAuthFlows] /\ flows'[f] = x /\ \A g \in Flows : g # f => flows'[g] = flows[g]
  BY <1>1
<1>3. \A g \in Flows : flows'[g].pc # "idle" /\ flows'[g].here =>
        flows[g].pc # "idle" /\ flows[g].here /\ flows'[g].name = flows[g].name
  BY <1>2 DEF Goes, Idle
<1>4. Own' = Own /\ dialogs' = dialogs
  BY DEF Own, FlowStill
<1>5. Held'
  BY <1>3, <1>4 DEF Inv, Held
<1>6. mixed' \subseteq Names
  BY DEF Inv, RestInv
<1> QED
  BY <1>2, <1>5, <1>6, FlowKeeps

\* The steps of the device flow: its token is of its own package, and the questions dialog has had
\* to do with that package, or has from now on.
LEMMA OAuthKeeps ==
  ASSUME Inv, NEW f \in Flows, runOAuth(f) \/ FlowStarted(f) \/ FlowWakes(f) \/ FlowPolled(f)
  PROVE  Inv'
<1>1. /\ oauth \in OAuthStates /\ oauth.token \in Names \cup {"none"} /\ flows \in [Flows -> OAuthFlows]
      /\ mixed \subseteq Names
  BY DEF Inv, RestInv, OAuthStates
<1>2. Idle \in OAuthFlows /\ RunningFlows \subseteq OAuthFlows
  BY DEF OAuthFlows, RunningFlows
<1>3. CASE runOAuth(f)
  <2> DEFINE d == dialogs["questions"]
             x == [pc |-> "starting", name |-> d.req.name, here |-> TRUE,
                   live |-> TRUE, cancelled |-> FALSE]
  <2>1. "questions" \in Kinds
    BY DEF Kinds
  <2>2. d.open
    BY <1>3, <2>1, TopIsOpen DEF Inv, DialogInv, runOAuth, Connectable
  <2>3. d.req \in Requests
    BY <2>2, QuestionsTyped DEF Inv, Forms
  <2>4. d.req.name \in Names
    BY <2>3 DEF Requests
  <2>5. x \in RunningFlows /\ x.name = d.req.name
    BY <2>4 DEF RunningFlows
  <2> HIDE DEF x
  <2>6. /\ flows' = [flows EXCEPT ![f] = x] /\ oauth' = [oauth EXCEPT !.status = "starting"] /\ FlowStill
        /\ mixed' = mixed /\ dialogs' = dialogs
    BY <1>3 DEF runOAuth, FlowStill, x
  <2>7. /\ flows' \in [Flows -> OAuthFlows] /\ oauth' \in OAuthStates /\ oauth'.token = oauth.token
        /\ flows'[f] = x /\ \A g \in Flows : g # f => flows'[g] = flows[g]
    BY <1>1, <1>2, <2>5, <2>6 DEF OAuthStates
  <2>8. Own' = Own /\ d.req.name \in Own
    BY <2>6 DEF Own
  <2>9. Held'
    BY <2>2, <2>5, <2>6, <2>7, <2>8 DEF Inv, Held
  <2> QED
    BY <1>1, <2>6, <2>7, <2>9, FlowKeeps
<1>4. ASSUME NEW status \in {"error", "waiting", "connected"}, NEW token \in Names \cup {"none"},
             SetFlow(f, status, token)
      PROVE  oauth' \in OAuthStates /\ oauth'.token \in {oauth.token, token}
  BY <1>1, <1>4 DEF SetFlow, OAuthStates
<1>5. ASSUME flows[f].pc # "idle", NEW pc \in {"asleep", "polling"}
      PROVE  Goes(f, IF Cancelled(f) THEN Idle ELSE [flows[f] EXCEPT !.pc = pc])
  BY <1>5, FlowShape DEF RunningFlows, Goes
<1>6. Goes(f, Idle)
  BY DEF Goes
<1>7. CASE FlowStarted(f)
  <2>1. flows[f].pc # "idle" /\ FlowStill /\ mixed' = mixed
    BY <1>7 DEF FlowStarted
  <2>2. CASE SetFlow(f, "error", oauth.token) /\ flows' = [flows EXCEPT ![f] = Idle]
    BY <1>1, <1>4, <1>6, <2>1, <2>2, FlowGoes
  <2>3. CASE /\ SetFlow(f, "waiting", oauth.token)
             /\ flows' = [flows EXCEPT ![f] = IF Cancelled(f) THEN Idle ELSE [flows[f] EXCEPT !.pc = "asleep"]]
    <3>1. oauth' \in OAuthStates /\ oauth'.token = oauth.token
      BY <1>1, <1>4, <2>3
    <3> QED
      BY <1>5, <2>1, <2>3, <3>1, FlowGoes
  <2> QED
    BY <1>7, <2>2, <2>3 DEF FlowStarted
<1>8. CASE FlowWakes(f)
  <2>1. /\ flows[f].pc # "idle" /\ FlowStill /\ oauth' = oauth /\ mixed' = mixed
        /\ flows' = [flows EXCEPT ![f] = IF Cancelled(f) THEN Idle ELSE [flows[f] EXCEPT !.pc = "polling"]]
    BY <1>8 DEF FlowWakes
  <2> QED
    BY <1>1, <1>5, <2>1, FlowGoes
<1>9. CASE FlowPolled(f)
  <2>1. flows[f].pc # "idle" /\ FlowStill /\ dialogs' = dialogs
    BY <1>9 DEF FlowPolled, FlowStill
  <2>2. CASE /\ flows' = [flows EXCEPT ![f] = IF Cancelled(f) THEN Idle ELSE [flows[f] EXCEPT !.pc = "asleep"]]
             /\ UNCHANGED <<oauth, mixed>>
    BY <1>1, <1>5, <2>1, <2>2, FlowGoes
  <2>3. CASE /\ SetFlow(f, "connected", flows[f].name) /\ flows' = [flows EXCEPT ![f] = Idle]
             /\ mixed' = IF flows[f].live /\ ~flows[f].here /\ dialogs["questions"].open
                         THEN mixed \cup {flows[f].name} ELSE mixed
    <3>1. flows[f].name \in Names
      BY <2>1, FlowShape DEF RunningFlows
    <3>2. oauth' \in OAuthStates /\ oauth'.token \in {oauth.token, flows[f].name}
      BY <1>4, <2>3, <3>1
    <3>3. mixed' \subseteq Names /\ Own \subseteq Own'
      BY <1>1, <2>1, <2>3, <3>1 DEF Own
    <3>4. /\ flows' \in [Flows -> OAuthFlows] /\ flows'[f] = Idle
          /\ \A g \in Flows : g # f => flows'[g] = flows[g]
      BY <1>1, <1>2, <2>3
    <3>5. dialogs["questions"].open => oauth'.token \in Own'
      <4>1. CASE ~flows[f].live
        BY <2>3, <3>3, <4>1 DEF SetFlow, Inv, Held
      <4>2. CASE flows[f].here
        BY <2>1, <3>2, <3>3, <4>2 DEF Inv, Held
      <4>3. CASE flows[f].live /\ ~flows[f].here
        BY <2>3, <3>2, <3>3, <4>3 DEF Inv, Held, Own
      <4> QED
        BY <4>1, <4>2, <4>3
    <3>6. Held'
      BY <2>1, <3>3, <3>4, <3>5 DEF Inv, Held, Idle
    <3> QED
      BY <2>1, <3>2, <3>3, <3>4, <3>6, FlowKeeps
  <2>4. CASE SetFlow(f, "error", oauth.token) /\ flows' = [flows EXCEPT ![f] = Idle] /\ mixed' = mixed
    BY <1>1, <1>4, <1>6, <2>1, <2>4, FlowGoes
  <2> QED
    BY <1>9, <2>2, <2>3, <2>4 DEF FlowPolled
<1> QED
  BY <1>3, <1>7, <1>8, <1>9

\* The page is left: the dialogs close, handlers and flows run on.
LEMMA LeaveKeeps ==
  ASSUME Inv, Leave
  PROVE  Inv' /\ \A c \in Slots : chains'[c].pc = chains[c].pc
<1> DEFINE y(c) == IF Busy(c) THEN [chains[c] EXCEPT !.live = FALSE] ELSE Idle
           g(f) == IF flows[f].pc = "idle" THEN Idle
                   ELSE [Alone(flows[f]) EXCEPT !.live = FALSE, !.cancelled = Cancelled(f)]
<1>1. ASSUME NEW c \in Slots
      PROVE  ChainOK(y(c)) /\ y(c).pc = chains[c].pc
  <2>1. ChainOK(chains[c]) /\ chains[c] \in Chains
    BY <1>1 DEF Inv, ChainInv
  <2>2. CASE ~Busy(c)
    BY <2>2, IdleOK DEF Busy, Idle
  <2>3. CASE Busy(c)
    <3> DEFINE x == [chains[c] EXCEPT !.live = FALSE]
    <3>1. CASE chains[c] \in Waits
      <4>1. x \in Waits /\ x.pc = chains[c].pc /\ x.req = chains[c].req /\ x.chose = chains[c].chose
        BY <3>1 DEF Waits
      <4>2. x.pc \notin Streams /\ x.pc # "submit" /\ x.pc # "uninstall"
        BY <4>1 DEF Waits, Streams, PackageClient
      <4> QED
        BY <2>1, <2>3, <4>1, <4>2 DEF ChainOK, Chains
    <3>2. CASE chains[c] \in Works
      <4>1. /\ x \in Works /\ x.server = chains[c].server /\ x.pc = chains[c].pc /\ x.req = chains[c].req
            /\ x.chose = chains[c].chose
            /\ x.saved = chains[c].saved /\ x.purge = chains[c].purge /\ x.asked = chains[c].asked
        BY <3>2 DEF Works
      <4> QED
        BY <2>1, <2>3, <4>1 DEF ChainOK, Chains
    <3>3. chains[c] # Idle
      BY <2>3 DEF Busy, Idle
    <3> QED
      BY <2>1, <3>1, <3>2, <3>3 DEF Chains
  <2> QED
    BY <2>2, <2>3
<1>2. toast' = toast /\ chains' = [c \in Slots |-> y(c)]
  BY DEF Leave
<1>3. ChainInv' /\ ProgressMeansWork' /\ \A c \in Slots : chains'[c].pc = chains[c].pc
  <2> HIDE DEF y
  <2>1. \A c \in Slots : chains'[c] = y(c)
    BY <1>2
  <2>2. \A c \in Slots : ChainOK(chains'[c]) /\ chains'[c].pc = chains[c].pc
    BY <1>1, <2>1
  <2>3. chains' \in [Slots -> Chains]
    BY <1>1, <1>2 DEF ChainOK
  <2>4. ChainInv'
    BY <2>2, <2>3 DEF ChainInv
  <2>5. ProgressMeansWork'
    BY <1>2, <2>2 DEF Inv, ProgressMeansWork, Streaming
  <2> QED
    BY <2>2, <2>4, <2>5
<1>4. DialogInv' /\ ~dialogs'["questions"].open
  <2>1. dialogs' = [k \in Kinds |-> Closed] /\ stack' = << >> /\ purge' = FALSE
    BY DEF Leave
  <2>2. \A k \in Kinds : Closed \in Dialogs(k)
    BY DEF Dialogs
  <2>3. ~Closed.open /\ "questions" \in Kinds /\ "uninstall" \in Kinds
    BY DEF Closed, Kinds
  <2>4. DialogsTyped' /\ Stacked'
    BY <2>1, <2>2 DEF DialogsTyped, Stacked
  <2> QED
    BY <2>1, <2>3, <2>4 DEF DialogInv, Ticked
<1>5. ASSUME NEW f \in Flows PROVE g(f) \in OAuthFlows /\ (g(f).pc = "idle" \/ ~g(f).here)
  <2>1. CASE flows[f].pc = "idle"
    BY <2>1 DEF OAuthFlows, Idle
  <2>2. CASE flows[f].pc # "idle"
    <3>1. flows[f] \in RunningFlows
      BY <2>2, FlowShape
    <3>2. Cancelled(f) \in BOOLEAN
      BY <3>1 DEF Cancelled, RunningFlows
    <3> DEFINE x == [Alone(flows[f]) EXCEPT !.live = FALSE, !.cancelled = Cancelled(f)]
    <3>3. x \in RunningFlows /\ ~x.here
      BY <2>2, <3>1, <3>2 DEF RunningFlows, Alone
    <3> QED
      BY <2>2, <3>3 DEF OAuthFlows, RunningFlows
  <2> QED
    BY <2>1, <2>2
<1>6. flows' \in [Flows -> OAuthFlows] /\ \A f \in Flows : flows'[f].pc = "idle" \/ ~flows'[f].here
  <2>1. flows' = [f \in Flows |-> g(f)]
    BY DEF Leave
  <2> HIDE DEF g
  <2> QED
    BY <1>5, <2>1
<1>7. RestInv'
  <2>1. oauth' \in OAuthStates
    BY DEF Leave, NoFlow, OAuthStates
  <2>2. purge' \in BOOLEAN /\ refreshing' \in BOOLEAN /\ ticked' \in Names \cup {"none"} /\ mixed' \subseteq Names
    BY DEF Leave
  <2>3. UNCHANGED <<toast, clicks>>
    BY DEF Leave
  <2> QED
    BY <1>6, <2>1, <2>2, <2>3 DEF Inv, RestInv, OAuthStates
<1>8. Held'
  BY <1>4, <1>6 DEF Held
<1> QED
  BY <1>3, <1>4, <1>7, <1>8 DEF Inv

-----------------------------------------------------------------------------
\* Every step keeps the invariant.
LEMMA NextKeeps ==
  ASSUME Inv, Next
  PROVE  Inv'
<1>1. CASE \E c \in Slots :
             \/ \E n \in Names : handleStartInstall(c, n) \/ handleShowInfo(c, n) \/ handleShowManifest(c, n)
             \/ handleRefreshRepos(c) \/ handleUninstall(c) \/ handleInstallWithResponses(c)
             \/ SelectVersion(c) \/ PreviewContinue(c) \/ onStartFresh(c) \/ onReuse(c)
             \/ Answered(c) \/ ServerEnds(c) \/ StreamStep(c) \/ StreamEnds(c)
  <2>1. PICK c \in Slots :
             \/ \E n \in Names : handleStartInstall(c, n) \/ handleShowInfo(c, n) \/ handleShowManifest(c, n)
             \/ handleRefreshRepos(c) \/ handleUninstall(c) \/ handleInstallWithResponses(c)
             \/ SelectVersion(c) \/ PreviewContinue(c) \/ onStartFresh(c) \/ onReuse(c)
             \/ Answered(c) \/ ServerEnds(c) \/ StreamStep(c) \/ StreamEnds(c)
    BY <1>1
  <2> QED
    BY <2>1, handleStartInstallKeeps, handleShowInfoKeeps, handleShowManifestKeeps,
       handleRefreshReposKeeps, handleUninstallKeeps, handleInstallWithResponsesKeeps,
       DialogStepKeeps, AnsweredKeeps, ServerEndsKeeps, StreamStepKeeps, StreamEndsKeeps
<1>2. CASE \E f \in Flows : runOAuth(f) \/ FlowStarted(f) \/ FlowWakes(f) \/ FlowPolled(f)
  BY <1>2, OAuthKeeps
<1> QED
  BY <1>1, <1>2, LeaveKeeps, setPurgeVolumesKeeps, PickVersionKeeps, CancelKeeps, setUninstallConfirmKeeps DEF Next

\* The page as it is first shown.
LEMMA InitHolds ==
  ASSUME Init
  PROVE  Inv
<1>1. DialogInv
  <2>1. \A k \in Kinds : Closed \in Dialogs(k)
    BY DEF Dialogs
  <2>2. ~Closed.open /\ "questions" \in Kinds /\ "uninstall" \in Kinds
    BY DEF Closed, Kinds
  <2>3. DialogsTyped /\ Stacked
    BY <2>1 DEF Init, DialogsTyped, Stacked
  <2> QED
    BY <2>2, <2>3 DEF Init, DialogInv, Ticked
<1>2. ChainInv
  BY IdleOK DEF Init, ChainInv, Chains
<1>3. RestInv
  BY DEF Init, RestInv, NoFlow, OAuthFlows
<1>4. ProgressMeansWork
  BY DEF Init, ProgressMeansWork
<1>5. Held
  <2>1. ~dialogs["questions"].open
    BY DEF Init, Closed, Kinds
  <2> QED
    BY <2>1 DEF Init, Held, Idle
<1> QED
  BY <1>1, <1>2, <1>3, <1>4, <1>5 DEF Inv

\* A step of something else.
LEMMA StutterKeeps ==
  ASSUME Inv, UNCHANGED vars
  PROVE  Inv'
<1>1. DialogInv' /\ Held'
  BY DialogsStay, HeldStays DEF Inv, vars
<1>2. ChainInv' /\ ProgressMeansWork'
  BY DEF Inv, ChainInv, ProgressMeansWork, Streaming, vars
<1>3. RestInv'
  BY DEF Inv, RestInv, vars
<1> QED
  BY <1>1, <1>2, <1>3 DEF Inv

\* The parts hold in every state.
LEMMA AlwaysInv == Spec => []Inv
<1>1. Init => Inv
  BY InitHolds
<1>2. Inv /\ [Next]_vars => Inv'
  BY NextKeeps, StutterKeeps
<1> QED
  BY <1>1, <1>2, PTL DEF Spec

\* The inductive invariant of the packages page holds in every state of every behaviour, for any
\* packages, versions and number of handlers in flight.
THEOREM InvariantHolds == Spec => []InstallInv
<1>1. Inv => InstallInv
  BY Parts
<1> QED
  BY <1>1, AlwaysInv, PTL

\* The type invariant: every dialog, handler and flow has the fields the code that reads it uses.
THEOREM TypeCorrect == Spec => []TypeOK
<1>1. InstallInv => TypeOK
  BY DEF InstallInv
<1> QED
  BY <1>1, InvariantHolds, PTL

\* What an install sends to the server is what the operator has chosen for this very install,
\* whatever other installs did to the dialogs they share, and also after a refused form has come
\* back.
THEOREM ChoicesAlwaysHold == Spec => []ChoicesHold
<1>1. InstallInv => ChoicesHold
  BY DEF InstallInv, Agreed, ChoicesHold, Carries, Installing
<1> QED
  BY <1>1, InvariantHolds, PTL

\* handleUninstall purges volumes only of the package for which the box was ticked.
THEOREM PurgeIsAlwaysChosen == Spec => []PurgeIsChosen
<1>1. InstallInv => PurgeIsChosen
  BY DEF InstallInv
<1> QED
  BY <1>1, InvariantHolds, PTL

\* The progress toast is dismissed with the last operation at the latest.
THEOREM ProgressAlwaysMeansWork == Spec => []ProgressMeansWork
<1>1. InstallInv => ProgressMeansWork
  BY DEF InstallInv
<1> QED
  BY <1>1, InvariantHolds, PTL

-----------------------------------------------------------------------------
\* A form is sent by the handler of its button, and by nothing else.
LEMMA OnlySubmits ==
  ASSUME Inv, Next, NEW z \in Slots, chains[z].pc # "submit", chains'[z].pc = "submit"
  PROVE  handleInstallWithResponses(z)
<1>1. ASSUME NEW c \in Slots, NEW x, chains' = [chains EXCEPT ![c] = x], x.pc # "submit" PROVE FALSE
  BY <1>1 DEF Inv, ChainInv
<1>2. ASSUME UNCHANGED chains PROVE FALSE
  BY <1>2
<1>3. ASSUME NEW c \in Slots, handleInstallWithResponses(c), c # z PROVE FALSE
  BY <1>3, SubmitFacts
<1>4. ASSUME NEW c \in Slots, StreamEnds(c) PROVE FALSE
  <2>1. chains' = [chains EXCEPT ![c] = Idle] /\ Idle.pc # "submit"
    BY <1>4 DEF StreamEnds, Idle
  <2> QED
    BY <1>1, <2>1
<1>5. ASSUME NEW c \in Slots, Answered(c) PROVE FALSE
  <2>1. ASSUME End(c) PROVE FALSE
    BY <1>1, <2>1 DEF End, Idle
  <2>2. ASSUME chains[c].pc \in PackageClient, NEW pc \in PackageClient, Goto(c, pc) PROVE FALSE
    <3>1. chains[c] \in Waits
      BY <2>2, WaitFacts
    <3>2. [chains[c] EXCEPT !.pc = pc].pc = pc /\ pc # "submit"
      BY <3>1 DEF Waits, PackageClient
    <3> QED
      BY <1>1, <2>2, <3>2 DEF Goto
  <2>3. CASE handleInstall(c)
    <3> DEFINE x == [Stream("install", chains[c].req, chains[c].chose) EXCEPT !.live = chains[c].live]
    <3>1. x.pc # "submit"
      BY DEF Stream
    <3> HIDE DEF x
    <3>2. End(c) \/ chains' = [chains EXCEPT ![c] = x]
      BY <2>3 DEF handleInstall, x
    <3> QED
      BY <1>1, <2>1, <3>1, <3>2
  <2>4. CASE VersionsAnswered(c)
    BY <2>1, <2>2, <2>4 DEF VersionsAnswered, Throws, PackageClient
  <2>5. CASE handleShowPreview(c)
    BY <2>1, <2>2, <2>5 DEF handleShowPreview, PackageClient
  <2>6. CASE handleCheckVolumes(c)
    BY <2>1, <2>2, <2>6 DEF handleCheckVolumes, PackageClient
  <2>7. CASE VolumesPurged(c)
    BY <2>1, <2>2, <2>7 DEF VolumesPurged, Throws, PackageClient
  <2>8. CASE QuestionsAnswered(c)
    BY <2>1, <2>2, <2>8 DEF QuestionsAnswered, Throws, PackageClient
  <2>9. CASE InfoAnswered(c)
    BY <2>1, <2>9 DEF InfoAnswered, Throws
  <2>10. CASE ManifestAnswered(c)
    BY <2>1, <2>10 DEF ManifestAnswered
  <2> QED
    BY <1>5, <2>3, <2>4, <2>5, <2>6, <2>7, <2>8, <2>9, <2>10 DEF Answered
<1>6. ASSUME NEW c \in Slots, NEW n \in Names,
             handleStartInstall(c, n) \/ handleShowInfo(c, n) \/ handleShowManifest(c, n)
      PROVE  FALSE
  <2>1. ASSUME NEW pc, NEW req, NEW chose, Click(c, Chain(pc, req, chose)), pc # "submit" PROVE FALSE
    <3>1. Chain(pc, req, chose).pc # "submit"
      BY <2>1 DEF Chain
    <3> QED
      BY <1>1, <2>1, <3>1 DEF Click
  <2>2. CASE handleStartInstall(c, n)
    BY <2>1, <2>2 DEF handleStartInstall
  <2>3. CASE handleShowInfo(c, n)
    BY <2>1, <2>3 DEF handleShowInfo
  <2>4. CASE handleShowManifest(c, n)
    BY <2>1, <2>4 DEF handleShowManifest
  <2> QED
    BY <1>6, <2>2, <2>3, <2>4
<1>7. ASSUME NEW c \in Slots, handleRefreshRepos(c) \/ handleUninstall(c) PROVE FALSE
  <2> DEFINE x == [Stream("uninstall", Request(dialogs["uninstall"].name, Latest, FALSE, 0), NoRequest)
                     EXCEPT !.purge = purge, !.asked = ticked]
             y == Stream("refresh", NoRequest, NoRequest)
  <2>1. x.pc # "submit" /\ y.pc # "submit"
    BY DEF Stream
  <2> HIDE DEF x, y
  <2>2. chains' = [chains EXCEPT ![c] = x] \/ chains' = [chains EXCEPT ![c] = y]
    BY <1>7 DEF handleRefreshRepos, handleUninstall, Click, x, y
  <2> QED
    BY <1>1, <2>1, <2>2
<1>8. ASSUME NEW c \in Slots, SelectVersion(c) \/ PreviewContinue(c) \/ onStartFresh(c) \/ onReuse(c)
      PROVE  FALSE
  <2>1. ASSUME NEW k, NEW pc, NEW req, NEW chose, Proceed(c, k, pc, req, chose), pc # "submit" PROVE FALSE
    BY <1>1, <2>1 DEF Proceed, Chain
  <2> QED
    BY <1>8, <2>1 DEF SelectVersion, PreviewContinue, onStartFresh, onReuse
<1>9. ASSUME NEW c \in Slots, StreamStep(c) PROVE FALSE
  BY <1>2, <1>9 DEF StreamStep
<1>10. ASSUME \/ setPurgeVolumes \/ PickVersion \/ (\E k \in Kinds : Cancel(k))
              \/ (\E n \in Names : setUninstallConfirm(n))
              \/ \E f \in Flows : runOAuth(f) \/ FlowStarted(f) \/ FlowWakes(f) \/ FlowPolled(f)
       PROVE  FALSE
  BY <1>2, <1>10 DEF setPurgeVolumes, PickVersion, Cancel, setUninstallConfirm, runOAuth, FlowStarted,
     FlowWakes, FlowPolled, FlowStill
<1> QED
  BY <1>3, <1>4, <1>5, <1>6, <1>7, <1>8, <1>9, <1>10, LeaveKeeps, ServerEndsKeeps DEF Next

\* A form is sent with a token of its own package, or of a package this opening of its dialog has
\* had to do with: no token of a dialog that was closed before it opened is sent.
THEOREM TokenAlwaysOfThisOpening == Spec => TokenOfThisOpening
<1>1. ASSUME Inv, [Next]_vars, NEW c \in Slots, chains[c].pc # "submit", chains'[c].pc = "submit"
      PROVE  chains'[c].token \in {"none", chains'[c].req.name} \cup mixed
  <2>1. CASE UNCHANGED vars
    BY <1>1, <2>1 DEF vars
  <2>2. CASE Next
    BY <1>1, <2>2, OnlySubmits, SubmitFacts
  <2> QED
    BY <1>1, <2>1, <2>2
<1>2. Inv /\ [Next]_vars =>
        [\A c \in Slots :
           chains[c].pc # "submit" /\ chains'[c].pc = "submit" =>
             chains'[c].token \in {"none", chains'[c].req.name} \cup mixed]_vars
  BY <1>1
<1> QED
  BY <1>2, AlwaysInv, PTL DEF Spec, TokenOfThisOpening
=============================================================================
