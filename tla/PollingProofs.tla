---------------------------- MODULE PollingProofs ----------------------------
(***************************************************************************)
(* usePolling keeps the promise of a polled view, for any set of queries   *)
(* and any number of requests: the generation invariant OnlyTheLast is     *)
(* inductive together with the type invariant, and makes every step of the *)
(* hook a step of FreshView or a step FreshView does not see.              *)
(***************************************************************************)
EXTENDS Polling, TLAPS

PollInv == PollTypeOK /\ OnlyTheLast

\* The state after the first render satisfies the invariant.
LEMMA InitPollInv == Init => PollInv
<1> SUFFICES ASSUME Init PROVE PollInv
  OBVIOUS
<1>1. PICK q \in Queries : Mount(q)
  BY DEF Init
<1> DEFINE first == [gen |-> 1, query |-> q, read |-> 0]
<1>a. first \in Flight /\ first.gen = 1 /\ first.query = q /\ first.read = 0
  BY DEF Flight
<1>b. [query |-> q, read |-> 0] \in [query : Queries, read : Nat]
  OBVIOUS
<1> HIDE DEF first
<1>2. PollTypeOK
  <2>1. flights \subseteq Flight
    BY <1>1, <1>a DEF Mount, first
  <2>2. data \in [query : Queries, read : Nat] /\ loading \in BOOLEAN /\ failed \in BOOLEAN
    BY <1>1, <1>b DEF Mount
  <2> QED
    BY <1>1, <2>1, <2>2 DEF Init, Mount, PollTypeOK
<1>3. loading <=> \E f \in flights : f.gen = gen
  BY <1>1, <1>a DEF Mount, first
<1> QED
  BY <1>1, <1>2, <1>3, <1>a DEF Init, Mount, PollInv, OnlyTheLast, first

\* A request of a new generation is the only one of it, so it alone may be shown.
LEMMA SendPollInv ==
  ASSUME PollInv, NEW q \in Queries, Send(q), query' = q,
         UNCHANGED <<version, data, failed>>
  PROVE  PollInv'
<1>1. PollTypeOK'
  BY DEF Send, PollInv, PollTypeOK, Flight
<1>2. \A f \in flights' : f.gen <= gen' /\ (f.gen = gen' => f = [gen |-> gen + 1, query |-> q, read |-> 0])
  BY DEF Send, PollInv, PollTypeOK, OnlyTheLast, Flight
<1>3. \A f, g \in flights' : f.gen = g.gen => f = g
  BY <1>2 DEF Send, PollInv, PollTypeOK, OnlyTheLast, Flight
<1>4. loading' <=> \E f \in flights' : f.gen = gen'
  <2>1. [gen |-> gen + 1, query |-> q, read |-> 0] \in flights' /\ gen' = gen + 1 /\ loading' = TRUE
    BY DEF Send
  <2>2. \E f \in flights' : f.gen = gen'
    BY <2>1
  <2> QED
    BY <2>1, <2>2
<1>5. \A f \in flights' : f.gen = gen' => f.query = query' /\ f.read \in {0} \cup (since'..version')
  BY <1>2
<1>6. since' <= version'
  BY DEF Send, PollInv, PollTypeOK
<1> QED
  BY <1>1, <1>2, <1>3, <1>4, <1>5, <1>6 DEF PollInv, OnlyTheLast

\* The server reads for a request: the request stays what it was, at the version of now.
LEMMA ServePollInv ==
  ASSUME PollInv, NEW f \in flights, Serve(f)
  PROVE  PollInv'
<1> DEFINE g == [f EXCEPT !.read = version]
<1>1. /\ g \in Flight /\ g.gen = f.gen /\ g.query = f.query /\ g.read = version
      /\ flights' = (flights \ {f}) \cup {g}
  BY DEF Serve, PollInv, PollTypeOK, Flight
<1> HIDE DEF g
<1>2. PollTypeOK'
  BY <1>1 DEF Serve, PollInv, PollTypeOK, Flight
<1>3. \A x, y \in flights' : x.gen = y.gen => x = y
  BY <1>1 DEF Serve, PollInv, PollTypeOK, OnlyTheLast, Flight
<1>4. (\E x \in flights' : x.gen = gen') <=> (\E x \in flights : x.gen = gen)
  BY <1>1 DEF Serve
<1>5. \A x \in flights' : /\ x.gen <= gen'
                          /\ x.gen = gen' => x.query = query' /\ x.read \in {0} \cup (since'..version')
  BY <1>1 DEF Serve, PollInv, PollTypeOK, OnlyTheLast, Flight
<1> QED
  BY <1>2, <1>3, <1>4, <1>5 DEF Serve, PollInv, PollTypeOK, OnlyTheLast

\* A request that is gone was the last one exactly if the view stops loading.
LEMMA EndPollInv ==
  ASSUME PollInv, NEW f \in flights, flights' = flights \ {f},
         UNCHANGED <<version, query, gen, since>>,
         data' \in [query : Queries, read : Nat], failed' \in BOOLEAN,
         loading' = (IF f.gen = gen THEN FALSE ELSE loading)
  PROVE  PollInv'
<1>1. PollTypeOK'
  BY DEF PollInv, PollTypeOK
<1>2. loading' <=> \E x \in flights' : x.gen = gen'
  <2>1. CASE f.gen = gen
    BY <2>1 DEF PollInv, OnlyTheLast
  <2>2. CASE f.gen # gen
    BY <2>2 DEF PollInv, OnlyTheLast
  <2> QED
    BY <2>1, <2>2
<1> QED
  BY <1>1, <1>2 DEF PollInv, OnlyTheLast

\* Every step keeps the invariant.
LEMMA NextPollInv == PollInv /\ [Next]_pollVars => PollInv'
<1> SUFFICES ASSUME PollInv, [Next]_pollVars PROVE PollInv'
  OBVIOUS
<1>1. CASE UNCHANGED pollVars
  BY <1>1 DEF pollVars, PollInv, PollTypeOK, OnlyTheLast, Flight
<1>2. CASE Change
  BY <1>2 DEF Change, PollInv, PollTypeOK, OnlyTheLast, Flight
<1>3. CASE Tick
  BY <1>3, SendPollInv DEF Tick, PollInv, PollTypeOK
<1>4. ASSUME NEW q \in Queries, Remount(q) PROVE PollInv'
  <2> DEFINE first == [gen |-> 1, query |-> q, read |-> 0]
  <2>a. first \in Flight /\ first.gen = 1 /\ first.query = q /\ first.read = 0
    BY DEF Flight
  <2>b. [query |-> q, read |-> 0] \in [query : Queries, read : Nat]
    OBVIOUS
  <2> HIDE DEF first
  <2>1. PollTypeOK'
    BY <1>4, <2>a, <2>b DEF Remount, PollInv, PollTypeOK, Flight, first
  <2>2. loading' <=> \E f \in flights' : f.gen = gen'
    BY <1>4, <2>a DEF Remount, first
  <2> QED
    BY <1>4, <2>1, <2>2, <2>a DEF Remount, PollInv, PollTypeOK, OnlyTheLast, first
<1>5. ASSUME NEW q \in Queries, ChangeQuery(q) PROVE PollInv'
  BY <1>5, SendPollInv DEF ChangeQuery
<1>6. ASSUME NEW f \in flights, Serve(f) PROVE PollInv'
  BY <1>6, ServePollInv
<1>7. ASSUME NEW f \in flights, Deliver(f) PROVE PollInv'
  <2>1. f \in Flight /\ data \in [query : Queries, read : Nat] /\ failed \in BOOLEAN
    BY DEF PollInv, PollTypeOK
  <2>2. /\ data' \in [query : Queries, read : Nat] /\ failed' \in BOOLEAN
        /\ loading' = (IF f.gen = gen THEN FALSE ELSE loading)
    <3>1. CASE Current(f)
      <4>1. [query |-> f.query, read |-> f.read] \in [query : Queries, read : Nat]
        BY <2>1 DEF Flight
      <4> QED
        BY <1>7, <3>1, <4>1 DEF Deliver, Current
    <3>2. CASE ~Current(f)
      BY <1>7, <2>1, <3>2 DEF Deliver, Current
    <3> QED
      BY <3>1, <3>2
  <2> QED
    BY <1>7, <2>2, EndPollInv DEF Deliver
<1>8. ASSUME NEW f \in flights, NEW c \in BOOLEAN, Fail(f, c) PROVE PollInv'
  <2>1. f \in Flight /\ data \in [query : Queries, read : Nat] /\ failed \in BOOLEAN
    BY DEF PollInv, PollTypeOK
  <2>2. /\ data' \in [query : Queries, read : Nat] /\ failed' \in BOOLEAN
        /\ loading' = (IF f.gen = gen THEN FALSE ELSE loading)
    <3>1. CASE Current(f) /\ c
      <4>1. [query |-> f.query, read |-> 0] \in [query : Queries, read : Nat]
        BY <2>1 DEF Flight
      <4> QED
        BY <1>8, <3>1, <4>1 DEF Fail, Current
    <3>2. CASE Current(f) /\ ~c
      BY <1>8, <2>1, <3>2 DEF Fail, Current, Flight
    <3>3. CASE ~Current(f)
      BY <1>8, <2>1, <3>3 DEF Fail, Current
    <3> QED
      BY <3>1, <3>2, <3>3
  <2> QED
    BY <1>8, <2>2, EndPollInv DEF Fail
<1> QED
  BY <1>1, <1>2, <1>3, <1>4, <1>5, <1>6, <1>7, <1>8 DEF Next

\* The view is loading exactly while the request of its generation is in flight, and that request
\* asks what the view asks: the counter of usePolling does its work.
THEOREM GenerationInvariant == Spec => []OnlyTheLast
<1>1. PollInv => OnlyTheLast
  BY DEF PollInv
<1> QED
  BY <1>1, InitPollInv, NextPollInv, PTL DEF Spec

-----------------------------------------------------------------------------
\* The first render is a view that has been asked.
LEMMA InitView == Init => View!Init
  BY DEF Init, Mount, View!Init, View!Nothing

\* An answer of the current generation is shown as FreshView shows one; another changes nothing
\* FreshView sees.
LEMMA DeliverView ==
  ASSUME PollInv, NEW f \in flights, Deliver(f)
  PROVE  View!Show \/ UNCHANGED View!viewVars
<1>1. CASE Current(f)
  <2>1. loading /\ f.query = query /\ f.read \in since..version
    BY <1>1 DEF Deliver, Current, PollInv, OnlyTheLast
  <2> QED
    BY <1>1, <2>1 DEF Deliver, View!Show
<1>2. CASE ~Current(f)
  BY <1>2 DEF Deliver, View!viewVars
<1> QED
  BY <1>1, <1>2

\* So does an error.
LEMMA FailView ==
  ASSUME PollInv, NEW f \in flights, NEW c \in BOOLEAN, Fail(f, c)
  PROVE  View!Fail(c) \/ UNCHANGED View!viewVars
<1>1. CASE Current(f)
  <2>1. loading /\ f.query = query
    BY <1>1 DEF Current, PollInv, OnlyTheLast
  <2>2. CASE c
    BY <1>1, <2>1, <2>2 DEF Fail, View!Fail, View!Nothing
  <2>3. CASE ~c
    BY <1>1, <2>1, <2>3 DEF Fail, View!Fail
  <2> QED
    BY <2>2, <2>3
<1>2. CASE ~Current(f)
  BY <1>2 DEF Fail, View!viewVars
<1> QED
  BY <1>1, <1>2

\* Every step of the hook is a step of the view or invisible to it.
LEMMA NextView == PollInv /\ [Next]_pollVars => [View!Next]_(View!viewVars)
<1> SUFFICES ASSUME PollInv, [Next]_pollVars PROVE View!Next \/ UNCHANGED View!viewVars
  OBVIOUS
<1>1. CASE UNCHANGED pollVars
  BY <1>1 DEF pollVars, View!viewVars
<1>2. CASE Change
  BY <1>2 DEF Change, View!Change, View!Next
<1>3. CASE Tick
  BY <1>3 DEF Tick, Send, View!Ask, View!Next, PollInv, PollTypeOK
<1>4. ASSUME NEW q \in Queries, Remount(q) PROVE View!Next
  BY <1>4 DEF Remount, View!Open, View!Nothing, View!Next
<1>5. ASSUME NEW q \in Queries, ChangeQuery(q) PROVE View!Next
  BY <1>5 DEF ChangeQuery, Send, View!Ask, View!Next
<1>6. ASSUME NEW f \in flights, Serve(f) PROVE UNCHANGED View!viewVars
  BY <1>6 DEF Serve, View!viewVars
<1>7. ASSUME NEW f \in flights, Deliver(f) PROVE View!Next \/ UNCHANGED View!viewVars
  BY <1>7, DeliverView DEF View!Next
<1>8. ASSUME NEW f \in flights, NEW c \in BOOLEAN, Fail(f, c)
      PROVE  View!Next \/ UNCHANGED View!viewVars
  BY <1>8, FailView DEF View!Next
<1> QED
  BY <1>1, <1>2, <1>3, <1>4, <1>5, <1>6, <1>7, <1>8 DEF Next

\* usePolling implements the polled view, in whatever order the answers arrive.
THEOREM PollingIsFresh == Spec => IsFreshView
<1> QED
  BY InitPollInv, NextPollInv, InitView, NextView, PTL DEF Spec, IsFreshView, View!Spec

-----------------------------------------------------------------------------
\* A step keeps what is shown an answer to the question asked.
LEMMA NextShows == PollInv /\ ShowsTheAnswer /\ [Next]_pollVars => ShowsTheAnswer'
<1> SUFFICES ASSUME PollInv, ShowsTheAnswer, [Next]_pollVars PROVE ShowsTheAnswer'
  OBVIOUS
<1>1. CASE UNCHANGED pollVars
  BY <1>1 DEF pollVars, ShowsTheAnswer
<1>2. CASE Change
  BY <1>2 DEF Change, ShowsTheAnswer, PollInv, PollTypeOK
<1>3. CASE Tick
  BY <1>3 DEF Tick, Send, ShowsTheAnswer
<1>4. ASSUME NEW q \in Queries, Remount(q) \/ ChangeQuery(q) PROVE ShowsTheAnswer'
  BY <1>4 DEF Remount, ChangeQuery, Send, ShowsTheAnswer
<1>5. ASSUME NEW f \in flights, Serve(f) PROVE ShowsTheAnswer'
  BY <1>5 DEF Serve, ShowsTheAnswer
<1>6. ASSUME NEW f \in flights, Deliver(f) PROVE ShowsTheAnswer'
  BY <1>6 DEF Deliver, Current, ShowsTheAnswer, PollInv, OnlyTheLast
<1>7. ASSUME NEW f \in flights, NEW c \in BOOLEAN, Fail(f, c) PROVE ShowsTheAnswer'
  <2>1. CASE Current(f)
    BY <1>7, <2>1 DEF Fail, Current, ShowsTheAnswer, PollInv, OnlyTheLast
  <2>2. CASE ~Current(f)
    BY <1>7, <2>2 DEF Fail, ShowsTheAnswer
  <2> QED
    BY <2>1, <2>2
<1> QED
  BY <1>1, <1>2, <1>3, <1>4, <1>5, <1>6, <1>7 DEF Next

\* Once the last request is answered, the view shows an answer to what it asks for, no older than
\* the question, although earlier answers may still arrive.
THEOREM AnswersOnly == Spec => []ShowsTheAnswer
<1>1. Init => ShowsTheAnswer
  BY DEF Init, Mount, ShowsTheAnswer
<1> QED
  BY <1>1, InitPollInv, NextPollInv, NextShows, PTL DEF Spec
=============================================================================
