-------------------------- MODULE CaddySupervisor --------------------------
(***************************************************************************)
(* The supervisor of a caddy child process (caddysup/supervisor.go), which *)
(* the per-package network controller and the shared ingress both drive.   *)
(*                                                                         *)
(* Its callers hold a lock of their own around every call                  *)
(* (Controller.mu, ingress Server.mu), so there is one call at a time.     *)
(* Concurrent with it run the child, which may exit at any moment, and one *)
(* reaper goroutine per child, which waits for the exit and only then      *)
(* takes the supervisor's mutex.                                           *)
(*                                                                         *)
(* The contents of a Caddyfile are an element of Content.                  *)
(***************************************************************************)
EXTENDS Naturals, FiniteSets

CONSTANTS
  Child,    \* identities of child processes, reused once reaped
  NoChild,  \* proc is nil
  Content,  \* rendered Caddyfiles
  Unsent    \* lastSent is nil

ASSUME CaddyAssumption == NoChild \notin Child /\ Unsent \notin Content

VARIABLES
  proc,      \* the child the supervisor tracks
  lastSent,  \* the content last written
  children,  \* the child processes that exist
  doomed,    \* those Shutdown sent SIGKILL to
  reaping,   \* children whose reaper goroutine has not finished
  call,      \* where the current Reload is; "ok" and "failed" when it returned
  want       \* the content it was called with

cvars == <<proc, lastSent, children, doomed, reaping, call, want>>

CaddyTypeOK ==
  /\ proc \in Child \cup {NoChild}
  /\ lastSent \in Content \cup {Unsent}
  /\ children \subseteq Child
  /\ doomed \subseteq Child
  /\ reaping \subseteq Child
  /\ call \in {"idle", "write", "spawn", "reload", "ok", "failed"}
  /\ want \in Content \cup {Unsent}

CaddyInit ==
  /\ proc = NoChild
  /\ lastSent = Unsent
  /\ children = {}
  /\ doomed = {}
  /\ reaping = {}
  /\ call = "idle"
  /\ want = Unsent

(* Reload, up to the comparison with what was last written. *)
Reload(content) ==
  /\ call = "idle"
  /\ want' = content
  /\ call' = IF lastSent = content THEN "ok" ELSE "write"
  /\ UNCHANGED <<proc, lastSent, children, doomed, reaping>>

(* The file is replaced; lastSent and needSpawn follow under the mutex.  A *)
(* write error returns before lastSent is set.                             *)
WriteCaddyfile ==
  /\ call = "write"
  /\ \/ /\ lastSent' = want
        /\ call' = IF proc = NoChild THEN "spawn" ELSE "reload"
     \/ /\ call' = "failed"
        /\ UNCHANGED lastSent
  /\ UNCHANGED <<proc, children, doomed, reaping, want>>

(* Start, which may fail to execute the binary.  The reaper goroutine is    *)
(* the child's from the beginning.                                          *)
Start(ch) ==
  /\ call = "spawn"
  /\ ch \notin children \cup reaping
  /\ \/ /\ proc' = ch
        /\ children' = children \cup {ch}
        /\ doomed' = doomed \ {ch}
        /\ reaping' = reaping \cup {ch}
        /\ call' = "ok"
     \/ /\ call' = "failed"
        /\ UNCHANGED <<proc, children, doomed, reaping>>
  /\ UNCHANGED <<lastSent, want>>

(* The retry loop around `caddy reload`: some child's admin API answers, or *)
(* the deadline passes.                                                     *)
RunReload ==
  /\ call = "reload"
  /\ \/ children # {} /\ call' = "ok"
     \/ call' = "failed"
  /\ UNCHANGED <<proc, lastSent, children, doomed, reaping, want>>

(* The caller takes the result. *)
Return ==
  /\ call \in {"ok", "failed"}
  /\ call' = "idle"
  /\ want' = Unsent
  /\ UNCHANGED <<proc, lastSent, children, doomed, reaping>>

(* Shutdown: lastSent is not cleared. *)
Shutdown ==
  /\ call = "idle"
  /\ proc' = NoChild
  /\ doomed' = IF proc = NoChild THEN doomed ELSE doomed \cup {proc}
  /\ UNCHANGED <<lastSent, children, reaping, call, want>>

(* A child exits, killed or not. *)
Exit(ch) ==
  /\ ch \in children
  /\ children' = children \ {ch}
  /\ UNCHANGED <<proc, lastSent, doomed, reaping, call, want>>

(* Mutant: the reaper does not compare. *)
ReapChild_Any(ch) ==
  /\ ch \in reaping \ children
  /\ proc' = NoChild
  /\ reaping' = reaping \ {ch}
  /\ UNCHANGED <<lastSent, children, doomed, call, want>>

(* The reaper forgets the child only while it is still the tracked one. *)
ReapChild(ch) ==
  /\ ch \in reaping \ children
  /\ proc' = IF proc = ch THEN NoChild ELSE proc
  /\ reaping' = reaping \ {ch}
  /\ UNCHANGED <<lastSent, children, doomed, call, want>>

ReloadStep == WriteCaddyfile \/ (\E ch \in Child : Start(ch)) \/ RunReload

CaddyNext ==
  \/ \E content \in Content : Reload(content)
  \/ ReloadStep \/ Return \/ Shutdown
  \/ \E ch \in Child : Exit(ch) \/ ReapChild(ch)

CaddySpec == CaddyInit /\ [][CaddyNext]_cvars

(* "It holds a single child process at a time" (supervisor.go:65): a child  *)
(* that was not killed is the tracked one, whatever exits, reloads and      *)
(* shutdowns overlap with the reapers of earlier children.  A second child  *)
(* would hold the ports and never be killed.                                *)
OneChild == \A ch \in children \ doomed : ch = proc

(* The inductive invariant behind it: the tracked child was never killed    *)
(* and its reaper is still to come.                                         *)
CaddyInv ==
  /\ CaddyTypeOK
  /\ OneChild
  /\ children \subseteq reaping
  /\ proc # NoChild => proc \in reaping /\ proc \notin doomed
  /\ call = "spawn" => proc = NoChild

(* "If caddy is not running yet Reload writes the config and spawns it"     *)
(* (supervisor.go:160): a Reload that returns nil leaves a child behind.    *)
ReloadSpawns == [][call # "ok" /\ call' = "ok" => proc' # NoChild]_cvars
=============================================================================
