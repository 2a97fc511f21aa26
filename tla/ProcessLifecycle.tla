-------------------------- MODULE ProcessLifecycle --------------------------
(***************************************************************************)
(* Process rows and ProcessHeartbeatScheduler (src/tamga/client.py): each   *)
(* application creates a process row, which takes one of max_processes      *)
(* slots, pings it from a loop thread, and disposes of it.  The server      *)
(* deletes no row by itself.                                               *)
(*                                                                         *)
(* Two threads share the scheduler: the one that creates, stops and         *)
(* disposes ("main"), and run_forever ("loop").  The applications share the *)
(* slots.  A request and its answer are one step; one that is given up may   *)
(* still be carried out later ("late").                                    *)
(***************************************************************************)
EXTENDS Naturals, FiniteSets

CONSTANTS
  App,        \* applications, each with one process at a time
  Pid,
  MaxSlots,   \* policy.max_processes
  NoRow,
  MaxRuns     \* bound: runs of one application

Row == [by : App, nth : Nat \ {0}, pid : Pid]

ASSUME SlotAssumption ==
  /\ MaxSlots \in Nat
  /\ NoRow \notin Row
  /\ MaxRuns \in Nat

VARIABLES
  rows,    \* the server's process rows
  late,    \* requests given up on that may still be carried out
  app,     \* app[a]: the current run of a
  clean    \* history: the rows of which dispose() returned

vars == <<rows, late, app, clean>>

(*  main    off      no run, or the last one is over                       *)
(*          create   POST /processes is under way                          *)
(*          body     the row is there for the application to use           *)
(*          delete   in dispose(), after stop()                            *)
(*          failed   dispose() raised; it can be called again              *)
(*  loop    off, check, ping, sleep, or ended: returned, raised             *)
Run ==
  [main  : {"off", "create", "body", "delete", "failed"},
   loop  : {"off", "check", "ping", "sleep", "returned", "raised"},
   stop  : BOOLEAN,                \* _stop
   row   : Row \cup {NoRow},       \* the row asked for; its process_id
   nth   : Nat,
   after : 0..2]                   \* history: pings answered after stop(), 2 for more

TypeOK ==
  /\ rows \subseteq Row /\ clean \subseteq Row
  /\ late \subseteq [op : {"create", "delete"}, row : Row]
  /\ app \in [App -> Run]

NoRun == [main |-> "off", loop |-> "off", stop |-> FALSE, row |-> NoRow,
          nth |-> 0, after |-> 0]

Init ==
  /\ rows = {} /\ late = {} /\ clean = {}
  /\ app = [a \in App |-> NoRun]

Main(a, where) == app' = [app EXCEPT ![a].main = where]
Loop(a, where) == app' = [app EXCEPT ![a].loop = where]

Active == {"check", "ping", "sleep"}

Holds(a, r) == app[a].row = r /\ app[a].main \in {"body", "delete", "failed"}

Orphans == {r \in rows : ~Holds(r.by, r)}

-----------------------------------------------------------------------------
(* ProcessesClient. *)

(* An operating system gives no two running processes one pid. *)
Start(a, p) ==
  /\ app[a].main \in {"off", "failed"} /\ app[a].nth < MaxRuns
  /\ app[a].loop \notin Active
  /\ p \notin {app[b].row.pid : b \in {b \in App \ {a} : app[b].main # "off"}}
  /\ LET n == app[a].nth + 1
     IN  app' = [app EXCEPT ![a] = [NoRun EXCEPT !.main = "create", !.nth = n,
                                      !.row = [by |-> a, nth |-> n, pid |-> p]]]
  /\ UNCHANGED <<rows, late, clean>>

PidTaken(r) == \E s \in rows : s.pid = r.pid
SlotFree == Cardinality(rows) < MaxSlots

Created(a) ==
  /\ app[a].main = "create"
  /\ ~PidTaken(app[a].row) /\ SlotFree
  /\ rows' = rows \cup {app[a].row}
  /\ Main(a, "body")
  /\ UNCHANGED <<late, clean>>

(* PidTakenError or TooManyProcessesError. *)
Refused(a) ==
  /\ app[a].main = "create"
  /\ PidTaken(app[a].row) \/ ~SlotFree
  /\ Main(a, "off")
  /\ UNCHANGED <<rows, late, clean>>

(* Another failure: POST /processes is not repeated, and the id of the row  *)
(* it may have made is lost.                                                *)
CreateLost(a) ==
  /\ app[a].main = "create"
  /\ late' \in {late, late \cup {[op |-> "create", row |-> app[a].row]}}
  /\ Main(a, "off")
  /\ UNCHANGED <<rows, clean>>

-----------------------------------------------------------------------------
(* ProcessHeartbeatScheduler. *)

(* The application starts a thread on run_forever. *)
StartLoop(a) ==
  /\ app[a].main \in {"body", "delete", "failed"} /\ app[a].loop = "off"
  /\ Loop(a, "check")
  /\ UNCHANGED <<rows, late, clean>>

Check(a) ==
  /\ app[a].loop = "check"
  /\ Loop(a, IF app[a].stop THEN "returned" ELSE "ping")
  /\ UNCHANGED <<rows, late, clean>>

AfterStop(a) ==
  IF app[a].stop /\ app[a].after < 2 THEN app[a].after + 1 ELSE app[a].after

(* The ping is answered; NotFoundError and every other error leave the loop. *)
Pinged(a) ==
  /\ app[a].loop = "ping"
  /\ \E how \in {"sleep", "raised"} :
       /\ app[a].row \notin rows => how = "raised"
       /\ app' = [app EXCEPT ![a] = [@ EXCEPT !.loop = how, !.after = AfterStop(a)]]
  /\ UNCHANGED <<rows, late, clean>>

(* Mutated: the flag is looked at only before the first ping. *)
SleepUnchecked(a) ==
  /\ app[a].loop = "sleep"
  /\ Loop(a, "ping")
  /\ UNCHANGED <<rows, late, clean>>

Sleep(a) ==
  /\ app[a].loop = "sleep"
  /\ Loop(a, "check")
  /\ UNCHANGED <<rows, late, clean>>

LoopStep(a) == Check(a) \/ Pinged(a) \/ Sleep(a)

(* stop() alone. *)
Stop(a) ==
  /\ app[a].main = "body" /\ ~app[a].stop
  /\ app' = [app EXCEPT ![a].stop = TRUE]
  /\ UNCHANGED <<rows, late, clean>>

(* Mutated: dispose() forgets stop(). *)
DisposeUnstopped(a) ==
  /\ app[a].main \in {"body", "failed"}
  /\ Main(a, "delete")
  /\ UNCHANGED <<rows, late, clean>>

(* dispose(), or __exit__ however the body ended: stop(), then the DELETE. *)
Dispose(a) ==
  /\ app[a].main \in {"body", "failed"}
  /\ app' = [app EXCEPT ![a] = [@ EXCEPT !.main = "delete", !.stop = TRUE]]
  /\ UNCHANGED <<rows, late, clean>>

(* Mutated: every error of the DELETE is suppressed. *)
DeleteSwallowed(a) ==
  /\ app[a].main = "delete"
  /\ late' \in {late, late \cup {[op |-> "delete", row |-> app[a].row]}}
  /\ clean' = clean \cup {app[a].row}
  /\ Main(a, "off")
  /\ UNCHANGED rows

(* 204, or a 404 that dispose() suppresses. *)
Deleted(a) ==
  /\ app[a].main = "delete"
  /\ rows' = rows \ {app[a].row}
  /\ clean' = clean \cup {app[a].row}
  /\ Main(a, "off")
  /\ UNCHANGED late

(* Every other answer, or none, leaves dispose(). *)
DeleteFailed(a) ==
  /\ app[a].main = "delete"
  /\ late' \in {late, late \cup {[op |-> "delete", row |-> app[a].row]}}
  /\ Main(a, "failed")
  /\ UNCHANGED <<rows, clean>>

-----------------------------------------------------------------------------
(* The environment. *)

(* The application is killed, or ends without dispose(): both threads end,  *)
(* and a request under way may still arrive.                                *)
Crash(a) ==
  /\ app[a].main # "off" \/ app[a].loop \in Active
  /\ late' \in {late, late \cup
                 IF app[a].main = "create" THEN {[op |-> "create", row |-> app[a].row]}
                 ELSE IF app[a].main = "delete" THEN {[op |-> "delete", row |-> app[a].row]}
                 ELSE {}}
  /\ app' = [app EXCEPT ![a] = [@ EXCEPT !.main = "off", !.loop = "off"]]
  /\ UNCHANGED <<rows, clean>>

LateCreate(q) ==
  /\ q.op = "create" /\ ~PidTaken(q.row) /\ SlotFree
  /\ rows' = rows \cup {q.row}
  /\ late' = late \ {q}
  /\ UNCHANGED <<app, clean>>

LateDelete(q) ==
  /\ q.op = "delete"
  /\ rows' = rows \ {q.row}
  /\ late' = late \ {q}
  /\ UNCHANGED <<app, clean>>

(* An operator cleans up. *)
Remove(r) ==
  /\ rows' = rows \ {r}
  /\ UNCHANGED <<late, app, clean>>

Next ==
  \/ \E a \in App :
       \/ \E p \in Pid : Start(a, p)
       \/ Created(a) \/ Refused(a) \/ CreateLost(a)
       \/ StartLoop(a) \/ LoopStep(a)
       \/ Stop(a) \/ Dispose(a) \/ Deleted(a) \/ DeleteFailed(a)
       \/ Crash(a)
  \/ \E q \in late : LateCreate(q) \/ LateDelete(q)
  \/ \E r \in rows : Remove(r)

Spec == Init /\ [][Next]_vars

-----------------------------------------------------------------------------
(* Properties. *)

(* A slot whose dispose() returned is free for good: no request of any run,  *)
(* however late, brings the row back, and an error of the DELETE never        *)
(* passes for success.                                                      *)
DisposedStaysFree == clean \cap rows = {}

(* Slots do not creep away: with a slot for every application, a create is    *)
(* refused only when some run died, lost its create or gave up on dispose().  *)
RefusedOnlyAfterLeak ==
  [][\A a \in App : Refused(a) => Orphans \ clean # {}]_vars

(* After stop(), the loop gets the answer of one more ping at most.          *)
OnePingAfterStop == \A a \in App : app[a].after <= 1

(* The inductive strengthening behind DisposedStaysFree and OnePingAfterStop. *)

(* A run has a row of its own, and the loop and the flag follow the main      *)
(* thread; nothing disposed of is asked for again.                            *)
RunOK(a) ==
  LET k == app[a]
  IN  /\ k.nth > 0 => k.row \in Row /\ k.row.by = a /\ k.row.nth = k.nth
      /\ k.nth = 0 => k.main = "off" /\ k.loop = "off" /\ k.row = NoRow
      /\ k.main = "create" => k.loop = "off" /\ ~k.stop /\ k.row \notin clean
      /\ k.main \in {"delete", "failed"} => k.stop
      /\ k.after > 0 => k.stop /\ k.loop # "ping"
      /\ k.after <= 1

(* Rows come from runs that were started.                                     *)
Provenance == \A r \in rows \cup clean : r.nth <= app[r.by].nth

(* So do stray requests; a stray create is for a row that nobody holds and     *)
(* nobody disposed of.                                                        *)
LateOK ==
  \A q \in late :
    /\ q.row.nth <= app[q.row.by].nth
    /\ q.op = "create" => /\ q.row \notin clean
                          /\ q.row = app[q.row.by].row => app[q.row.by].main = "off"

LifecycleInv ==
  TypeOK /\ (\A a \in App : RunOK(a)) /\ Provenance /\ LateOK /\ DisposedStaysFree
=============================================================================
