---------------------------- MODULE ProcessProofs ----------------------------
(***************************************************************************)
(* A disposed process slot stays free, a stopped loop pings once more at      *)
(* most, and slots are lost to failures only, for any number of applications, *)
(* pids, slots and runs.                                                    *)
(*                                                                         *)
(* LifecycleInv is inductive.  Every action but the server's changes the     *)
(* record of one application, so the steps share OneRun, which says what     *)
(* such a change must keep.                                                 *)
(***************************************************************************)
EXTENDS ProcessLifecycle, FiniteSetTheorems, TLAPS

USE SlotAssumption

(* Before any run there is nothing to violate.                                *)
LEMMA LifecycleInitially == Init => LifecycleInv
<1> SUFFICES ASSUME Init PROVE LifecycleInv
  OBVIOUS
<1>1. NoRun \in Run
  BY DEF NoRun, Run
<1>2. TypeOK
  BY <1>1 DEF Init, TypeOK
<1>3. \A a \in App : RunOK(a)
  BY DEF Init, RunOK, NoRun
<1> QED
  BY <1>2, <1>3 DEF Init, LifecycleInv, Provenance, LateOK, DisposedStaysFree

(* One application's record changes to k, which is well-formed and of the    *)
(* same run or of the next; the rest of the state may change in its favour.  *)
LEMMA OneRun ==
  ASSUME LifecycleInv, NEW a \in App, NEW k \in Run,
         app' = [app EXCEPT ![a] = k],
         RunOK(a)',
         k.nth >= app[a].nth,
         rows' \subseteq Row, clean' \subseteq Row,
         late' \subseteq [op : {"create", "delete"}, row : Row],
         \A r \in (rows' \cup clean') \ (rows \cup clean) : r.by = a /\ r.nth <= k.nth,
         \A r \in clean' \ clean : r.by = a,
         \A q \in late' \ late :
           /\ q.row.by = a /\ q.row.nth <= k.nth
           /\ q.op = "create" => q.row \notin clean' /\ k.main = "off",
         \A q \in late : q.op = "create" /\ q.row.by = a =>
           q.row \notin clean' \ clean /\ (q.row = k.row => k.main = "off"),
         clean' \cap rows' = {}
  PROVE  LifecycleInv'
<1> USE DEF LifecycleInv
<1>1. TypeOK'
  BY DEF TypeOK
<1>2. app'[a] = k /\ \A b \in App \ {a} : app'[b] = app[b]
  BY DEF TypeOK
<1>3. \A b \in App : app[b].nth \in Nat /\ app'[b].nth \in Nat /\ app'[b].nth >= app[b].nth
  BY <1>2 DEF TypeOK, Run
<1>4. ASSUME NEW b \in App PROVE RunOK(b)'
  <2>1. CASE b = a
    BY <2>1
  <2>2. CASE b # a
    <3>1. app'[b] = app[b] /\ RunOK(b)
      BY <1>2, <2>2
    <3>2. app[b].main = "create" => app[b].row.by = b
      <4>1. app[b].nth \in Nat
        BY <1>3
      <4> QED
        BY <3>1, <4>1 DEF RunOK
    <3>3. app[b].main = "create" => app[b].row \notin clean'
      BY <2>2, <3>1, <3>2 DEF RunOK
    <3> QED
      BY <3>1, <3>3 DEF RunOK
  <2> QED
    BY <2>1, <2>2
<1>5. Provenance'
  <2> SUFFICES ASSUME NEW r \in rows' \cup clean' PROVE r.nth <= app'[r.by].nth
    BY DEF Provenance
  <2>1. r \in Row /\ r.by \in App /\ r.nth \in Nat
    BY DEF Row
  <2>2. CASE r \in rows \cup clean
    BY <1>3, <2>1, <2>2 DEF Provenance
  <2>3. CASE r \notin rows \cup clean
    BY <1>2, <2>3
  <2> QED
    BY <2>2, <2>3
<1>6. LateOK'
  <2> SUFFICES ASSUME NEW q \in late'
               PROVE  /\ q.row.nth <= app'[q.row.by].nth
                      /\ q.op = "create" =>
                           /\ q.row \notin clean'
                           /\ q.row = app'[q.row.by].row => app'[q.row.by].main = "off"
    BY DEF LateOK
  <2>1. q.row \in Row /\ q.row.by \in App /\ q.row.nth \in Nat
    BY DEF Row
  <2>2. CASE q \in late
    <3>1. q.row.nth <= app'[q.row.by].nth
      BY <1>3, <2>1, <2>2 DEF LateOK
    <3>2. CASE q.row.by = a
      BY <1>2, <2>2, <3>1, <3>2 DEF LateOK
    <3>3. CASE q.row.by # a
      BY <1>2, <2>1, <2>2, <3>1, <3>3 DEF LateOK
    <3> QED
      BY <3>2, <3>3
  <2>3. CASE q \notin late
    BY <1>2, <2>3
  <2> QED
    BY <2>2, <2>3
<1> QED
  BY <1>1, <1>4, <1>5, <1>6 DEF DisposedStaysFree

(* The row of a run that has one, and what the main thread's place says of it. *)
LEMMA CurrentRow ==
  ASSUME LifecycleInv, NEW a \in App, app[a].main # "off"
  PROVE  /\ app[a] \in Run /\ app[a].nth \in Nat /\ app[a].nth > 0
         /\ app[a].row \in Row /\ app[a].row.by = a /\ app[a].row.nth = app[a].nth
<1>1. app[a] \in Run /\ app[a].nth \in Nat
  BY DEF LifecycleInv, TypeOK, Run
<1> QED
  BY <1>1 DEF LifecycleInv, RunOK

(* A step of the loop, or of stop(), moves neither the main thread nor its row. *)
LEMMA LoopMoves ==
  ASSUME LifecycleInv, NEW a \in App, NEW k \in Run,
         app' = [app EXCEPT ![a] = k],
         k.main = app[a].main, k.row = app[a].row, k.nth = app[a].nth,
         RunOK(a)', UNCHANGED <<rows, late, clean>>
  PROVE  LifecycleInv'
<1>1. /\ rows \subseteq Row /\ clean \subseteq Row
      /\ late \subseteq [op : {"create", "delete"}, row : Row]
      /\ app[a].nth \in Nat
  BY DEF LifecycleInv, TypeOK, Run
<1>2. \A q \in late : q.op = "create" /\ q.row.by = a =>
        (q.row = k.row => k.main = "off")
  BY DEF LifecycleInv, LateOK
<1>3. clean' \cap rows' = {}
  BY DEF LifecycleInv, DisposedStaysFree
<1>4. /\ rows' \subseteq Row /\ clean' \subseteq Row
      /\ late' \subseteq [op : {"create", "delete"}, row : Row]
      /\ k.nth >= app[a].nth
  BY <1>1
<1>5. /\ (rows' \cup clean') \ (rows \cup clean) = {}
      /\ clean' \ clean = {} /\ late' \ late = {}
  OBVIOUS
<1>6. \A q \in late : q.op = "create" /\ q.row.by = a =>
        q.row \notin clean' \ clean /\ (q.row = k.row => k.main = "off")
  BY <1>2, <1>5
<1> QED
  BY <1>3, <1>4, <1>5, <1>6, OneRun

(* The main thread's own steps. *)

(* A new run has a row of its own number.                                     *)
LEMMA StartStep ==
  ASSUME LifecycleInv, NEW a \in App, NEW p \in Pid, Start(a, p)
  PROVE  LifecycleInv'
<1> DEFINE n == app[a].nth + 1
           r == [by |-> a, nth |-> n, pid |-> p]
           k == [NoRun EXCEPT !.main = "create", !.nth = n, !.row = r]
<1>1. app' = [app EXCEPT ![a] = k] /\ UNCHANGED <<rows, late, clean>>
  BY DEF Start
<1>2. app[a] \in Run /\ app[a].nth \in Nat /\ n \in Nat \ {0}
  BY DEF LifecycleInv, TypeOK, Run
<1>3. r \in Row /\ r.by = a /\ r.nth = n
  BY <1>2 DEF Row
<1>4. /\ k \in Run /\ k.main = "create" /\ k.loop = "off" /\ k.stop = FALSE
      /\ k.row = r /\ k.nth = n /\ k.after = 0
  <2>1. NoRun \in Run /\ NoRun.loop = "off" /\ NoRun.stop = FALSE /\ NoRun.after = 0
    BY DEF NoRun, Run
  <2> HIDE DEF n, r
  <2> QED
    BY <1>2, <1>3, <2>1 DEF Run
<1>5. r \notin clean
  BY <1>2, <1>3 DEF LifecycleInv, Provenance
<1>6. app'[a] = k
  BY <1>1 DEF LifecycleInv, TypeOK
<1>7. RunOK(a)'
  <2> HIDE DEF n, r, k
  <2> QED
    BY <1>1, <1>2, <1>3, <1>4, <1>5, <1>6 DEF RunOK
<1>8. \A q \in late : q.op = "create" /\ q.row.by = a =>
        q.row \notin clean' \ clean /\ (q.row = k.row => k.main = "off")
  BY <1>1, <1>2, <1>3, <1>4 DEF LifecycleInv, LateOK
<1>9. /\ rows' \subseteq Row /\ clean' \subseteq Row
      /\ late' \subseteq [op : {"create", "delete"}, row : Row]
      /\ clean' \cap rows' = {}
  BY <1>1 DEF LifecycleInv, TypeOK, DisposedStaysFree
<1>10. /\ (rows' \cup clean') \ (rows \cup clean) = {}
       /\ clean' \ clean = {} /\ late' \ late = {}
  BY <1>1
<1>11. k.nth >= app[a].nth
  BY <1>2, <1>4
<1> HIDE DEF k
<1> QED
  BY <1>1, <1>4, <1>7, <1>8, <1>9, <1>10, <1>11, OneRun

(* A step that ends the main thread's request: where it goes on, and whether  *)
(* the flag is set, is all that changes in the record.                        *)
LEMMA MainMoves ==
  ASSUME LifecycleInv, NEW a \in App, app[a].main # "off",
         NEW where \in {"off", "body", "delete", "failed"},
         NEW st \in BOOLEAN, NEW lp \in {app[a].loop, "off"},
         app' = [app EXCEPT ![a] = [@ EXCEPT !.main = where, !.stop = st, !.loop = lp]],
         app[a].stop => st,
         where \in {"delete", "failed"} => st,
         rows' \subseteq rows \cup (IF where = "body" THEN {app[a].row} ELSE {}),
         clean' \subseteq clean \cup (IF where = "off" /\ app[a].main = "delete"
                                      THEN {app[a].row} ELSE {}),
         clean' \cap rows' = {},
         late' \subseteq late \cup
           (IF app[a].main = "create" /\ where = "off"
            THEN {[op |-> "create", row |-> app[a].row]}
            ELSE {[op |-> "delete", row |-> app[a].row]}),
         where # "off" => app[a].main = "create" \/ app[a].main \in {"body", "failed", "delete"}
  PROVE  LifecycleInv'
<1> DEFINE r == app[a].row
           k == [app[a] EXCEPT !.main = where, !.stop = st, !.loop = lp]
<1>1. /\ app[a] \in Run /\ app[a].nth \in Nat /\ app[a].nth > 0
      /\ r \in Row /\ r.by = a /\ r.nth = app[a].nth
  BY CurrentRow
<1>2. /\ k \in Run /\ k.main = where /\ k.stop = st /\ k.loop = lp
      /\ k.row = r /\ k.nth = app[a].nth /\ k.after = app[a].after
  BY <1>1 DEF Run
<1>3. app' = [app EXCEPT ![a] = k]
  OBVIOUS
<1>4. app'[a] = k
  BY <1>3 DEF LifecycleInv, TypeOK
<1>5. RunOK(a)
  BY DEF LifecycleInv
<1>6. RunOK(a)'
  BY <1>1, <1>2, <1>4, <1>5 DEF RunOK
<1>7. /\ rows \subseteq Row /\ clean \subseteq Row
      /\ late \subseteq [op : {"create", "delete"}, row : Row]
  BY DEF LifecycleInv, TypeOK
<1>8. /\ rows' \subseteq Row /\ clean' \subseteq Row
      /\ late' \subseteq [op : {"create", "delete"}, row : Row]
  BY <1>1, <1>7
<1>9. /\ \A s \in (rows' \cup clean') \ (rows \cup clean) : s.by = a /\ s.nth <= k.nth
      /\ \A s \in clean' \ clean : s.by = a
  BY <1>1, <1>2
<1>10. ASSUME NEW q \in late' \ late
       PROVE  /\ q.row.by = a /\ q.row.nth <= k.nth
              /\ q.op = "create" => q.row \notin clean' /\ k.main = "off"
  <2>1. q.row = r /\ (q.op = "create" => app[a].main = "create" /\ where = "off")
    OBVIOUS
  <2>2. app[a].main = "create" => r \notin clean'
    BY <1>1, <1>5 DEF RunOK
  <2> QED
    BY <1>1, <1>2, <2>1, <2>2
<1>11. ASSUME NEW q \in late, q.op = "create", q.row.by = a
       PROVE  q.row \notin clean' \ clean /\ (q.row = k.row => k.main = "off")
  <2>1. q.row # r
    BY <1>1, <1>11 DEF LifecycleInv, LateOK
  <2> QED
    BY <1>2, <2>1
<1>12. k.nth >= app[a].nth
  BY <1>1, <1>2
<1> HIDE DEF k
<1> QED
  BY <1>2, <1>3, <1>6, <1>8, <1>9, <1>10, <1>11, <1>12, OneRun

(* The end of a create, one way or another.                                   *)
LEMMA CreateSteps ==
  ASSUME LifecycleInv, NEW a \in App, Created(a) \/ Refused(a) \/ CreateLost(a)
  PROVE  LifecycleInv'
<1> DEFINE K(where) == [app[a] EXCEPT !.main = where, !.stop = app[a].stop,
                                      !.loop = app[a].loop]
<1>1. app[a].main = "create" /\ app[a] \in Run /\ app[a].stop \in BOOLEAN
  BY CurrentRow DEF Created, Refused, CreateLost, Run
<1>2. \A where : [app[a] EXCEPT !.main = where] = K(where)
  BY <1>1 DEF Run
<1>3. ~app[a].stop \/ app[a].stop
  OBVIOUS
<1>4. CASE Created(a)
  <2>1. app' = [app EXCEPT ![a] = K("body")]
    BY <1>2, <1>4 DEF Created, Main
  <2>2. clean' \cap rows' = {}
    BY <1>1, <1>4 DEF Created, LifecycleInv, RunOK, DisposedStaysFree
  <2> QED
    BY <1>1, <1>4, <2>1, <2>2, MainMoves DEF Created
<1>5. CASE Refused(a)
  <2>1. app' = [app EXCEPT ![a] = K("off")]
    BY <1>2, <1>5 DEF Refused, Main
  <2>2. clean' \cap rows' = {}
    BY <1>5 DEF Refused, LifecycleInv, DisposedStaysFree
  <2> QED
    BY <1>1, <1>5, <2>1, <2>2, MainMoves DEF Refused
<1>6. CASE CreateLost(a)
  <2>1. app' = [app EXCEPT ![a] = K("off")]
    BY <1>2, <1>6 DEF CreateLost, Main
  <2>2. clean' \cap rows' = {}
    BY <1>6 DEF CreateLost, LifecycleInv, DisposedStaysFree
  <2> QED
    BY <1>1, <1>6, <2>1, <2>2, MainMoves DEF CreateLost
<1> QED
  BY <1>4, <1>5, <1>6

(* dispose() and the end of its delete.                                       *)
LEMMA DisposeSteps ==
  ASSUME LifecycleInv, NEW a \in App, Dispose(a) \/ Deleted(a) \/ DeleteFailed(a)
  PROVE  LifecycleInv'
<1> DEFINE K(where, st) == [app[a] EXCEPT !.main = where, !.stop = st,
                                          !.loop = app[a].loop]
<1>1. app[a].main # "off" /\ app[a] \in Run /\ app[a].stop \in BOOLEAN
  BY CurrentRow DEF Dispose, Deleted, DeleteFailed, Run
<1>2. \A where : [app[a] EXCEPT !.main = where] = K(where, app[a].stop)
  BY <1>1 DEF Run
<1>3. \A where, st : [app[a] EXCEPT !.main = where, !.stop = st] = K(where, st)
  BY <1>1 DEF Run
<1>4. app[a].main \in {"delete", "failed"} => app[a].stop
  BY DEF LifecycleInv, RunOK
<1>5. clean \cap rows = {}
  BY DEF LifecycleInv, DisposedStaysFree
<1>6. CASE Dispose(a)
  <2>1. app' = [app EXCEPT ![a] = K("delete", TRUE)]
    BY <1>3, <1>6 DEF Dispose
  <2> QED
    BY <1>1, <1>5, <1>6, <2>1, MainMoves DEF Dispose
<1>7. CASE Deleted(a)
  <2>1. app' = [app EXCEPT ![a] = K("off", app[a].stop)]
    BY <1>2, <1>7 DEF Deleted, Main
  <2>2. clean' \cap rows' = {}
    BY <1>5, <1>7 DEF Deleted
  <2> QED
    BY <1>1, <1>7, <2>1, <2>2, MainMoves DEF Deleted
<1>8. CASE DeleteFailed(a)
  <2>1. app' = [app EXCEPT ![a] = K("failed", app[a].stop)]
    BY <1>2, <1>8 DEF DeleteFailed, Main
  <2>2. app[a].stop
    BY <1>4, <1>8 DEF DeleteFailed
  <2> QED
    BY <1>1, <1>5, <1>8, <2>1, <2>2, MainMoves DEF DeleteFailed
<1> QED
  BY <1>6, <1>7, <1>8

(* The loop's steps and stop(). *)

(* The steps of the loop, and stop(), leave the rows alone.                   *)
LEMMA LoopSteps ==
  ASSUME LifecycleInv, NEW a \in App, StartLoop(a) \/ LoopStep(a) \/ Stop(a)
  PROVE  LifecycleInv'
<1>1. /\ app \in [App -> Run] /\ app[a] \in Run /\ RunOK(a)
  BY DEF LifecycleInv, TypeOK
<1>2. ASSUME NEW how \in {"check", "ping", "sleep", "returned", "raised"},
             app' = [app EXCEPT ![a].loop = how],
             UNCHANGED <<rows, late, clean>>,
             app[a].main # "create", app[a].nth > 0,
             how = "ping" => app[a].after = 0
      PROVE  LifecycleInv'
  <2> DEFINE k == [app[a] EXCEPT !.loop = how]
  <2>1. /\ k \in Run /\ k.main = app[a].main /\ k.row = app[a].row /\ k.loop = how
        /\ k.nth = app[a].nth /\ k.stop = app[a].stop /\ k.after = app[a].after
    BY <1>1 DEF Run
  <2>2. app' = [app EXCEPT ![a] = k] /\ app'[a] = k
    BY <1>1, <1>2
  <2>3. RunOK(a)'
    BY <1>1, <1>2, <2>1, <2>2 DEF RunOK, Run
  <2> HIDE DEF k
  <2> QED
    BY <1>2, <2>1, <2>2, <2>3, LoopMoves
<1>3. app[a].loop # "off" => app[a].main # "create" /\ app[a].nth > 0
  BY <1>1 DEF RunOK, Run
<1>4. CASE StartLoop(a)
  <2>1. app[a].nth > 0
    BY <1>1, <1>4 DEF StartLoop, RunOK, Run
  <2> QED
    BY <1>2, <1>4, <2>1 DEF StartLoop, Loop
<1>5. CASE Check(a)
  <2>1. ~app[a].stop => app[a].after = 0
    BY <1>1 DEF RunOK, Run
  <2>2. CASE app[a].stop
    BY <1>2, <1>3, <1>5, <2>2 DEF Check, Loop
  <2>3. CASE ~app[a].stop
    BY <1>2, <1>3, <1>5, <2>1, <2>3 DEF Check, Loop
  <2> QED
    BY <2>2, <2>3
<1>6. CASE Sleep(a)
  BY <1>2, <1>3, <1>6 DEF Sleep, Loop
<1>7. CASE Pinged(a)
  <2>1. PICK how \in {"sleep", "raised"} :
          app' = [app EXCEPT ![a] = [@ EXCEPT !.loop = how, !.after = AfterStop(a)]]
    BY <1>7 DEF Pinged
  <2>2. app[a].loop = "ping" /\ UNCHANGED <<rows, late, clean>>
    BY <1>7 DEF Pinged
  <2>3. app[a].after = 0
    BY <1>1, <2>2 DEF RunOK, Run
  <2> DEFINE f == IF app[a].stop THEN 1 ELSE 0
             k == [app[a] EXCEPT !.loop = how, !.after = f]
  <2>4. app' = [app EXCEPT ![a] = k]
    <3>1. f = AfterStop(a)
      BY <2>3 DEF AfterStop
    <3> HIDE DEF f
    <3> QED
      BY <2>1, <3>1
  <2>5. /\ k \in Run /\ k.main = app[a].main /\ k.row = app[a].row /\ k.loop = how
        /\ k.nth = app[a].nth /\ k.stop = app[a].stop /\ k.after = f
    <3>1. f \in 0..2
      OBVIOUS
    <3> HIDE DEF f
    <3> QED
      BY <1>1, <3>1 DEF Run
  <2>6. app'[a] = k
    BY <1>1, <2>4
  <2>7. RunOK(a)'
    BY <1>1, <1>3, <2>2, <2>5, <2>6 DEF RunOK, Run
  <2> HIDE DEF k
  <2> QED
    BY <2>2, <2>4, <2>5, <2>7, LoopMoves
<1>8. CASE Stop(a)
  <2> DEFINE k == [app[a] EXCEPT !.stop = TRUE]
  <2>1. /\ k \in Run /\ k.main = app[a].main /\ k.row = app[a].row /\ k.loop = app[a].loop
        /\ k.nth = app[a].nth /\ k.stop = TRUE /\ k.after = app[a].after
    BY <1>1 DEF Run
  <2>2. app' = [app EXCEPT ![a] = k] /\ app'[a] = k
    BY <1>1, <1>8 DEF Stop
  <2>3. app[a].main = "body" /\ UNCHANGED <<rows, late, clean>>
    BY <1>8 DEF Stop
  <2>4. RunOK(a)'
    BY <1>1, <2>1, <2>2, <2>3 DEF RunOK, Run
  <2> HIDE DEF k
  <2> QED
    BY <2>1, <2>2, <2>3, <2>4, LoopMoves
<1> QED
  BY <1>4, <1>5, <1>6, <1>7, <1>8 DEF LoopStep

(* The application dies. *)
LEMMA CrashStep ==
  ASSUME LifecycleInv, NEW a \in App, Crash(a)
  PROVE  LifecycleInv'
<1>1. app \in [App -> Run] /\ app[a] \in Run /\ RunOK(a)
  BY DEF LifecycleInv, TypeOK
<1>2. clean \cap rows = {}
  BY DEF LifecycleInv, DisposedStaysFree
<1> DEFINE k == [app[a] EXCEPT !.main = "off", !.stop = app[a].stop, !.loop = "off"]
<1>3. [app[a] EXCEPT !.main = "off", !.loop = "off"] = k
  BY <1>1 DEF Run
<1>4. app' = [app EXCEPT ![a] = k] /\ UNCHANGED <<rows, clean>>
  BY <1>3 DEF Crash
<1>5. CASE app[a].main # "off"
  <2>1. app[a].stop \in BOOLEAN
    BY <1>1 DEF Run
  <2> QED
    BY <1>2, <1>4, <1>5, <2>1, MainMoves DEF Crash
<1>6. CASE app[a].main = "off"
  <2>1. late' = late
    BY <1>6 DEF Crash
  <2>2. /\ k \in Run /\ k.main = app[a].main /\ k.row = app[a].row /\ k.loop = "off"
        /\ k.nth = app[a].nth /\ k.stop = app[a].stop /\ k.after = app[a].after
    BY <1>1, <1>6 DEF Run
  <2>3. app'[a] = k
    BY <1>1, <1>4
  <2>4. RunOK(a)'
    BY <1>1, <1>4, <1>6, <2>2, <2>3 DEF RunOK, Run
  <2> HIDE DEF k
  <2> QED
    BY <1>4, <2>1, <2>2, <2>4, LoopMoves
<1> QED
  BY <1>5, <1>6

(* The server's steps. *)
LEMMA ServerSteps ==
  ASSUME LifecycleInv,
         \/ \E q \in late : LateCreate(q) \/ LateDelete(q)
         \/ \E r \in rows : Remove(r)
  PROVE  LifecycleInv'
<1>1. /\ UNCHANGED <<app, clean>> /\ late' \subseteq late
      /\ \A r \in rows' \ rows :
           \E q \in late : q.op = "create" /\ q.row = r
  BY DEF LateCreate, LateDelete, Remove
<1>2. \A r \in rows' \ rows : r \in Row /\ r.nth <= app[r.by].nth /\ r \notin clean
  BY <1>1 DEF LifecycleInv, TypeOK, LateOK
<1>3. TypeOK'
  BY <1>1, <1>2 DEF LifecycleInv, TypeOK
<1>4. \A a \in App : RunOK(a)'
  BY <1>1 DEF LifecycleInv, RunOK
<1>5. Provenance'
  BY <1>1, <1>2 DEF LifecycleInv, Provenance
<1>6. LateOK'
  BY <1>1 DEF LifecycleInv, LateOK
<1>7. DisposedStaysFree'
  BY <1>1, <1>2 DEF LifecycleInv, DisposedStaysFree
<1> QED
  BY <1>3, <1>4, <1>5, <1>6, <1>7 DEF LifecycleInv

(* Every step keeps the invariant.                                            *)
LEMMA LifecycleStep == LifecycleInv /\ [Next]_vars => LifecycleInv'
<1> SUFFICES ASSUME LifecycleInv, [Next]_vars PROVE LifecycleInv'
  OBVIOUS
<1>1. CASE UNCHANGED vars
  BY <1>1 DEF vars, LifecycleInv, TypeOK, RunOK, Provenance, LateOK, DisposedStaysFree
<1>2. ASSUME NEW a \in App, \E p \in Pid : Start(a, p) PROVE LifecycleInv'
  BY <1>2, StartStep
<1>3. ASSUME NEW a \in App, Created(a) \/ Refused(a) \/ CreateLost(a) PROVE LifecycleInv'
  BY <1>3, CreateSteps
<1>4. ASSUME NEW a \in App, StartLoop(a) \/ LoopStep(a) \/ Stop(a) PROVE LifecycleInv'
  BY <1>4, LoopSteps
<1>5. ASSUME NEW a \in App, Dispose(a) \/ Deleted(a) \/ DeleteFailed(a) PROVE LifecycleInv'
  BY <1>5, DisposeSteps
<1>6. ASSUME NEW a \in App, Crash(a) PROVE LifecycleInv'
  BY <1>6, CrashStep
<1>7. CASE \/ \E q \in late : LateCreate(q) \/ LateDelete(q)
           \/ \E r \in rows : Remove(r)
  BY <1>7, ServerSteps
<1> QED
  BY <1>1, <1>2, <1>3, <1>4, <1>5, <1>6, <1>7 DEF Next

(* Runs, rows and stray requests stay consistent: the inductive invariant.   *)
THEOREM Lifecycle == Spec => []LifecycleInv
<1>1. Init => LifecycleInv
  BY LifecycleInitially
<1>2. LifecycleInv /\ [Next]_vars => LifecycleInv'
  BY LifecycleStep
<1> QED
  BY <1>1, <1>2, PTL DEF Spec

(* A slot whose dispose() returned is never taken again by that row.         *)
THEOREM SlotStaysFree == Spec => []DisposedStaysFree
<1>1. LifecycleInv => DisposedStaysFree
  BY DEF LifecycleInv
<1> QED
  BY <1>1, Lifecycle, PTL

(* After stop(), a loop gets the answer of one more ping at most.            *)
THEOREM LastPing == Spec => []OnePingAfterStop
<1>1. LifecycleInv => OnePingAfterStop
  BY DEF LifecycleInv, RunOK, OnePingAfterStop
<1> QED
  BY <1>1, Lifecycle, PTL

-----------------------------------------------------------------------------
(* Why a create is refused. *)

(* No two runs that are not over have one pid: the operating system sees to   *)
(* it when they start.                                                      *)
PidsDiffer ==
  \A a, b \in App :
    a # b /\ app[a].main # "off" /\ app[b].main # "off" => app[a].row.pid # app[b].row.pid

(* Steps but Start keep the row of every run, and bring none back from "off". *)
LEMMA RowsKept ==
  ASSUME LifecycleInv, [Next]_vars,
         NEW a \in App, ~\E p \in Pid : Start(a, p)
  PROVE  app'[a].row = app[a].row /\ (app[a].main = "off" => app'[a].main = "off")
<1>1. app \in [App -> Run] /\ RunOK(a)
  BY DEF LifecycleInv, TypeOK
<1>2. CASE UNCHANGED <<rows, late, app, clean>> \/ UNCHANGED app
  BY <1>2
<1>3. ASSUME NEW b \in App, b # a,
             \/ \E p \in Pid : Start(b, p)
             \/ Created(b) \/ Refused(b) \/ CreateLost(b)
             \/ StartLoop(b) \/ LoopStep(b)
             \/ Stop(b) \/ Dispose(b) \/ Deleted(b) \/ DeleteFailed(b)
             \/ Crash(b)
      PROVE  app'[a] = app[a]
  BY <1>1, <1>3
  DEF Start, Created, Refused, CreateLost, StartLoop, LoopStep, Check, Pinged, Sleep, Stop,
      Dispose, Deleted, DeleteFailed, Crash, Main, Loop
<1>4. CASE Created(a) \/ Refused(a) \/ CreateLost(a) \/ Deleted(a) \/ DeleteFailed(a)
  BY <1>1, <1>4 DEF Created, Refused, CreateLost, Deleted, DeleteFailed, Main, Run
<1>5. CASE StartLoop(a) \/ Check(a) \/ Sleep(a)
  BY <1>1, <1>5 DEF StartLoop, Check, Sleep, Loop, Run
<1>6. CASE Stop(a) \/ Dispose(a)
  BY <1>1, <1>6 DEF Stop, Dispose, Run
<1>7. CASE Pinged(a)
  BY <1>1, <1>7 DEF Pinged, Run
<1>8. CASE Crash(a)
  BY <1>1, <1>8 DEF Crash, Run
<1>9. CASE \/ \E q \in late : LateCreate(q) \/ LateDelete(q)
           \/ \E r \in rows : Remove(r)
  BY <1>9 DEF LateCreate, LateDelete, Remove
<1> QED
  BY <1>2, <1>3, <1>4, <1>5, <1>6, <1>7, <1>8, <1>9 DEF Next, vars, LoopStep

(* Runs that are there have different pids.                                   *)
LEMMA PidsStep ==
  ASSUME LifecycleInv, PidsDiffer, [Next]_vars
  PROVE  PidsDiffer'
<1>1. CASE ~\E a \in App, p \in Pid : Start(a, p)
  BY <1>1, RowsKept DEF PidsDiffer
<1>2. ASSUME NEW a \in App, NEW p \in Pid, Start(a, p)
      PROVE  PidsDiffer'
  <2> DEFINE k == [NoRun EXCEPT !.main = "create", !.nth = app[a].nth + 1,
                                !.row = [by |-> a, nth |-> app[a].nth + 1, pid |-> p]]
  <2>1. app' = [app EXCEPT ![a] = k]
    BY <1>2 DEF Start
  <2>2. app \in [App -> Run]
    BY DEF LifecycleInv, TypeOK
  <2>3. k.row.pid = p
    BY DEF NoRun
  <2> HIDE DEF k
  <2>4. app'[a].row.pid = p /\ \A b \in App \ {a} : app'[b] = app[b]
    BY <2>1, <2>2, <2>3
  <2>5. \A b \in App \ {a} : app[b].main # "off" => app[b].row.pid # p
    BY <1>2 DEF Start
  <2> QED BY <2>4, <2>5 DEF PidsDiffer
<1> QED BY <1>1, <1>2

(* Rows that are held are held by applications, each by one of its own.       *)
LEMMA HeldRowsFewer ==
  ASSUME LifecycleInv, IsFiniteSet(App), NEW a \in App, app[a].main = "create",
         Orphans = {}
  PROVE  Cardinality(rows) < Cardinality(App)
<1> DEFINE holder == [r \in rows |-> r.by]
<1>1. \A r \in rows : r \in Row /\ r.by \in App /\ Holds(r.by, r)
  BY DEF LifecycleInv, TypeOK, Row, Orphans
<1>2. \A r \in rows : r.by # a
  BY <1>1 DEF Holds
<1>3. holder \in Injection(rows, App \ {a})
  BY <1>1, <1>2 DEF Injection, IsInjective, Holds
<1>4. /\ IsFiniteSet(App \ {a}) /\ Cardinality(App) \in Nat
      /\ Cardinality(App \ {a}) = Cardinality(App) - 1
  BY FS_RemoveElement, FS_CardinalityType
<1>5. IsFiniteSet(rows) /\ Cardinality(rows) <= Cardinality(App) - 1
  BY <1>3, <1>4, FS_Injection
<1> QED BY <1>4, <1>5, FS_CardinalityType

(* With a slot for every application, a create is refused only when a row is   *)
(* there that no run holds: one died, lost its create or gave up on dispose().  *)
THEOREM RefusalMeansLeak ==
  ASSUME IsFiniteSet(App), Cardinality(App) <= MaxSlots
  PROVE  Spec => RefusedOnlyAfterLeak
<1>1. Init => PidsDiffer
  BY DEF Init, PidsDiffer, NoRun
<1>2. LifecycleInv /\ PidsDiffer /\ [Next]_vars => PidsDiffer'
  BY PidsStep
<1>3. ASSUME LifecycleInv, PidsDiffer, NEW a \in App, Refused(a)
      PROVE  Orphans \ clean # {}
  <2> SUFFICES ASSUME Orphans = {} PROVE FALSE
    BY <1>3 DEF LifecycleInv, DisposedStaysFree, Orphans
  <2>1. app[a].main = "create"
    BY <1>3 DEF Refused
  <2>2. CASE PidTaken(app[a].row)
    <3>1. PICK s \in rows : s.pid = app[a].row.pid
      BY <2>2 DEF PidTaken
    <3>2. s.by \in App /\ Holds(s.by, s)
      BY <1>3 DEF LifecycleInv, TypeOK, Row, Orphans
    <3> QED BY <1>3, <2>1, <3>1, <3>2 DEF Holds, PidsDiffer
  <2>3. CASE ~SlotFree
    <3>1. Cardinality(rows) < Cardinality(App)
      BY <1>3, <2>1, HeldRowsFewer
    <3>2. Cardinality(App) \in Nat /\ MaxSlots \in Nat
      BY FS_CardinalityType
    <3>3. \A r \in rows : r.by \in App /\ Holds(r.by, r)
      BY <1>3 DEF LifecycleInv, TypeOK, Row, Orphans
    <3>4. Cardinality(rows) \in Nat
      <4>1. [r \in rows |-> r.by] \in Injection(rows, App)
        BY <3>3 DEF Injection, IsInjective, Holds
      <4> QED BY <4>1, FS_Injection, FS_CardinalityType
    <3> QED BY <2>3, <3>1, <3>2, <3>4 DEF SlotFree
  <2> QED BY <1>3, <2>2, <2>3 DEF Refused
<1>4. LifecycleInv /\ PidsDiffer =>
        [\A a \in App : Refused(a) => Orphans \ clean # {}]_vars
  BY <1>3
<1> QED
  BY <1>1, <1>2, <1>4, Lifecycle, PTL DEF Spec, RefusedOnlyAfterLeak
=============================================================================
