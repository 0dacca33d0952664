--------------------------- MODULE DatabaseProofs ---------------------------
(***************************************************************************)
(* Proofs about the databases under the backend: what their ledgers of     *)
(* migrations record, whatever releases run over them at once; what their  *)
(* pools hand out; and what the table of agents comes to when agents, the  *)
(* watchdog and the poller of the registry write it.  For any number of    *)
(* readers, writers, handles, agents, challenges, polls and events.        *)
(***************************************************************************)
EXTENDS Database, RegistrySync, DataTheorems

\* The variables are functions of the processes and of the versions.
MigrationsTyped ==
    /\ engine \in {"runner", "migrator"}
    /\ ledger \in [Versions -> Texts \cup {NotApplied}]
    /\ schema \in [Versions -> Texts \cup {NotApplied}]
    /\ opener \in [Migrators -> [stage : {"off", "check", "list", "apply", "revert", "serving", "refused"},
                                 release : Releases, todo : SUBSET Versions]]
    /\ moved \in [Migrators -> SUBSET Versions]

\* What has no way down is in the schema only while its row is in the ledger.
OneWayIsRecorded ==
    \A v \in Versions : KindOf[v] = "oneway" /\ ledger[v] = NotApplied => schema[v] = NotApplied

\* A run has seen no drift but what other processes made since, and misses no file but those
\* it has still to apply or other processes reverted since.
RunsInStep ==
    \A p \in Migrators :
        /\ opener[p].stage \in {"list", "apply", "serving"} => Drifted(Files(p)) \subseteq moved[p]
        /\ opener[p].stage = "apply" => /\ opener[p].todo \subseteq DOMAIN Files(p)
                                        /\ Pending(Files(p)) \subseteq opener[p].todo \cup moved[p]
        /\ opener[p].stage = "serving" => Pending(Files(p)) \subseteq moved[p]

MigrationsIInv == MigrationsTyped /\ RecordedIsInForce /\ OneWayIsRecorded /\ RunsInStep

LEMMA FirstOfRun ==
  ASSUME MigrationsAssumption, NEW S \in SUBSET Versions, S # {}
  PROVE  Min(S) \in S
<1>1. S \subseteq Nat
  BY DEF MigrationsAssumption
<1>2. PICK m \in S : \A k \in S : m <= k
  BY <1>1, LeastExists
<1> QED
  BY <1>2 DEF Min

LEMMA FilesFacts ==
  ASSUME MigrationsAssumption, NEW r \in Releases
  PROVE  /\ DOMAIN Shipped[r] \subseteq Versions
         /\ \A v \in DOMAIN Shipped[r] : Shipped[r][v] \in Texts /\ Shipped[r][v] # NotApplied
BY DEF MigrationsAssumption, Texts

\* A step that leaves the ledger and the schema alone, and of the runs moves only that of p.
LEMMA RunMoves ==
  ASSUME MigrationsIInv, NEW p \in Migrators, NEW run \in [stage : {"off", "check", "list", "apply", "revert", "serving", "refused"}, release : Releases, todo : SUBSET Versions],
         UNCHANGED <<engine, ledger, schema>>,
         opener' = [opener EXCEPT ![p] = run],
         moved' \in [Migrators -> SUBSET Versions],
         \A q \in Migrators : q # p => moved'[q] = moved[q],
         run.stage \in {"list", "apply", "serving"} => Drifted(Shipped[run.release]) \subseteq moved'[p],
         run.stage = "apply" => /\ run.todo \subseteq DOMAIN Shipped[run.release]
                                /\ Pending(Shipped[run.release]) \subseteq run.todo \cup moved'[p],
         run.stage = "serving" => Pending(Shipped[run.release]) \subseteq moved'[p]
  PROVE  MigrationsIInv'
<1>1. MigrationsTyped'
  BY DEF MigrationsIInv, MigrationsTyped
<1>2. RecordedIsInForce' /\ OneWayIsRecorded'
  BY DEF MigrationsIInv, RecordedIsInForce, OneWayIsRecorded, Applied
<1>3. \A files : Drifted(files)' = Drifted(files) /\ Pending(files)' = Pending(files)
  BY DEF Drifted, Pending, Edited, Applied
<1>4. \A q \in Migrators : opener'[q] = IF q = p THEN run ELSE opener[q]
  BY DEF MigrationsIInv, MigrationsTyped
<1>5. RunsInStep'
  <2> SUFFICES ASSUME NEW q \in Migrators
               PROVE  /\ opener'[q].stage \in {"list", "apply", "serving"} => Drifted(Files(q)') \subseteq moved'[q]
                      /\ opener'[q].stage = "apply" => /\ opener'[q].todo \subseteq DOMAIN Files(q)'
                                                      /\ Pending(Files(q)') \subseteq opener'[q].todo \cup moved'[q]
                      /\ opener'[q].stage = "serving" => Pending(Files(q)') \subseteq moved'[q]
    BY <1>3 DEF RunsInStep, Drifted, Pending, Edited, Applied
  <2>1. CASE q = p
    BY <1>4, <2>1 DEF Files
  <2>2. CASE q # p
    <3>1. opener'[q] = opener[q] /\ moved'[q] = moved[q] /\ Files(q)' = Files(q)
      BY <1>4, <2>2 DEF Files
    <3> QED
      BY <3>1 DEF MigrationsIInv, RunsInStep
  <2> QED
    BY <2>1, <2>2
<1> QED
  BY <1>1, <1>2, <1>5 DEF MigrationsIInv

\* A step of p that writes the row of v, and moves p's run to `run`.
LEMMA RowMoves ==
  ASSUME MigrationsAssumption, MigrationsIInv, NEW p \in Migrators, NEW v \in Versions,
         NEW text \in Texts \cup {NotApplied}, NEW here \in Texts \cup {NotApplied}, NEW todo \in SUBSET Versions,
         engine' = engine, ledger' = [ledger EXCEPT ![v] = text], schema' = [schema EXCEPT ![v] = here],
         opener' = Stage(p, opener[p].stage, todo), moved' = Others(p, v),
         KindOf[v] # "table" /\ text # NotApplied => here = text,
         KindOf[v] = "oneway" /\ text = NotApplied => here = NotApplied,
         opener[p].stage \in {"apply", "revert"},
         opener[p].stage = "apply" => /\ v \in DOMAIN Files(p) /\ text = Files(p)[v] /\ text # NotApplied
                                      /\ todo = opener[p].todo \ {v}
  PROVE  MigrationsIInv'
<1>1. \A q \in Migrators : opener'[q] = IF q = p THEN [opener[p] EXCEPT !.todo = todo] ELSE opener[q]
  BY DEF MigrationsIInv, MigrationsTyped, Stage
<1>2. \A q \in Migrators : moved'[q] = IF q = p THEN moved[q] ELSE moved[q] \cup {v}
  BY DEF Others
<1>3. MigrationsTyped'
  <2>1. ledger' \in [Versions -> Texts \cup {NotApplied}] /\ schema' \in [Versions -> Texts \cup {NotApplied}]
    BY DEF MigrationsIInv, MigrationsTyped
  <2>2. moved' \in [Migrators -> SUBSET Versions]
    BY DEF MigrationsIInv, MigrationsTyped, Others
  <2>3. opener' \in [Migrators -> [stage : {"off", "check", "list", "apply", "revert", "serving", "refused"},
                                   release : Releases, todo : SUBSET Versions]]
    <3> DEFINE Runs == [stage : {"off", "check", "list", "apply", "revert", "serving", "refused"},
                        release : Releases, todo : SUBSET Versions]
    <3>1. opener \in [Migrators -> Runs] /\ opener[p] \in Runs
      BY DEF MigrationsIInv, MigrationsTyped
    <3>2. [opener[p] EXCEPT !.stage = opener[p].stage, !.todo = todo] \in Runs
      BY <3>1
    <3>3. opener' = [opener EXCEPT ![p] = [opener[p] EXCEPT !.stage = opener[p].stage, !.todo = todo]]
      BY <3>1 DEF Stage
    <3>4. opener' \in [Migrators -> Runs]
      <4> HIDE DEF Runs
      <4> DEFINE run == [opener[p] EXCEPT !.stage = opener[p].stage, !.todo = todo]
      <4>1. run \in Runs /\ opener' = [opener EXCEPT ![p] = run]
        BY <3>2, <3>3
      <4> HIDE DEF run
      <4> QED
        BY <3>1, <4>1
    <3> QED
      BY <3>4
  <2> QED
    BY <2>1, <2>2, <2>3 DEF MigrationsIInv, MigrationsTyped
<1>4. \A w \in Versions : w # v => ledger'[w] = ledger[w] /\ schema'[w] = schema[w]
  BY DEF MigrationsIInv, MigrationsTyped
<1>5. ledger'[v] = text /\ schema'[v] = here
  BY DEF MigrationsIInv, MigrationsTyped
<1>6. RecordedIsInForce' /\ OneWayIsRecorded'
  BY <1>4, <1>5 DEF MigrationsIInv, RecordedIsInForce, OneWayIsRecorded, Applied
<1>7. \A files : /\ Drifted(files)' \subseteq Drifted(files) \cup {v}
                 /\ Pending(files)' \subseteq Pending(files) \cup {v} \cup (DOMAIN files \ Versions)
  BY <1>4 DEF Drifted, Pending, Edited, Applied
<1>8. RunsInStep'
  <2> SUFFICES ASSUME NEW q \in Migrators
               PROVE  /\ opener'[q].stage \in {"list", "apply", "serving"} => Drifted(Files(q))' \subseteq moved'[q]
                      /\ opener'[q].stage = "apply" => /\ opener'[q].todo \subseteq DOMAIN Files(q)'
                                                      /\ Pending(Files(q))' \subseteq opener'[q].todo \cup moved'[q]
                      /\ opener'[q].stage = "serving" => Pending(Files(q))' \subseteq moved'[q]
    BY DEF RunsInStep
  <2>1. Files(q)' = Files(q) /\ opener'[q].stage = opener[q].stage /\ DOMAIN Files(q) \subseteq Versions
    BY <1>1, FilesFacts DEF Files, MigrationsIInv, MigrationsTyped
  <2>2. Drifted(Files(q))' \subseteq Drifted(Files(q)) \cup {v} /\ Pending(Files(q))' \subseteq Pending(Files(q)) \cup {v}
    <3>1. Drifted(Files(q))' \subseteq Drifted(Files(q)) \cup {v}
      BY <1>4, <2>1 DEF Drifted, Edited, Applied
    <3>2. Pending(Files(q))' \subseteq Pending(Files(q)) \cup {v}
      BY <1>4, <2>1 DEF Pending, Applied
    <3> QED
      BY <3>1, <3>2
  <2>3. CASE q # p
    BY <1>1, <1>2, <2>1, <2>2, <2>3, ZenonT(40) DEF MigrationsIInv, RunsInStep
  <2>4. CASE q = p
    <3>1. CASE opener[p].stage = "apply"
      <4>1. v \notin Drifted(Files(p))' /\ v \notin Pending(Files(p))'
        BY <1>5, <2>1, <2>4, <3>1 DEF Drifted, Edited, Pending, Applied
      <4>2. moved'[p] = moved[p] /\ opener'[p].todo = opener[p].todo \ {v} /\ opener'[p].stage = "apply"
        BY <1>1, <1>2, <3>1 DEF MigrationsIInv, MigrationsTyped
      <4> QED
        BY <2>1, <2>2, <2>4, <3>1, <4>1, <4>2 DEF MigrationsIInv, RunsInStep
    <3>2. CASE opener[p].stage = "revert"
      BY <2>1, <2>4, <3>2
    <3> QED
      BY <3>1, <3>2
  <2> QED
    BY <2>3, <2>4
<1> QED
  BY <1>3, <1>6, <1>8, MigrationsIInv DEF MigrationsIInv

-----------------------------------------------------------------------------

LEMMA MigrationsStart == ASSUME MigrationsAssumption, MigrationsInit PROVE MigrationsIInv
<1>1. Min(Versions) \in Versions
  BY FirstOfRun DEF MigrationsAssumption
<1>2. Closed \in [stage : {"off", "check", "list", "apply", "revert", "serving", "refused"},
                  release : Releases, todo : SUBSET Versions]
  BY DEF MigrationsAssumption, Closed
<1>3. \A r \in Releases : Min(Versions) \in DOMAIN Shipped[r] => Shipped[r][Min(Versions)] \in Texts
  BY FilesFacts
<1>4. /\ schema \in [Versions -> Texts \cup {NotApplied}]
      /\ \A v \in Versions : KindOf[v] # "table" => schema[v] = NotApplied
  <2>1. CASE schema = [v \in Versions |-> NotApplied]
    BY <2>1
  <2>2. CASE schema # [v \in Versions |-> NotApplied]
    <3>1. PICK r \in Releases :
             /\ Min(Versions) \in DOMAIN Shipped[r] /\ KindOf[Min(Versions)] = "table"
             /\ schema = [v \in Versions |-> IF v = Min(Versions) THEN Shipped[r][v] ELSE NotApplied]
      BY <2>2 DEF MigrationsInit
    <3> QED
      BY <1>3, <3>1
  <2> QED
    BY <2>1, <2>2
<1>5. MigrationsTyped
  <2>1. ledger \in [Versions -> Texts \cup {NotApplied}] /\ engine \in {"runner", "migrator"}
    BY DEF MigrationsInit
  <2>2. moved \in [Migrators -> SUBSET Versions]
    BY DEF MigrationsInit
  <2>3. opener \in [Migrators -> [stage : {"off", "check", "list", "apply", "revert", "serving", "refused"},
                                  release : Releases, todo : SUBSET Versions]]
    BY <1>2 DEF MigrationsInit
  <2> QED
    BY <1>4, <2>1, <2>2, <2>3 DEF MigrationsTyped
<1>6. RecordedIsInForce /\ OneWayIsRecorded
  BY <1>4 DEF MigrationsInit, RecordedIsInForce, OneWayIsRecorded, Applied
<1>7. RunsInStep
  BY DEF MigrationsInit, RunsInStep, Closed
<1> QED
  BY <1>5, <1>6, <1>7 DEF MigrationsIInv

LEMMA LaunchStep ==
  ASSUME MigrationsAssumption, MigrationsIInv, NEW p \in Migrators, NEW r \in Releases, Launch(p, r)
  PROVE  MigrationsIInv'
<1> DEFINE run == [stage |-> "check", release |-> r, todo |-> {}]
<1>1. run \in [stage : {"off", "check", "list", "apply", "revert", "serving", "refused"},
               release : Releases, todo : SUBSET Versions]
  OBVIOUS
<1>2. moved' \in [Migrators -> SUBSET Versions] /\ \A q \in Migrators : q # p => moved'[q] = moved[q]
  BY DEF Launch, MigrationsIInv, MigrationsTyped
<1>3. opener' = [opener EXCEPT ![p] = run] /\ UNCHANGED <<engine, ledger, schema>>
  BY DEF Launch
<1>4. run.stage = "check"
  OBVIOUS
<1> HIDE DEF run
<1> QED
  BY <1>1, <1>2, <1>3, <1>4, RunMoves

LEMMA PlanStep ==
  ASSUME MigrationsAssumption, MigrationsIInv, NEW p \in Migrators, NEW r \in Releases,
         NEW to, NEW n, PlanRollback(p, r, to, n)
  PROVE  MigrationsIInv'
<1>1. PICK run : /\ opener' = [opener EXCEPT ![p] = run]
                 /\ run.stage \in {"refused", "revert"}
                 /\ run \in [stage : {"off", "check", "list", "apply", "revert", "serving", "refused"},
                             release : Releases, todo : SUBSET Versions]
  <2> DEFINE doomed == IF engine = "runner" THEN RunnerDoomed(Shipped[r], to, n) ELSE Newest(Applied, n)
             refused == engine = "runner" /\ \E v \in doomed : KindOf[v] = "oneway"
             run == [stage |-> IF refused THEN "refused" ELSE "revert",
                     release |-> r, todo |-> IF refused THEN {} ELSE doomed]
  <2>1. doomed \in SUBSET Versions
    BY DEF RunnerDoomed, Newest, Applied
  <2>2. opener' = [opener EXCEPT ![p] = run]
    BY DEF PlanRollback
  <2> HIDE DEF doomed
  <2>3. /\ run \in [stage : {"off", "check", "list", "apply", "revert", "serving", "refused"},
                    release : Releases, todo : SUBSET Versions]
        /\ run.stage \in {"refused", "revert"}
    BY <2>1
  <2> QED
    BY <2>2, <2>3
<1>2. moved' \in [Migrators -> SUBSET Versions] /\ \A q \in Migrators : q # p => moved'[q] = moved[q]
  BY DEF PlanRollback, MigrationsIInv, MigrationsTyped
<1>3. UNCHANGED <<engine, ledger, schema>>
  BY DEF PlanRollback
<1> QED
  BY <1>1, <1>2, <1>3, RunMoves

\* The steps of a run between its transactions.
LEMMA StageStep ==
  ASSUME MigrationsAssumption, MigrationsIInv, NEW p \in Migrators,
         CheckDrift(p) \/ ListPending(p) \/ ApplyFails(p) \/ Serve(p) \/ CloseDatabase(p)
  PROVE  MigrationsIInv'
<1>1. /\ opener[p] \in [stage : {"off", "check", "list", "apply", "revert", "serving", "refused"},
                        release : Releases, todo : SUBSET Versions]
      /\ moved \in [Migrators -> SUBSET Versions] /\ p \in DOMAIN opener
  BY DEF MigrationsIInv, MigrationsTyped
<1>2. UNCHANGED <<engine, ledger, schema, moved>>
  BY DEF CheckDrift, ListPending, ApplyFails, Serve, CloseDatabase
<1>3. DOMAIN Files(p) \subseteq Versions
  BY <1>1, FilesFacts DEF Files
<1>4. \A s, todo : Stage(p, s, todo) = [opener EXCEPT ![p] = [opener[p] EXCEPT !.stage = s, !.todo = todo]]
  BY <1>1 DEF Stage, MigrationsIInv, MigrationsTyped
<1>5. CASE CheckDrift(p)
  <2> DEFINE s == IF Drifted(Files(p)) = {} THEN "list" ELSE "refused"
             run == [opener[p] EXCEPT !.stage = s, !.todo = {}]
  <2>1. opener' = [opener EXCEPT ![p] = run]
    BY <1>4, <1>5 DEF CheckDrift
  <2>2. /\ run \in [stage : {"off", "check", "list", "apply", "revert", "serving", "refused"},
                    release : Releases, todo : SUBSET Versions]
        /\ run.stage \in {"list", "refused"} /\ run.release = opener[p].release
        /\ run.stage = "list" => Drifted(Files(p)) = {}
    BY <1>1
  <2> HIDE DEF run
  <2> QED
    BY <1>1, <1>2, <2>1, <2>2, RunMoves DEF Files
<1>6. CASE ListPending(p)
  <2> DEFINE run == [opener[p] EXCEPT !.stage = "apply", !.todo = Pending(Files(p))]
  <2>1. opener' = [opener EXCEPT ![p] = run]
    BY <1>4, <1>6 DEF ListPending
  <2>2. Pending(Files(p)) \subseteq DOMAIN Files(p)
    BY DEF Pending
  <2>3. /\ run \in [stage : {"off", "check", "list", "apply", "revert", "serving", "refused"},
                    release : Releases, todo : SUBSET Versions]
        /\ run.stage = "apply" /\ run.release = opener[p].release /\ run.todo = Pending(Files(p))
    BY <1>1, <1>3, <2>2
  <2>4. Drifted(Files(p)) \subseteq moved'[p]
    BY <1>2, <1>6 DEF ListPending, MigrationsIInv, RunsInStep
  <2> HIDE DEF run
  <2> QED
    BY <1>1, <1>2, <2>1, <2>2, <2>3, <2>4, RunMoves DEF Files
<1>7. CASE ApplyFails(p)
  <2> DEFINE run == [opener[p] EXCEPT !.stage = "refused", !.todo = opener[p].todo]
  <2>1. opener' = [opener EXCEPT ![p] = run]
    BY <1>4, <1>7 DEF ApplyFails
  <2>2. /\ run \in [stage : {"off", "check", "list", "apply", "revert", "serving", "refused"},
                    release : Releases, todo : SUBSET Versions]
        /\ run.stage = "refused"
    BY <1>1
  <2> HIDE DEF run
  <2> QED
    BY <1>1, <1>2, <2>1, <2>2, RunMoves
<1>8. CASE Serve(p)
  <2> DEFINE run == [opener[p] EXCEPT !.stage = "serving", !.todo = {}]
  <2>1. opener' = [opener EXCEPT ![p] = run]
    BY <1>4, <1>8 DEF Serve
  <2>2. /\ run \in [stage : {"off", "check", "list", "apply", "revert", "serving", "refused"},
                    release : Releases, todo : SUBSET Versions]
        /\ run.stage = "serving" /\ run.release = opener[p].release
    BY <1>1
  <2>3. Drifted(Files(p)) \subseteq moved'[p] /\ Pending(Files(p)) \subseteq moved'[p]
    BY <1>2, <1>8 DEF Serve, MigrationsIInv, RunsInStep
  <2> HIDE DEF run
  <2> QED
    BY <1>1, <1>2, <2>1, <2>2, <2>3, RunMoves DEF Files
<1>9. CASE CloseDatabase(p)
  <2>1. opener' = [opener EXCEPT ![p] = Closed]
    BY <1>9 DEF CloseDatabase
  <2>2. /\ Closed \in [stage : {"off", "check", "list", "apply", "revert", "serving", "refused"},
                       release : Releases, todo : SUBSET Versions]
        /\ Closed.stage = "off"
    BY DEF Closed, MigrationsAssumption
  <2> QED
    BY <1>1, <1>2, <2>1, <2>2, RunMoves
<1> QED
  BY <1>5, <1>6, <1>7, <1>8, <1>9

LEMMA ApplyNextStep ==
  ASSUME MigrationsAssumption, MigrationsIInv, NEW p \in Migrators, ApplyNext(p)
  PROVE  MigrationsIInv'
<1> DEFINE v == Min(opener[p].todo)
           here == IF schema[v] = NotApplied THEN Files(p)[v] ELSE schema[v]
           todo == opener[p].todo \ {v}
<1>1. /\ opener[p].todo \in SUBSET Versions /\ opener[p].todo # {} /\ opener[p].release \in Releases
      /\ opener[p].stage = "apply"
  BY DEF ApplyNext, MigrationsIInv, MigrationsTyped
<1>2. v \in opener[p].todo /\ v \in Versions
  BY <1>1, FirstOfRun
<1>3. v \in DOMAIN Files(p) /\ Files(p)[v] \in Texts /\ Files(p)[v] # NotApplied
  BY <1>1, <1>2, FilesFacts DEF Files, MigrationsIInv, RunsInStep
<1>4. schema[v] \in Texts \cup {NotApplied} /\ here \in Texts \cup {NotApplied}
  BY <1>2, <1>3 DEF MigrationsIInv, MigrationsTyped
<1>5. /\ ledger' = [ledger EXCEPT ![v] = Files(p)[v]] /\ schema' = UpSchema(v, Files(p)[v])
      /\ opener' = Stage(p, opener[p].stage, todo) /\ moved' = Others(p, v) /\ engine' = engine
      /\ ledger[v] = NotApplied /\ (KindOf[v] = "column" => schema[v] = NotApplied)
  BY <1>1, <1>2 DEF ApplyNext, Applies, Applied, UpRuns
<1>6. schema' = [schema EXCEPT ![v] = here]
  BY <1>2, <1>5 DEF UpSchema, MigrationsIInv, MigrationsTyped
<1>7. KindOf[v] # "table" => here = Files(p)[v]
  <2>1. KindOf[v] \in {"table", "column", "oneway"}
    BY <1>2 DEF MigrationsAssumption
  <2>2. KindOf[v] = "oneway" => schema[v] = NotApplied
    BY <1>2, <1>5 DEF MigrationsIInv, OneWayIsRecorded
  <2> QED
    BY <1>5, <2>1, <2>2
<1>8. todo \in SUBSET Versions
  BY <1>1
<1> HIDE DEF v, here
<1> QED
  BY <1>1, <1>2, <1>3, <1>4, <1>5, <1>6, <1>7, <1>8, RowMoves, ZenonT(40)

LEMMA RevertNextStep ==
  ASSUME MigrationsAssumption, MigrationsIInv, NEW p \in Migrators, RevertNext(p)
  PROVE  MigrationsIInv'
<1> DEFINE v == Max(opener[p].todo)
           here == IF KindOf[v] = "column" THEN schema[v] ELSE NotApplied
           todo == opener[p].todo \ {v}
<1>1. /\ opener[p] \in [stage : {"off", "check", "list", "apply", "revert", "serving", "refused"},
                        release : Releases, todo : SUBSET Versions]
      /\ opener[p].todo \in SUBSET Versions /\ opener[p].todo # {}
      /\ opener[p].stage = "revert" /\ moved \in [Migrators -> SUBSET Versions]
  BY DEF RevertNext, MigrationsIInv, MigrationsTyped
<1>2. v \in opener[p].todo /\ v \in Versions
  <2>1. IsFiniteSet(opener[p].todo) /\ opener[p].todo \subseteq Int
    <3>1. IsFiniteSet(Versions) /\ Versions \subseteq Int
      BY DEF MigrationsAssumption
    <3>2. IsFiniteSet(opener[p].todo)
      BY <1>1, <3>1, FS_Subset
    <3> QED
      BY <1>1, <3>1, <3>2
  <2>2. \E x \in opener[p].todo : \A y \in opener[p].todo : x >= y
    BY <1>1, <2>1, GreatestOfFinite
  <2> QED
    BY <1>1, <2>2 DEF Max
<1>3. CASE v \in DOMAIN Files(p)
  <2>1. /\ ledger' = [ledger EXCEPT ![v] = NotApplied] /\ schema' = DownSchema(v)
        /\ opener' = Stage(p, opener[p].stage, todo) /\ moved' = Others(p, v) /\ engine' = engine
    BY <1>1, <1>3 DEF RevertNext
  <2>2. schema[v] \in Texts \cup {NotApplied} /\ here \in Texts \cup {NotApplied}
    BY <1>2 DEF MigrationsIInv, MigrationsTyped
  <2>3. schema' = [schema EXCEPT ![v] = here]
    BY <1>2, <2>1 DEF DownSchema, MigrationsIInv, MigrationsTyped
  <2>4. todo \in SUBSET Versions /\ (KindOf[v] = "oneway" => here = NotApplied)
    BY <1>1
  <2> HIDE DEF v, here
  <2> QED
    BY <1>1, <1>2, <2>1, <2>2, <2>3, <2>4, RowMoves, ZenonT(40)
<1>4. CASE v \notin DOMAIN Files(p)
  <2> DEFINE run == [opener[p] EXCEPT !.stage = "refused", !.todo = opener[p].todo]
  <2>1. opener' = [opener EXCEPT ![p] = run] /\ UNCHANGED <<engine, ledger, schema, moved>>
    BY <1>1, <1>4 DEF RevertNext, Stage, MigrationsIInv, MigrationsTyped
  <2>2. /\ run \in [stage : {"off", "check", "list", "apply", "revert", "serving", "refused"},
                    release : Releases, todo : SUBSET Versions]
        /\ run.stage = "refused"
    BY <1>1
  <2> HIDE DEF run
  <2> QED
    BY <1>1, <2>1, <2>2, RunMoves
<1> QED
  BY <1>3, <1>4

\* Whatever servers and rollbacks of whatever releases run over a database at once, what its
\* ledger records is in force, and a server runs against the schema of its release but for
\* what other processes did to it since it began (migrator.ts, migrations/runner.ts).
THEOREM MigrationsHold == MigrationsSpec => []MigrationsInv
<1> USE MigrationsAssumption
<1>1. MigrationsInit => MigrationsIInv
  BY MigrationsStart
<1>2. MigrationsIInv /\ [MigrationsNext]_migrationVars => MigrationsIInv'
  <2> SUFFICES ASSUME MigrationsIInv, [MigrationsNext]_migrationVars PROVE MigrationsIInv'
    OBVIOUS
  <2>1. CASE MigrationsNext
    BY <2>1, LaunchStep, PlanStep, StageStep, ApplyNextStep, RevertNextStep DEF MigrationsNext
  <2>2. CASE UNCHANGED migrationVars
    BY <2>2 DEF migrationVars, MigrationsIInv, MigrationsTyped, RecordedIsInForce, OneWayIsRecorded,
                RunsInStep, Applied, Files, Drifted, Edited, Pending
  <2> QED
    BY <2>1, <2>2
<1>3. MigrationsIInv => MigrationsInv
  <2> SUFFICES ASSUME MigrationsIInv PROVE MigrationsTypeOK /\ ServesInStep
    BY DEF MigrationsIInv, MigrationsInv
  <2>1. MigrationsTypeOK
    BY DEF MigrationsIInv, MigrationsTyped, MigrationsTypeOK
  <2>2. ServesInStep
    BY DEF MigrationsIInv, RunsInStep, ServesInStep
  <2> QED
    BY <2>1, <2>2
<1> QED
  BY <1>1, <1>2, <1>3, PTL DEF MigrationsSpec

-----------------------------------------------------------------------------
Promises    == {"none", "reading", "waiting", "done", "failed", "timed out", "closed"}
WritePhases == {"none", "queued", "writing", "done", "failed", "closed"}

\* The variables of the pool; what bounds its counters comes from what they count.
PoolRecord == [open : Int, active : Int, idle : Seq(Handles), waiters : Seq(PoolReaders), writing : BOOLEAN,
               writes : Seq(PoolWriters), closed : BOOLEAN, writerOpen : BOOLEAN, late : BOOLEAN]

PoolTyped ==
    /\ pool \in PoolRecord
    /\ reader \in [PoolReaders -> [promise : Promises, handle : Handles \cup {NoHandle}]]
    /\ writer \in [PoolWriters -> WritePhases]

\* Who reads is who has a handle.
ReadersHold == \A c \in PoolReaders : reader[c].promise = "reading" <=> reader[c].handle # NoHandle

\* The counters, and the bad handles, which are open.
HandlesCounted ==
    /\ pool.open <= MaxReaders
    /\ bad \subseteq OpenHandles
    /\ CountersAreHandles

\* Who is in the queue waits, and is there once.
QueuedOnce ==
    /\ IsInjective(pool.waiters)
    /\ \A i \in DOMAIN pool.waiters : reader[pool.waiters[i]].promise = "waiting"
    /\ pool.closed => pool.waiters = <<>>
    /\ WaitersAreQueued
    /\ forgotten \subseteq PoolReaders

\* At most one write runs, whoever is queued is so once, and only it runs under a closing pool.
WritesInTurn ==
    /\ IsInjective(pool.writes)
    /\ \A v, w \in PoolWriters : writer[v] = "writing" /\ writer[w] = "writing" => v = w
    /\ pool.writing <=> (\E w \in PoolWriters : writer[w] = "writing")
    /\ {w \in PoolWriters : writer[w] = "queued"} = Range(pool.writes)
    /\ pool.writes # <<>> => pool.writing

\* What is left when the handles are closed.
ClosedAfterUse ==
    /\ ~pool.writerOpen => (pool.closed /\ pool.idle = <<>>)
    /\ (~pool.writerOpen /\ ~pool.late) => (Held = {} /\ ~pool.writing /\ pool.open = 0)

PoolIInv == PoolTyped /\ ReadersHold /\ HandlesCounted /\ QueuedOnce /\ WritesInTurn /\ ClosedAfterUse

LEMMA RecordMoves ==
  ASSUME NEW p \in PoolRecord, NEW idle \in Seq(Handles), NEW open \in Int, NEW active \in Int
  PROVE  [p EXCEPT !.idle = idle, !.open = open, !.active = active] \in PoolRecord
BY DEF PoolRecord

-----------------------------------------------------------------------------
(* The handles that are held.                                              *)

LEMMA HeldFacts ==
  ASSUME PoolAssumption
  PROVE  /\ Held \subseteq Handles /\ IsFiniteSet(Held) /\ Cardinality(Held) \in Nat
         /\ NoHandle \notin Handles
<1>1. Held \subseteq Handles /\ NoHandle \notin Handles
  BY DEF Held, Handles, PoolAssumption
<1>2. IsFiniteSet(Handles)
  BY FS_Interval DEF Handles, PoolAssumption
<1>3. IsFiniteSet(Held)
  BY <1>1, <1>2, FS_Subset
<1> QED
  BY <1>1, <1>3, FS_CardinalityType

LEMMA IdleFacts ==
  ASSUME PoolAssumption, PoolTyped, HandlesCounted
  PROVE  /\ Len(pool.idle) \in Nat /\ DOMAIN pool.idle = 1 .. Len(pool.idle)
         /\ \A i \in 1 .. Len(pool.idle) : pool.idle[i] \in Handles \ Held
         /\ \A i, j \in 1 .. Len(pool.idle) : pool.idle[i] = pool.idle[j] => i = j
         /\ pool.idle = <<>> <=> Len(pool.idle) = 0
         /\ Range(pool.idle) = {pool.idle[i] : i \in 1 .. Len(pool.idle)}
<1>1. pool.idle \in Seq(Handles)
  BY DEF PoolTyped, PoolRecord
<1>2. /\ Len(pool.idle) \in Nat /\ DOMAIN pool.idle = 1 .. Len(pool.idle)
      /\ \A i \in 1 .. Len(pool.idle) : pool.idle[i] \in Handles
      /\ pool.idle = <<>> <=> Len(pool.idle) = 0
  BY <1>1, SeqFacts
<1>3. Range(pool.idle) = {pool.idle[i] : i \in 1 .. Len(pool.idle)}
  BY <1>2 DEF Range
<1> QED
  BY <1>2, <1>3 DEF HandlesCounted, CountersAreHandles, IsInjective

\* Nobody takes a handle or gives one back.
LEMMA HeldStays ==
  ASSUME PoolTyped, CountersAreHandles, \A c \in PoolReaders : reader'[c].handle = reader[c].handle
  PROVE  /\ Held' = Held
         /\ \A c, d \in PoolReaders : reader'[c].handle = reader'[d].handle => c = d \/ reader'[c].handle = NoHandle
BY DEF Held, CountersAreHandles

\* c takes h, which nobody has.
LEMMA HeldTaken ==
  ASSUME PoolAssumption, PoolTyped, CountersAreHandles, NEW c \in PoolReaders, NEW h \in Handles, h \notin Held,
         reader[c].handle = NoHandle, reader'[c].handle = h,
         \A d \in PoolReaders : d # c => reader'[d].handle = reader[d].handle
  PROVE  /\ Held' = Held \cup {h} /\ Cardinality(Held') = Cardinality(Held) + 1
         /\ \A d, e \in PoolReaders : reader'[d].handle = reader'[e].handle => d = e \/ reader'[d].handle = NoHandle
<1>1. Held' = Held \cup {h}
  BY HeldFacts DEF Held
<1>2. Cardinality(Held \cup {h}) = Cardinality(Held) + 1
  BY HeldFacts, FS_AddElement
<1>3. \A d \in PoolReaders : reader[d].handle # h
  BY DEF Held
<1> QED
  BY <1>1, <1>2, <1>3 DEF CountersAreHandles

\* c gives its handle back.
LEMMA HeldReturned ==
  ASSUME PoolAssumption, PoolTyped, CountersAreHandles, NEW c \in PoolReaders,
         reader[c].handle # NoHandle, reader'[c].handle = NoHandle,
         \A d \in PoolReaders : d # c => reader'[d].handle = reader[d].handle
  PROVE  /\ reader[c].handle \in Held /\ reader[c].handle \in Handles
         /\ Held' = Held \ {reader[c].handle} /\ Cardinality(Held') = Cardinality(Held) - 1
         /\ \A d, e \in PoolReaders : reader'[d].handle = reader'[e].handle => d = e \/ reader'[d].handle = NoHandle
<1> DEFINE h == reader[c].handle
<1>1. h \in Handles
  BY DEF PoolTyped, PoolRecord
<1>2. h \in Held
  BY <1>1 DEF Held
<1>3. \A d \in PoolReaders : d # c => reader[d].handle # h
  BY DEF CountersAreHandles
<1>4. Held' = Held \ {h}
  <2>1. ASSUME NEW k \in Held' PROVE k \in Held \ {h}
    BY <1>3, <2>1, HeldFacts DEF Held
  <2>2. ASSUME NEW k \in Held \ {h} PROVE k \in Held'
    BY <2>2 DEF Held
  <2> QED
    BY <2>1, <2>2
<1>5. Cardinality(Held \ {h}) = Cardinality(Held) - 1
  <2> HIDE DEF h
  <2>1. IsFiniteSet(Held)
    BY HeldFacts
  <2>2. Cardinality(Held \ {h}) = IF h \in Held THEN Cardinality(Held) - 1 ELSE Cardinality(Held)
    BY <2>1, FS_RemoveElement
  <2> QED
    BY <1>2, <2>2
<1> QED
  BY <1>1, <1>2, <1>4, <1>5 DEF CountersAreHandles

\* c hands its handle on to d.
LEMMA HeldPassed ==
  ASSUME PoolAssumption, PoolTyped, CountersAreHandles, NEW c \in PoolReaders, NEW d \in PoolReaders, c # d,
         reader[c].handle # NoHandle, reader[d].handle = NoHandle,
         reader'[c].handle = NoHandle, reader'[d].handle = reader[c].handle,
         \A e \in PoolReaders : e # c /\ e # d => reader'[e].handle = reader[e].handle
  PROVE  /\ reader[c].handle \in Held /\ Held' = Held
         /\ \A e, f \in PoolReaders : reader'[e].handle = reader'[f].handle => e = f \/ reader'[e].handle = NoHandle
<1> DEFINE h == reader[c].handle
<1>1. h \in Handles
  BY DEF PoolTyped, PoolRecord
<1>2. h \in Held
  BY <1>1 DEF Held
<1>3. \A e \in PoolReaders : e # c => reader[e].handle # h
  BY DEF CountersAreHandles
<1>4. Held' = Held
  <2>1. ASSUME NEW k \in Held' PROVE k \in Held
    BY <1>2, <2>1, HeldFacts DEF Held
  <2>2. ASSUME NEW k \in Held PROVE k \in Held'
    <3>1. PICK e \in PoolReaders : reader[e].handle = k
      BY <2>2 DEF Held
    <3>2. e # d /\ k \in Handles
      BY <2>2, <3>1, HeldFacts
    <3>3. CASE e = c
      BY <3>1, <3>2, <3>3 DEF Held
    <3>4. CASE e # c
      BY <3>1, <3>2, <3>4 DEF Held
    <3> QED
      BY <3>3, <3>4
  <2> QED
    BY <2>1, <2>2
<1> QED
  BY <1>2, <1>3, <1>4 DEF CountersAreHandles

-----------------------------------------------------------------------------
(* What the steps of the readers leave alone.                              *)

LEMMA WritesUntouched ==
  ASSUME WritesInTurn, writer' = writer, pool'.writing = pool.writing, pool'.writes = pool.writes
  PROVE  WritesInTurn'
BY DEF WritesInTurn

LEMMA OpenStays ==
  ASSUME ClosedAfterUse, pool.writerOpen, pool'.writerOpen = pool.writerOpen
  PROVE  ClosedAfterUse'
BY DEF ClosedAfterUse

\* While the pool is open its handles are.
LEMMA NotClosed ==
  ASSUME PoolTyped, ClosedAfterUse, ~pool.closed
  PROVE  pool.writerOpen
BY DEF ClosedAfterUse, PoolTyped, PoolRecord

\* The place of the idle handle that answers first, from the top of the stack.
LEMMA DeepestFacts ==
  ASSUME PoolAssumption, PoolTyped, HandlesCounted
  PROVE  /\ Deepest(pool) \in 0 .. Len(pool.idle)
         /\ Deepest(pool) = 0 => \A i \in 1 .. Len(pool.idle) : pool.idle[i] \in bad
<1> DEFINE S == Answering(pool)
<1>1. S \subseteq 1 .. Len(pool.idle) /\ Len(pool.idle) \in Nat
  BY IdleFacts DEF Answering
<1>2. CASE S = {}
  BY <1>1, <1>2, IdleFacts DEF Answering, Deepest
<1>3. CASE S # {}
  <2> HIDE DEF S
  <2>1. \E i \in S : \A j \in S : j <= i
    BY <1>1, <1>3, GreatestExists
  <2>2. (CHOOSE i \in S : \A j \in S : j <= i) \in S
    BY <2>1
  <2>3. Deepest(pool) \in S
    BY <1>3, <2>2 DEF Deepest, S
  <2>4. Deepest(pool) \in 1 .. Len(pool.idle)
    BY <1>1, <2>3
  <2> HIDE DEF Deepest
  <2>5. Deepest(pool) \in 0 .. Len(pool.idle) /\ Deepest(pool) # 0
    BY <1>1, <2>4
  <2> QED
    BY <2>5
<1> QED
  BY <1>2, <1>3

LEMMA IdleCut ==
  ASSUME PoolAssumption, PoolTyped, HandlesCounted, NEW m \in 0 .. Len(pool.idle)
  PROVE  /\ SubSeq(pool.idle, 1, m) \in Seq(Handles) /\ Len(SubSeq(pool.idle, 1, m)) = m
         /\ DOMAIN SubSeq(pool.idle, 1, m) = 1 .. m
         /\ \A i \in 1 .. m : SubSeq(pool.idle, 1, m)[i] = pool.idle[i]
         /\ IsInjective(SubSeq(pool.idle, 1, m))
         /\ Range(SubSeq(pool.idle, 1, m)) = {pool.idle[i] : i \in 1 .. m}
<1> DEFINE s == SubSeq(pool.idle, 1, m)
<1>1. m \in Int /\ m \in Nat /\ Len(pool.idle) \in Nat /\ m <= Len(pool.idle)
  BY IdleFacts
<1>2. \A i \in 1 .. m : pool.idle[i] \in Handles
  BY <1>1, IdleFacts
<1>3. s \in Seq(Handles) /\ Len(s) = (IF 1 <= m THEN m - 1 + 1 ELSE 0) /\ \A i \in 1 .. m - 1 + 1 : s[i] = pool.idle[1 + i - 1]
  BY <1>1, <1>2, SubSeqProperties
<1>4. Len(s) = m /\ \A i \in 1 .. m : s[i] = pool.idle[i]
  BY <1>1, <1>3
<1>5. DOMAIN s = 1 .. m
  BY <1>3, <1>4, SeqFacts
<1> HIDE DEF s
<1>6. Range(s) = {pool.idle[i] : i \in 1 .. m}
  BY <1>4, <1>5 DEF Range
<1>7. IsInjective(s)
  BY <1>1, <1>4, <1>5, IdleFacts DEF IsInjective
<1> QED
  BY <1>3, <1>4, <1>5, <1>6, <1>7 DEF s

-----------------------------------------------------------------------------
(* Taking a handle.                                                        *)

LEMMA TakeIdleStep ==
  ASSUME PoolAssumption, PoolIInv, NEW c \in PoolReaders, TakeIdle(c)
  PROVE  PoolIInv'
<1> DEFINE D == Deepest(pool)
           h == pool.idle[D]
<1>1. PoolTyped /\ ReadersHold /\ HandlesCounted /\ CountersAreHandles /\ QueuedOnce /\ WritesInTurn /\ ClosedAfterUse
  BY DEF PoolIInv, HandlesCounted
<1>2. D \in 1 .. Len(pool.idle) /\ Len(pool.idle) \in Nat
  BY <1>1, DeepestFacts, IdleFacts DEF TakeIdle
<1>3. /\ h \in Handles /\ h \notin Held /\ h # NoHandle /\ h \in Range(pool.idle)
      /\ \A i \in 1 .. D - 1 : pool.idle[i] # h /\ pool.idle[i] \in Handles \ Held
  BY <1>1, <1>2, IdleFacts, HeldFacts
<1>4. reader[c].handle = NoHandle /\ reader[c].promise = "none" /\ ~pool.closed
  BY <1>1 DEF TakeIdle, ReadersHold
<1>5. /\ pool' = [pool EXCEPT !.idle = SubSeq(pool.idle, 1, D - 1), !.open = pool.open - (Len(pool.idle) - D),
                              !.active = pool.active + 1]
      /\ reader' = [reader EXCEPT ![c] = [promise |-> "reading", handle |-> h]]
      /\ bad' = bad \cap {k \in Handles : k \in Held \/ k \in Range(pool'.idle)}
      /\ UNCHANGED <<writer, poolFaults, forgotten>>
  BY <1>1 DEF TakeIdle, Pinged, Granted, PoolTyped, PoolRecord
<1>6. /\ pool'.idle = SubSeq(pool.idle, 1, D - 1) /\ pool'.open = pool.open - (Len(pool.idle) - D)
      /\ pool'.active = pool.active + 1 /\ pool'.waiters = pool.waiters /\ pool'.writing = pool.writing
      /\ pool'.writes = pool.writes /\ pool'.closed = pool.closed /\ pool'.writerOpen = pool.writerOpen
  BY <1>1, <1>5 DEF PoolTyped, PoolRecord
<1>7. /\ SubSeq(pool.idle, 1, D - 1) \in Seq(Handles) /\ Len(SubSeq(pool.idle, 1, D - 1)) = D - 1
      /\ IsInjective(SubSeq(pool.idle, 1, D - 1))
      /\ Range(SubSeq(pool.idle, 1, D - 1)) = {pool.idle[i] : i \in 1 .. D - 1}
  <2>1. D - 1 \in 0 .. Len(pool.idle)
    BY <1>2
  <2> HIDE DEF D
  <2> QED
    BY <1>1, <2>1, IdleCut
<1> HIDE DEF D, h
<1>8. /\ reader' \in [PoolReaders -> [promise : Promises, handle : Handles \cup {NoHandle}]]
      /\ reader'[c].promise = "reading" /\ reader'[c].handle = h
      /\ \A d \in PoolReaders : d # c => reader'[d] = reader[d]
  BY <1>1, <1>3, <1>5 DEF PoolTyped, PoolRecord, Promises
<1>9. PoolTyped'
  <2>1. pool' \in PoolRecord
    <3>1. pool \in PoolRecord /\ pool.open \in Int /\ pool.active \in Int
      BY <1>1 DEF PoolTyped, PoolRecord
    <3>2. pool.open - (Len(pool.idle) - D) \in Int /\ pool.active + 1 \in Int
      BY <1>2, <3>1
    <3> QED
      BY <1>5, <1>7, <3>1, <3>2, RecordMoves
  <2> QED
    BY <1>1, <1>5, <1>8, <2>1 DEF PoolTyped, PoolRecord
<1>10. ReadersHold'
  BY <1>1, <1>3, <1>8 DEF ReadersHold
<1>11. /\ Held' = Held \cup {h} /\ Cardinality(Held') = Cardinality(Held) + 1
       /\ \A d, e \in PoolReaders : reader'[d].handle = reader'[e].handle => d = e \/ reader'[d].handle = NoHandle
  BY <1>1, <1>3, <1>4, <1>8, HeldTaken
<1>12. HandlesCounted'
  <2>1. pool.open = Cardinality(Held) + Len(pool.idle) /\ pool.active = Cardinality(Held) /\ pool.open <= MaxReaders
        /\ Cardinality(Held) \in Nat /\ MaxReaders \in Nat
    BY <1>1, HeldFacts DEF HandlesCounted, CountersAreHandles, PoolAssumption
  <2>2. pool'.active = Cardinality(Held') /\ pool'.open = Cardinality(Held') + Len(pool'.idle) /\ pool'.open <= MaxReaders
    <3>1. PICK H \in Nat, L \in Nat, M \in Nat : H = Cardinality(Held) /\ L = Len(pool.idle) /\ M = MaxReaders
      BY <1>2, <2>1
    <3>2. D \in Nat /\ D <= L
      BY <1>2, <3>1
    <3>3. /\ Cardinality(Held') = H + 1 /\ Len(pool'.idle) = D - 1 /\ pool'.active = H + 1
          /\ pool'.open = (H + L) - (L - D) /\ H + L <= M
      BY <1>6, <1>7, <1>11, <2>1, <3>1
    <3>4. (H + L) - (L - D) = (H + 1) + (D - 1) /\ (H + 1) + (D - 1) <= M
      BY <3>2, <3>3
    <3> QED
      BY <3>1, <3>3, <3>4
  <2>3. Held' \cap Range(pool'.idle) = {} /\ IsInjective(pool'.idle)
    <3>1. Range(pool'.idle) = {pool.idle[i] : i \in 1 .. D - 1} /\ IsInjective(pool'.idle)
      BY <1>6, <1>7
    <3>2. Held' = Held \cup {h}
      BY <1>11
    <3>3. ASSUME NEW i \in 1 .. D - 1 PROVE pool.idle[i] \notin Held'
      BY <1>3, <3>2, <3>3
    <3> QED
      BY <3>1, <3>3
  <2>4. bad' \subseteq OpenHandles'
    BY <1>5, <1>11 DEF OpenHandles
  <2> QED
    BY <1>11, <2>2, <2>3, <2>4 DEF HandlesCounted, CountersAreHandles
<1>13. QueuedOnce'
  <2>1. pool.idle # <<>>
    BY <1>1, <1>2, IdleFacts
  <2>2. pool.waiters = <<>>
    BY <1>1, <2>1 DEF QueuedOnce, WaitersAreQueued
  <2>3. \A d \in PoolReaders : reader'[d].promise = "waiting" => reader[d].promise = "waiting"
    BY <1>8
  <2> QED
    BY <1>1, <1>5, <1>6, <2>2, <2>3 DEF QueuedOnce, WaitersAreQueued
<1> QED
  BY <1>1, <1>4, <1>5, <1>6, <1>9, <1>10, <1>12, <1>13, NotClosed, OpenStays, WritesUntouched DEF PoolIInv

\* Idle handles that all fail their check are closed, every one.
LEMMA AllClosed ==
  ASSUME PoolAssumption, PoolTyped, HandlesCounted, Deepest(pool) = 0
  PROVE  /\ Pinged(pool) = [pool EXCEPT !.idle = <<>>, !.open = Cardinality(Held)]
         /\ Pinged(pool).open = Cardinality(Held)
<1>1. pool \in PoolRecord /\ pool.idle \in Seq(Handles) /\ pool.open = Cardinality(Held) + Len(pool.idle)
  BY DEF PoolTyped, PoolRecord, HandlesCounted, CountersAreHandles
<1>2. Cardinality(Held) \in Nat /\ Len(pool.idle) \in Nat
  BY HeldFacts, IdleFacts
<1>3. SubSeq(pool.idle, 1, 0 - 1) = <<>>
  BY SubSeqEmpty
<1>4. pool.open - (Len(pool.idle) - 0) = Cardinality(Held)
  BY <1>1, <1>2
<1>5. Pinged(pool) = [pool EXCEPT !.idle = <<>>, !.open = Cardinality(Held)]
  BY <1>3, <1>4 DEF Pinged
<1> QED
  BY <1>1, <1>5 DEF PoolRecord

\* The promise of c, which has no handle, goes to how, and it still has none.
LEMMA Settles ==
  ASSUME PoolAssumption, PoolTyped, ReadersHold, HandlesCounted, NEW c \in PoolReaders, NEW how \in Promises, how # "reading",
         reader[c].handle = NoHandle, reader' = [reader EXCEPT ![c] = Settled(how)]
  PROVE  /\ reader' \in [PoolReaders -> [promise : Promises, handle : Handles \cup {NoHandle}]]
         /\ reader'[c].promise = how /\ \A d \in PoolReaders : d # c => reader'[d] = reader[d]
         /\ ReadersHold' /\ Held' = Held
         /\ \A d, e \in PoolReaders : reader'[d].handle = reader'[e].handle => d = e \/ reader'[d].handle = NoHandle
<1>1. /\ reader' \in [PoolReaders -> [promise : Promises, handle : Handles \cup {NoHandle}]]
      /\ reader'[c].promise = how /\ reader'[c].handle = NoHandle
      /\ \A d \in PoolReaders : d # c => reader'[d] = reader[d]
  BY DEF PoolTyped, PoolRecord, Settled
<1>2. \A d \in PoolReaders : reader'[d].handle = reader[d].handle
  BY <1>1
<1>3. ReadersHold'
  BY <1>1 DEF ReadersHold
<1> QED
  BY <1>1, <1>2, <1>3, HeldStays DEF HandlesCounted

\* There is a handle to open while fewer than the maximum are held.
LEMMA RoomForOne ==
  ASSUME PoolAssumption, Cardinality(Held) < MaxReaders
  PROVE  (CHOOSE h \in Handles : h \notin Held) \in Handles \ Held
<1>1. \E h \in Handles : h \notin Held
  <2> SUFFICES ASSUME Handles \subseteq Held PROVE FALSE
    OBVIOUS
  <2>1. Held = Handles
    BY HeldFacts
  <2>2. Cardinality(1 .. MaxReaders) = MaxReaders
    BY FS_Interval DEF PoolAssumption
  <2> QED
    BY <2>1, <2>2 DEF Handles, PoolAssumption
<1> QED
  BY <1>1

LEMMA OpenNewStep ==
  ASSUME PoolAssumption, PoolIInv, NEW c \in PoolReaders, OpenNew(c)
  PROVE  PoolIInv'
<1>1. PoolTyped /\ ReadersHold /\ HandlesCounted /\ CountersAreHandles /\ QueuedOnce /\ WritesInTurn /\ ClosedAfterUse
  BY DEF PoolIInv, HandlesCounted
<1>2. /\ Pinged(pool) = [pool EXCEPT !.idle = <<>>, !.open = Cardinality(Held)]
      /\ Pinged(pool).open = Cardinality(Held)
  BY <1>1, AllClosed DEF OpenNew
<1>3. Cardinality(Held) < MaxReaders /\ Cardinality(Held) \in Nat /\ MaxReaders \in Nat
  BY <1>2, HeldFacts DEF OpenNew, PoolAssumption
<1>4. reader[c].handle = NoHandle /\ reader[c].promise = "none" /\ ~pool.closed /\ bad' = bad \cap Held
      /\ UNCHANGED <<writer, forgotten>>
  BY <1>1 DEF OpenNew, ReadersHold
<1>5. pool.active = Cardinality(Held) /\ pool \in PoolRecord /\ <<>> \in Seq(Handles)
  BY <1>1, EmptySeq DEF CountersAreHandles, PoolTyped
<1>6. /\ Len(<<>>) = 0 /\ IsInjective(<<>>) /\ Range(<<>>) = {}
  BY DEF IsInjective, Range
<1>7. CASE pool' = [Pinged(pool) EXCEPT !.open = @ + 1, !.active = @ + 1]
           /\ reader' = [reader EXCEPT ![c] = Granted(CHOOSE h \in Handles : h \notin Held)]
  <2> DEFINE h == CHOOSE k \in Handles : k \notin Held
  <2>1. h \in Handles /\ h \notin Held /\ h # NoHandle
    BY <1>3, RoomForOne, HeldFacts
  <2>2. pool' = [pool EXCEPT !.idle = <<>>, !.open = Cardinality(Held) + 1, !.active = Cardinality(Held) + 1]
    BY <1>2, <1>5, <1>7 DEF PoolRecord
  <2>3. pool' \in PoolRecord
    <3>1. Cardinality(Held) + 1 \in Int
      BY <1>3
    <3> QED
      BY <1>5, <2>2, <3>1, RecordMoves
  <2>4. /\ pool'.idle = <<>> /\ pool'.open = Cardinality(Held) + 1 /\ pool'.active = Cardinality(Held) + 1
        /\ pool'.waiters = pool.waiters /\ pool'.writing = pool.writing
        /\ pool'.writes = pool.writes /\ pool'.closed = pool.closed /\ pool'.writerOpen = pool.writerOpen
    BY <1>5, <2>2 DEF PoolRecord
  <2> HIDE DEF h
  <2>5. /\ reader' \in [PoolReaders -> [promise : Promises, handle : Handles \cup {NoHandle}]]
        /\ reader'[c].promise = "reading" /\ reader'[c].handle = h
        /\ \A d \in PoolReaders : d # c => reader'[d] = reader[d]
    <3>1. reader' = [reader EXCEPT ![c] = [promise |-> "reading", handle |-> h]]
      BY <1>7 DEF Granted, h
    <3> QED
      BY <1>1, <2>1, <3>1 DEF PoolTyped, PoolRecord, Promises
  <2>6. PoolTyped' /\ ReadersHold'
    BY <1>1, <1>4, <2>1, <2>3, <2>5 DEF PoolTyped, ReadersHold
  <2>7. /\ Held' = Held \cup {h} /\ Cardinality(Held') = Cardinality(Held) + 1
        /\ \A d, e \in PoolReaders : reader'[d].handle = reader'[e].handle => d = e \/ reader'[d].handle = NoHandle
    BY <1>1, <1>4, <2>1, <2>5, HeldTaken
  <2>8. HandlesCounted'
    <3>1. pool'.open <= MaxReaders /\ pool'.active = Cardinality(Held') /\ pool'.open = Cardinality(Held') + Len(pool'.idle)
      BY <1>3, <1>6, <2>4, <2>7
    <3>2. bad' \subseteq OpenHandles'
      BY <1>4, <2>7 DEF OpenHandles
    <3> QED
      BY <1>6, <2>4, <2>7, <3>1, <3>2 DEF HandlesCounted, CountersAreHandles
  <2>9. QueuedOnce'
    <3>1. \A d \in PoolReaders : reader'[d].promise = "waiting" <=> reader[d].promise = "waiting"
      BY <1>4, <2>5
    <3>2. \A i \in DOMAIN pool.waiters : pool.waiters[i] \in PoolReaders
      BY <1>5, SeqFacts DEF PoolRecord
    <3> QED
      BY <1>1, <1>4, <2>4, <3>1, <3>2 DEF QueuedOnce, WaitersAreQueued
  <2> QED
    BY <1>1, <1>4, <2>4, <2>6, <2>8, <2>9, NotClosed, OpenStays, WritesUntouched DEF PoolIInv
<1>8. CASE pool' = Pinged(pool) /\ reader' = [reader EXCEPT ![c] = Settled("failed")]
  <2>1. pool' = [pool EXCEPT !.idle = <<>>, !.open = Cardinality(Held), !.active = pool.active]
    BY <1>2, <1>5, <1>8 DEF PoolRecord
  <2>2. pool' \in PoolRecord
    <3>1. Cardinality(Held) \in Int /\ pool.active \in Int
      BY <1>3, <1>5
    <3> QED
      BY <1>5, <2>1, <3>1, RecordMoves
  <2>3. /\ pool'.idle = <<>> /\ pool'.open = Cardinality(Held) /\ pool'.active = Cardinality(Held)
        /\ pool'.waiters = pool.waiters /\ pool'.writing = pool.writing
        /\ pool'.writes = pool.writes /\ pool'.closed = pool.closed /\ pool'.writerOpen = pool.writerOpen
    BY <1>5, <2>1 DEF PoolRecord
  <2>4. /\ reader' \in [PoolReaders -> [promise : Promises, handle : Handles \cup {NoHandle}]]
        /\ reader'[c].promise = "failed" /\ \A d \in PoolReaders : d # c => reader'[d] = reader[d]
        /\ ReadersHold' /\ Held' = Held
        /\ \A d, e \in PoolReaders : reader'[d].handle = reader'[e].handle => d = e \/ reader'[d].handle = NoHandle
    <3>1. "failed" \in Promises /\ "failed" # "reading"
      BY DEF Promises
    <3> QED
      BY <1>1, <1>4, <1>8, <3>1, Settles
  <2>5. PoolTyped'
    BY <1>1, <1>4, <2>2, <2>4 DEF PoolTyped
  <2>6. HandlesCounted'
    <3>1. pool'.open <= MaxReaders /\ pool'.active = Cardinality(Held') /\ pool'.open = Cardinality(Held') + Len(pool'.idle)
      BY <1>3, <1>6, <2>3, <2>4
    <3>2. bad' \subseteq OpenHandles'
      BY <1>4, <2>4 DEF OpenHandles
    <3> QED
      BY <1>6, <2>3, <2>4, <3>1, <3>2 DEF HandlesCounted, CountersAreHandles
  <2>7. QueuedOnce'
    <3>1. \A d \in PoolReaders : reader'[d].promise = "waiting" <=> reader[d].promise = "waiting"
      BY <1>4, <2>4
    <3>2. \A i \in DOMAIN pool.waiters : pool.waiters[i] \in PoolReaders
      BY <1>5, SeqFacts DEF PoolRecord
    <3> QED
      BY <1>1, <1>4, <2>3, <3>1, <3>2 DEF QueuedOnce, WaitersAreQueued
  <2> QED
    BY <1>1, <1>4, <2>3, <2>4, <2>5, <2>6, <2>7, NotClosed, OpenStays, WritesUntouched DEF PoolIInv
<1> QED
  BY <1>7, <1>8 DEF OpenNew

LEMMA WaitStep ==
  ASSUME PoolAssumption, PoolIInv, NEW c \in PoolReaders, Wait(c)
  PROVE  PoolIInv'
<1>1. PoolTyped /\ ReadersHold /\ HandlesCounted /\ CountersAreHandles /\ QueuedOnce /\ WritesInTurn /\ ClosedAfterUse
  BY DEF PoolIInv, HandlesCounted
<1>2. /\ Pinged(pool) = [pool EXCEPT !.idle = <<>>, !.open = Cardinality(Held)]
      /\ Cardinality(Held) >= MaxReaders
  BY <1>1, AllClosed DEF Wait
<1>3. /\ pool \in PoolRecord /\ pool.open = Cardinality(Held) + Len(pool.idle) /\ pool.open <= MaxReaders
      /\ Cardinality(Held) \in Nat /\ MaxReaders \in Nat /\ Len(pool.idle) \in Nat
  BY <1>1, HeldFacts, IdleFacts DEF CountersAreHandles, HandlesCounted, PoolTyped, PoolAssumption
<1>4. pool.open = Cardinality(Held) /\ Len(pool.idle) = 0
  BY <1>2, <1>3
<1>5. pool.idle = <<>>
  BY <1>1, <1>4, IdleFacts
<1>6. Pinged(pool) = pool
  BY <1>2, <1>3, <1>4, <1>5 DEF PoolRecord
<1>7. /\ pool' = [pool EXCEPT !.waiters = Append(pool.waiters, c)]
      /\ reader' = [reader EXCEPT ![c] = Settled("waiting")]
      /\ reader[c].promise = "none" /\ ~pool.closed /\ UNCHANGED <<writer, bad, poolFaults, forgotten>>
  BY <1>6 DEF Wait
<1>8. reader[c].handle = NoHandle
  BY <1>1, <1>7 DEF ReadersHold
<1>9. /\ pool.waiters \in Seq(PoolReaders) /\ Len(pool.waiters) \in Nat /\ DOMAIN pool.waiters = 1 .. Len(pool.waiters)
      /\ \A i \in 1 .. Len(pool.waiters) : pool.waiters[i] \in PoolReaders
  BY <1>3, SeqFacts DEF PoolRecord
<1> DEFINE q == Append(pool.waiters, c)
<1>10. /\ q \in Seq(PoolReaders) /\ Len(q) = Len(pool.waiters) + 1 /\ DOMAIN q = 1 .. Len(pool.waiters) + 1
       /\ \A i \in 1 .. Len(pool.waiters) : q[i] = pool.waiters[i]
       /\ q[Len(pool.waiters) + 1] = c /\ q # <<>>
  <2>1. q \in Seq(PoolReaders) /\ Len(q) = Len(pool.waiters) + 1 /\ q # <<>>
        /\ (\A i \in 1 .. Len(pool.waiters) : q[i] = pool.waiters[i]) /\ q[Len(pool.waiters) + 1] = c
    BY <1>9, AppendProperties
  <2> HIDE DEF q
  <2> QED
    BY <1>9, <2>1, SeqFacts
<1>11. pool' = [pool EXCEPT !.waiters = q]
  BY <1>7
<1> HIDE DEF q
<1>12. /\ pool' \in PoolRecord /\ pool'.waiters = q /\ pool'.idle = pool.idle /\ pool'.open = pool.open
       /\ pool'.active = pool.active /\ pool'.writing = pool.writing
       /\ pool'.writes = pool.writes /\ pool'.closed = pool.closed /\ pool'.writerOpen = pool.writerOpen
  BY <1>3, <1>10, <1>11 DEF PoolRecord
<1>13. /\ reader' \in [PoolReaders -> [promise : Promises, handle : Handles \cup {NoHandle}]]
       /\ reader'[c].promise = "waiting" /\ \A d \in PoolReaders : d # c => reader'[d] = reader[d]
       /\ ReadersHold' /\ Held' = Held
       /\ \A d, e \in PoolReaders : reader'[d].handle = reader'[e].handle => d = e \/ reader'[d].handle = NoHandle
  <2>1. "waiting" \in Promises /\ "waiting" # "reading"
    BY DEF Promises
  <2> QED
    BY <1>1, <1>7, <1>8, <2>1, Settles
<1>14. PoolTyped'
  BY <1>1, <1>7, <1>12, <1>13 DEF PoolTyped
<1>15. HandlesCounted'
  BY <1>1, <1>7, <1>12, <1>13 DEF HandlesCounted, CountersAreHandles, OpenHandles
<1>16. QueuedOnce'
  <2>1. \A i \in 1 .. Len(pool.waiters) : pool.waiters[i] # c
    BY <1>1, <1>7, <1>9 DEF QueuedOnce
  <2>2. \A i, j \in 1 .. Len(pool.waiters) + 1 : q[i] = q[j] => i = j
    <3>1. \A i, j \in 1 .. Len(pool.waiters) : pool.waiters[i] = pool.waiters[j] => i = j
      BY <1>1, <1>9 DEF QueuedOnce, IsInjective
    <3>2. \A i \in 1 .. Len(pool.waiters) + 1 : i \in 1 .. Len(pool.waiters) \/ i = Len(pool.waiters) + 1
      BY <1>9
    <3> QED
      BY <1>10, <2>1, <3>1, <3>2
  <2>3. IsInjective(q)
    BY <1>10, <2>2 DEF IsInjective
  <2>4. \A i \in 1 .. Len(pool.waiters) + 1 : reader'[q[i]].promise = "waiting"
    <3> TAKE i \in 1 .. Len(pool.waiters) + 1
    <3>1. CASE i = Len(pool.waiters) + 1
      BY <1>10, <1>13, <3>1
    <3>2. CASE i \in 1 .. Len(pool.waiters)
      BY <1>1, <1>9, <1>10, <1>13, <2>1, <3>2 DEF QueuedOnce
    <3> QED
      BY <1>9, <3>1, <3>2
  <2>5. ASSUME NEW d \in PoolReaders, reader'[d].promise = "waiting", d \notin forgotten PROVE d \in Range(q)
    <3>1. CASE d = c
      BY <1>9, <1>10, <3>1 DEF Range
    <3>2. CASE d # c
      <4>1. d \in Range(pool.waiters)
        BY <1>1, <1>13, <2>5, <3>2 DEF QueuedOnce, WaitersAreQueued
      <4> QED
        BY <1>9, <1>10, <4>1 DEF Range
    <3> QED
      BY <3>1, <3>2
  <2> QED
    BY <1>1, <1>5, <1>7, <1>10, <1>12, <2>3, <2>4, <2>5 DEF QueuedOnce, WaitersAreQueued
<1> QED
  BY <1>1, <1>7, <1>12, <1>13, <1>14, <1>15, <1>16, NotClosed, OpenStays, WritesUntouched DEF PoolIInv

-----------------------------------------------------------------------------
(* Leaving the queue.                                                      *)

\* A sequence without what stood at i.
LEMMA SpliceFacts ==
  ASSUME NEW S, NEW q \in Seq(S), NEW i \in 1 .. Len(q)
  PROVE  /\ RemoveAt(q, i) \in Seq(S)
         /\ IsInjective(q) => /\ IsInjective(RemoveAt(q, i))
                              /\ Range(RemoveAt(q, i)) = Range(q) \ {q[i]}
<1> DEFINE n == Len(q)
           r == RemoveAt(q, i)
<1>1. n \in Nat /\ DOMAIN q = 1 .. n /\ i \in Nat /\ 1 <= i /\ i <= n /\ \A j \in 1 .. n : q[j] \in S
  BY SeqFacts
<1>2. /\ r \in Seq(S) /\ Len(r) = n - 1
      /\ \A j \in 1 .. n - 1 : r[j] = IF j <= i - 1 THEN q[j] ELSE q[j + 1]
  BY SpliceElements DEF RemoveAt
<1> HIDE DEF r
<1>3. DOMAIN r = 1 .. n - 1
  BY <1>2, SeqFacts
<1>4. ASSUME IsInjective(q) PROVE IsInjective(r) /\ Range(r) = Range(q) \ {q[i]}
  <2>1. \A j, k \in 1 .. n : q[j] = q[k] => j = k
    BY <1>1, <1>4 DEF IsInjective
  <2>2. \A j \in 1 .. n - 1 : r[j] = q[IF j <= i - 1 THEN j ELSE j + 1]
    BY <1>2
  <2>3. \A j \in 1 .. n - 1 : (IF j <= i - 1 THEN j ELSE j + 1) \in (1 .. n) \ {i}
    BY <1>1
  <2>4. ASSUME NEW j \in 1 .. n - 1, NEW k \in 1 .. n - 1, r[j] = r[k] PROVE j = k
    <3>1. (IF j <= i - 1 THEN j ELSE j + 1) = (IF k <= i - 1 THEN k ELSE k + 1)
      BY <2>1, <2>2, <2>3, <2>4
    <3> QED
      BY <1>1, <3>1
  <2>5. IsInjective(r)
    BY <1>3, <2>4 DEF IsInjective
  <2>6. ASSUME NEW x \in Range(r) PROVE x \in Range(q) \ {q[i]}
    <3>1. PICK j \in 1 .. n - 1 : x = r[j]
      BY <1>3, <2>6 DEF Range
    <3>2. PICK k \in (1 .. n) \ {i} : x = q[k]
      BY <2>2, <2>3, <3>1
    <3> QED
      BY <1>1, <2>1, <3>2 DEF Range
  <2>7. ASSUME NEW x \in Range(q) \ {q[i]} PROVE x \in Range(r)
    <3>1. PICK k \in 1 .. n : x = q[k]
      BY <1>1, <2>7 DEF Range
    <3>2. k # i
      BY <2>7, <3>1
    <3>3. CASE k < i
      <4>1. k \in 1 .. n - 1 /\ k <= i - 1
        BY <1>1, <3>3
      <4> QED
        BY <1>2, <1>3, <3>1, <4>1 DEF Range
    <3>4. CASE k > i
      <4>1. k - 1 \in 1 .. n - 1 /\ ~(k - 1 <= i - 1) /\ k - 1 + 1 = k
        BY <1>1, <3>4
      <4>2. r[k - 1] = q[k]
        BY <1>2, <4>1
      <4> QED
        BY <1>3, <3>1, <4>1, <4>2 DEF Range
    <3> QED
      BY <1>1, <3>2, <3>3, <3>4
  <2> QED
    BY <2>5, <2>6, <2>7
<1> QED
  BY <1>2, <1>4 DEF r

\* The queue without its first.
LEMMA QueueMovesUp ==
  ASSUME NEW S, NEW q \in Seq(S), q # <<>>, IsInjective(q)
  PROVE  /\ Head(q) \in S /\ Head(q) \in Range(q) /\ Tail(q) \in Seq(S) /\ IsInjective(Tail(q))
         /\ Range(Tail(q)) = Range(q) \ {Head(q)}
<1> DEFINE n == Len(q)
<1>1. n \in Nat /\ n # 0 /\ DOMAIN q = 1 .. n /\ \A j \in 1 .. n : q[j] \in S
  BY SeqFacts
<1>2. Tail(q) \in Seq(S) /\ Len(Tail(q)) = n - 1 /\ \A j \in 1 .. Len(Tail(q)) : Tail(q)[j] = q[j + 1]
  BY HeadTailProperties
<1>3. DOMAIN Tail(q) = 1 .. n - 1 /\ \A j \in 1 .. n - 1 : Tail(q)[j] = q[j + 1] /\ j + 1 \in 1 .. n
  BY <1>1, <1>2, SeqFacts
<1>4. Head(q) = q[1] /\ 1 \in 1 .. n
  BY <1>1
<1>5. \A j, k \in 1 .. n : q[j] = q[k] => j = k
  BY <1>1 DEF IsInjective
<1> DEFINE t == Tail(q)
           h == Head(q)
<1>6. t \in Seq(S) /\ DOMAIN t = 1 .. n - 1 /\ h = q[1] /\ \A j \in 1 .. n - 1 : t[j] = q[j + 1] /\ j + 1 \in 1 .. n
  BY <1>2, <1>3, <1>4
<1> HIDE DEF t, h
<1>7. IsInjective(t)
  <2> SUFFICES ASSUME NEW j \in 1 .. n - 1, NEW k \in 1 .. n - 1, t[j] = t[k] PROVE j = k
    BY <1>6 DEF IsInjective
  <2>1. j + 1 = k + 1
    BY <1>5, <1>6
  <2> QED
    BY <1>1, <2>1
<1>8. ASSUME NEW x \in Range(t) PROVE x \in Range(q) \ {h}
  <2>1. PICK j \in 1 .. n - 1 : x = t[j]
    BY <1>6, <1>8 DEF Range
  <2>2. x = q[j + 1] /\ j + 1 \in 1 .. n /\ j + 1 # 1
    BY <1>1, <1>6, <2>1
  <2> QED
    BY <1>1, <1>4, <1>5, <1>6, <2>2 DEF Range
<1>9. ASSUME NEW x \in Range(q) \ {h} PROVE x \in Range(t)
  <2>1. PICK j \in 1 .. n : x = q[j]
    BY <1>1, <1>9 DEF Range
  <2>2. j # 1
    BY <1>6, <1>9, <2>1
  <2>3. j - 1 \in 1 .. n - 1 /\ j - 1 + 1 = j
    BY <1>1, <2>2
  <2>4. t[j - 1] = q[j - 1 + 1]
    BY <1>6, <2>3
  <2> QED
    BY <1>6, <2>1, <2>3, <2>4 DEF Range
<1> QED
  BY <1>1, <1>4, <1>6, <1>7, <1>8, <1>9 DEF t, h, Range

LEMMA GiveUpStep ==
  ASSUME PoolAssumption, PoolIInv, NEW c \in PoolReaders, GiveUp(c)
  PROVE  PoolIInv'
<1> DEFINE q == pool.waiters
           at == CHOOSE i \in DOMAIN pool.waiters : pool.waiters[i] = c
           s == RemoveAt(q, at)
<1>1. PoolTyped /\ ReadersHold /\ HandlesCounted /\ CountersAreHandles /\ QueuedOnce /\ WritesInTurn /\ ClosedAfterUse
  BY DEF PoolIInv, HandlesCounted
<1>2. pool \in PoolRecord /\ q \in Seq(PoolReaders) /\ DOMAIN q = 1 .. Len(q)
  <2>1. pool \in PoolRecord /\ q \in Seq(PoolReaders)
    BY <1>1 DEF PoolTyped, PoolRecord
  <2> QED
    BY <2>1, SeqFacts
<1>3. at \in 1 .. Len(q) /\ q[at] = c
  <2>1. \E i \in DOMAIN q : q[i] = c
    BY DEF GiveUp, Range
  <2> QED
    BY <1>2, <2>1
<1>4. s \in Seq(PoolReaders) /\ IsInjective(s) /\ Range(s) = Range(q) \ {c}
  <2>1. IsInjective(q)
    BY <1>1 DEF QueuedOnce
  <2> HIDE DEF at, q
  <2> QED
    BY <1>2, <1>3, <2>1, SpliceFacts
<1>5. /\ pool' = [pool EXCEPT !.waiters = s] /\ reader' = [reader EXCEPT ![c] = Settled("timed out")]
      /\ UNCHANGED <<writer, bad, poolFaults, forgotten>>
  BY DEF GiveUp, Spliced
<1>6. reader[c].promise = "waiting" /\ reader[c].handle = NoHandle
  BY <1>1, <1>2, <1>3 DEF QueuedOnce, ReadersHold
<1> HIDE DEF s, at
<1>7. /\ pool' \in PoolRecord /\ pool'.waiters = s /\ pool'.idle = pool.idle /\ pool'.open = pool.open
      /\ pool'.active = pool.active /\ pool'.writing = pool.writing
      /\ pool'.writes = pool.writes /\ pool'.closed = pool.closed /\ pool'.writerOpen = pool.writerOpen /\ pool'.late = pool.late
  BY <1>2, <1>4, <1>5 DEF PoolRecord
<1>8. /\ reader' \in [PoolReaders -> [promise : Promises, handle : Handles \cup {NoHandle}]]
      /\ reader'[c].promise = "timed out" /\ \A d \in PoolReaders : d # c => reader'[d] = reader[d]
      /\ ReadersHold' /\ Held' = Held
      /\ \A d, e \in PoolReaders : reader'[d].handle = reader'[e].handle => d = e \/ reader'[d].handle = NoHandle
  <2>1. "timed out" \in Promises /\ "timed out" # "reading"
    BY DEF Promises
  <2> QED
    BY <1>1, <1>5, <1>6, <2>1, Settles
<1>9. PoolTyped'
  BY <1>1, <1>5, <1>7, <1>8 DEF PoolTyped
<1>10. HandlesCounted'
  BY <1>1, <1>5, <1>7, <1>8 DEF HandlesCounted, CountersAreHandles, OpenHandles
<1>11. QueuedOnce'
  <2>1. q # <<>>
    BY <1>2, <1>3, SeqFacts
  <2>2. pool.idle = <<>> /\ ~pool.closed
    BY <1>1, <2>1 DEF QueuedOnce, WaitersAreQueued
  <2>3. \A d \in Range(q) : reader[d].promise = "waiting"
    BY <1>1 DEF QueuedOnce, Range
  <2>4. \A i \in DOMAIN s : reader'[s[i]].promise = "waiting"
    <3> TAKE i \in DOMAIN s
    <3>1. s[i] \in Range(s)
      BY DEF Range
    <3>2. s[i] \in Range(q) /\ s[i] # c /\ s[i] \in PoolReaders
      BY <1>2, <1>4, <3>1 DEF Range
    <3> QED
      BY <1>8, <2>3, <3>2
  <2>5. \A d \in PoolReaders : reader'[d].promise = "waiting" /\ d \notin forgotten => d \in Range(s)
    BY <1>1, <1>4, <1>8 DEF QueuedOnce, WaitersAreQueued
  <2> QED
    BY <1>1, <1>4, <1>5, <1>7, <2>2, <2>4, <2>5 DEF QueuedOnce, WaitersAreQueued
<1>12. ClosedAfterUse'
  BY <1>1, <1>7, <1>8 DEF ClosedAfterUse
<1> QED
  BY <1>1, <1>5, <1>7, <1>8, <1>9, <1>10, <1>11, <1>12, WritesUntouched DEF PoolIInv

-----------------------------------------------------------------------------
(* Giving a handle back.                                                   *)

\* What the steps of Release start from.
LEMMA Returning ==
  ASSUME PoolAssumption, PoolIInv, NEW c \in PoolReaders, reader[c].promise = "reading"
  PROVE  /\ pool \in PoolRecord /\ reader[c].handle # NoHandle /\ reader[c].handle \in Handles
         /\ reader[c].handle \in Held /\ c \notin Range(pool.waiters)
         /\ pool.active = Cardinality(Held) /\ pool.open = Cardinality(Held) + Len(pool.idle)
         /\ Cardinality(Held) \in Nat /\ Len(pool.idle) \in Nat /\ MaxReaders \in Nat /\ pool.open <= MaxReaders
<1>1. PoolTyped /\ ReadersHold /\ HandlesCounted /\ QueuedOnce
  BY DEF PoolIInv
<1>2. reader[c].handle # NoHandle /\ reader[c].handle \in Handles /\ pool \in PoolRecord
  BY <1>1 DEF PoolTyped, ReadersHold
<1>3. reader[c].handle \in Held
  BY <1>2 DEF Held
<1>4. c \notin Range(pool.waiters)
  BY <1>1 DEF QueuedOnce, Range
<1> QED
  BY <1>1, <1>2, <1>3, <1>4, HeldFacts, IdleFacts DEF HandlesCounted, CountersAreHandles, PoolAssumption

\* c has given its handle back and gone to how.
LEMMA ReaderLeaves ==
  ASSUME PoolAssumption, PoolIInv, NEW c \in PoolReaders, reader[c].promise = "reading",
         NEW how \in Promises, how # "reading", reader' = [reader EXCEPT ![c] = Settled(how)]
  PROVE  /\ reader' \in [PoolReaders -> [promise : Promises, handle : Handles \cup {NoHandle}]]
         /\ reader'[c].promise = how /\ \A d \in PoolReaders : d # c => reader'[d] = reader[d]
         /\ ReadersHold'
         /\ Held' = Held \ {reader[c].handle} /\ Cardinality(Held') = Cardinality(Held) - 1
         /\ \A d, e \in PoolReaders : reader'[d].handle = reader'[e].handle => d = e \/ reader'[d].handle = NoHandle
<1>1. PoolTyped /\ ReadersHold /\ HandlesCounted /\ CountersAreHandles
  BY DEF PoolIInv, HandlesCounted
<1>2. /\ reader' \in [PoolReaders -> [promise : Promises, handle : Handles \cup {NoHandle}]]
      /\ reader'[c].promise = how /\ reader'[c].handle = NoHandle
      /\ \A d \in PoolReaders : d # c => reader'[d] = reader[d]
  BY <1>1 DEF PoolTyped, PoolRecord, Settled
<1>3. ReadersHold'
  BY <1>1, <1>2 DEF ReadersHold
<1>4. reader[c].handle # NoHandle
  BY <1>1 DEF ReadersHold
<1>5. \A d \in PoolReaders : d # c => reader'[d].handle = reader[d].handle
  BY <1>2
<1> QED
  BY <1>1, <1>2, <1>3, <1>4, <1>5, HeldReturned

LEMMA CloseReturnedStep ==
  ASSUME PoolAssumption, PoolIInv, NEW c \in PoolReaders, reader[c].promise = "reading",
         CloseReturned(c), UNCHANGED writer
  PROVE  PoolIInv'
<1>1. PoolTyped /\ ReadersHold /\ HandlesCounted /\ CountersAreHandles /\ QueuedOnce /\ WritesInTurn /\ ClosedAfterUse
  BY DEF PoolIInv, HandlesCounted
<1>2. /\ pool \in PoolRecord /\ reader[c].handle \in Held /\ Cardinality(Held) \in Nat
      /\ pool.active = Cardinality(Held) /\ pool.open = Cardinality(Held) + Len(pool.idle)
      /\ Len(pool.idle) \in Nat /\ MaxReaders \in Nat /\ pool.open <= MaxReaders
  BY Returning
<1>3. pool.active \in Int /\ pool.open \in Int
  BY <1>2 DEF PoolRecord
<1>4. /\ pool' = [pool EXCEPT !.active = pool.active - 1, !.open = pool.open - 1]
      /\ reader' = [reader EXCEPT ![c] = Settled("done")] /\ bad' = bad \ {reader[c].handle} /\ pool.closed
      /\ UNCHANGED <<poolFaults, forgotten>>
  BY <1>2 DEF CloseReturned, Dropped, Returned, PoolRecord
<1>5. /\ pool' \in PoolRecord /\ pool'.waiters = pool.waiters /\ pool'.idle = pool.idle /\ pool'.open = pool.open - 1
      /\ pool'.active = pool.active - 1 /\ pool'.writing = pool.writing
      /\ pool'.writes = pool.writes /\ pool'.closed = pool.closed /\ pool'.writerOpen = pool.writerOpen /\ pool'.late = pool.late
  <2>1. pool.active - 1 \in Int /\ pool.open - 1 \in Int
    BY <1>3
  <2> QED
    BY <1>2, <1>4, <2>1 DEF PoolRecord
<1>6. /\ reader' \in [PoolReaders -> [promise : Promises, handle : Handles \cup {NoHandle}]]
      /\ reader'[c].promise = "done" /\ \A d \in PoolReaders : d # c => reader'[d] = reader[d]
      /\ ReadersHold'
      /\ Held' = Held \ {reader[c].handle} /\ Cardinality(Held') = Cardinality(Held) - 1
      /\ \A d, e \in PoolReaders : reader'[d].handle = reader'[e].handle => d = e \/ reader'[d].handle = NoHandle
  <2>1. "done" \in Promises /\ "done" # "reading"
    BY DEF Promises
  <2> QED
    BY <1>4, <2>1, ReaderLeaves
<1>7. PoolTyped'
  BY <1>1, <1>5, <1>6 DEF PoolTyped
<1>8. HandlesCounted'
  <2>1. pool'.open <= MaxReaders /\ pool'.active = Cardinality(Held') /\ pool'.open = Cardinality(Held') + Len(pool'.idle)
    BY <1>2, <1>3, <1>5, <1>6
  <2>2. bad' \subseteq OpenHandles'
    BY <1>1, <1>4, <1>5, <1>6 DEF OpenHandles, HandlesCounted
  <2>3. Held' \cap Range(pool'.idle) = {} /\ IsInjective(pool'.idle)
    BY <1>1, <1>5, <1>6 DEF CountersAreHandles
  <2> QED
    BY <1>6, <2>1, <2>2, <2>3 DEF HandlesCounted, CountersAreHandles
<1>9. QueuedOnce'
  <2>1. pool.waiters = <<>>
    BY <1>1, <1>4 DEF QueuedOnce
  <2>2. \A d \in PoolReaders : reader'[d].promise = "waiting" => reader[d].promise = "waiting"
    BY <1>6
  <2> QED
    BY <1>1, <1>4, <1>5, <2>1, <2>2 DEF QueuedOnce, WaitersAreQueued
<1>10. ClosedAfterUse'
  BY <1>1, <1>2, <1>5 DEF ClosedAfterUse
<1> QED
  BY <1>1, <1>5, <1>6, <1>7, <1>8, <1>9, <1>10, WritesUntouched DEF PoolIInv

LEMMA HandOverStep ==
  ASSUME PoolAssumption, PoolIInv, NEW c \in PoolReaders, reader[c].promise = "reading",
         HandOver(c), UNCHANGED writer
  PROVE  PoolIInv'
<1> DEFINE h == reader[c].handle
           q == pool.waiters
           w == Head(q)
<1>1. PoolTyped /\ ReadersHold /\ HandlesCounted /\ CountersAreHandles /\ QueuedOnce /\ WritesInTurn /\ ClosedAfterUse
  BY DEF PoolIInv, HandlesCounted
<1>2. /\ pool \in PoolRecord /\ h \in Held /\ h \in Handles /\ h # NoHandle /\ Cardinality(Held) \in Nat
      /\ pool.active = Cardinality(Held) /\ pool.open = Cardinality(Held) + Len(pool.idle)
      /\ Len(pool.idle) \in Nat /\ MaxReaders \in Nat /\ pool.open <= MaxReaders /\ c \notin Range(q)
  BY Returning
<1>3. pool.active \in Int /\ pool.open \in Int /\ q \in Seq(PoolReaders) /\ q # <<>> /\ ~pool.closed
  BY <1>2 DEF PoolRecord, HandOver
<1>4. /\ w \in PoolReaders /\ w \in Range(q) /\ Tail(q) \in Seq(PoolReaders) /\ IsInjective(Tail(q))
      /\ Range(Tail(q)) = Range(q) \ {w}
  <2>1. IsInjective(q)
    BY <1>1 DEF QueuedOnce
  <2> HIDE DEF q
  <2> QED
    BY <1>3, <2>1, QueueMovesUp
<1>5. /\ reader[w].promise = "waiting" /\ reader[w].handle = NoHandle /\ w # c
      /\ \A d \in Range(q) : reader[d].promise = "waiting"
  <2>1. \A d \in Range(q) : reader[d].promise = "waiting"
    BY <1>1 DEF QueuedOnce, Range
  <2> HIDE DEF w, q
  <2> QED
    BY <1>1, <1>2, <1>4, <2>1 DEF ReadersHold
<1>6. pool.idle = <<>> /\ Range(pool.idle) = {} /\ Len(pool.idle) = 0
  BY <1>1, <1>3 DEF QueuedOnce, WaitersAreQueued, Range
<1>7. \A d \in PoolReaders : reader[d].promise = "waiting" /\ d \notin forgotten => d \in Range(q)
  BY <1>1 DEF QueuedOnce, WaitersAreQueued
<1>8. \A i \in DOMAIN Tail(q) : Tail(q)[i] \in PoolReaders /\ Tail(q)[i] \in Range(q) /\ Tail(q)[i] # w
  <2> TAKE i \in DOMAIN Tail(q)
  <2>1. Tail(q)[i] \in Range(Tail(q))
    BY DEF Range
  <2>2. \A j \in DOMAIN q : q[j] \in PoolReaders
    BY <1>3, SeqFacts
  <2>3. Range(q) \subseteq PoolReaders
    BY <2>2 DEF Range
  <2> HIDE DEF q, w
  <2> QED
    BY <1>4, <2>1, <2>3
<1>9. CASE /\ pool' = Passed(Returned)
           /\ reader' = [reader EXCEPT ![c] = Settled("done"), ![w] = Granted(h)]
           /\ bad' = bad \ {h}
           /\ UNCHANGED <<poolFaults, forgotten>>
  <2>1. pool' = [pool EXCEPT !.waiters = Tail(q)]
    <3>1. pool.active - 1 + 1 = pool.active
      BY <1>3
    <3>2. pool' = [pool EXCEPT !.active = pool.active - 1 + 1, !.waiters = Tail(q)]
      BY <1>2, <1>9 DEF Passed, Returned, PoolRecord
    <3> QED
      BY <1>2, <3>1, <3>2 DEF PoolRecord
  <2> HIDE DEF h, w
  <2>2. /\ pool' \in PoolRecord /\ pool'.waiters = Tail(q) /\ pool'.idle = pool.idle /\ pool'.open = pool.open
        /\ pool'.active = pool.active /\ pool'.writing = pool.writing
        /\ pool'.writes = pool.writes /\ pool'.closed = pool.closed /\ pool'.writerOpen = pool.writerOpen
    BY <1>2, <1>4, <2>1 DEF PoolRecord
  <2>3. /\ reader' \in [PoolReaders -> [promise : Promises, handle : Handles \cup {NoHandle}]]
        /\ reader'[c].promise = "done" /\ reader'[c].handle = NoHandle
        /\ reader'[w].promise = "reading" /\ reader'[w].handle = h
        /\ \A d \in PoolReaders : d # c /\ d # w => reader'[d] = reader[d]
    <3>1. reader' = [reader EXCEPT ![c] = [promise |-> "done", handle |-> NoHandle],
                                   ![w] = [promise |-> "reading", handle |-> h]]
      BY <1>9 DEF Settled, Granted
    <3> QED
      BY <1>1, <1>2, <1>4, <1>5, <3>1 DEF PoolTyped, PoolRecord, Promises
  <2>4. PoolTyped' /\ ReadersHold'
    BY <1>1, <1>2, <2>2, <2>3 DEF PoolTyped, ReadersHold
  <2>5. /\ Held' = Held
        /\ \A d, e \in PoolReaders : reader'[d].handle = reader'[e].handle => d = e \/ reader'[d].handle = NoHandle
    <3>1. \A d \in PoolReaders : d # c /\ d # w => reader'[d].handle = reader[d].handle
      BY <2>3
    <3> QED
      BY <1>1, <1>2, <1>4, <1>5, <2>3, <3>1, HeldPassed DEF h
  <2>6. HandlesCounted'
    BY <1>1, <1>9, <2>2, <2>5 DEF HandlesCounted, CountersAreHandles, OpenHandles
  <2>7. QueuedOnce'
    <3>1. \A i \in DOMAIN Tail(q) : reader'[Tail(q)[i]].promise = "waiting"
      BY <1>2, <1>5, <1>8, <2>3
    <3>2. \A d \in PoolReaders : reader'[d].promise = "waiting" /\ d \notin forgotten => d \in Range(Tail(q))
      BY <1>4, <1>7, <2>3
    <3> QED
      BY <1>1, <1>3, <1>4, <1>6, <1>9, <2>2, <3>1, <3>2 DEF QueuedOnce, WaitersAreQueued
  <2> QED
    BY <1>1, <1>3, <2>2, <2>4, <2>6, <2>7, NotClosed, OpenStays, WritesUntouched DEF PoolIInv
<1>10. CASE /\ h \in bad /\ Fault
            /\ pool' = [Dropped(Returned) EXCEPT !.waiters = Tail(@)]
            /\ reader' = [reader EXCEPT ![c] = Settled("failed")]
            /\ bad' = bad \ {h}
            /\ forgotten' = forgotten \cup {w}
  <2>1. pool' = [pool EXCEPT !.active = pool.active - 1, !.open = pool.open - 1, !.waiters = Tail(q)]
    BY <1>2, <1>3, <1>10 DEF Dropped, Returned, PoolRecord
  <2> HIDE DEF w
  <2>2. /\ pool' \in PoolRecord /\ pool'.waiters = Tail(q) /\ pool'.idle = pool.idle /\ pool'.open = pool.open - 1
        /\ pool'.active = pool.active - 1 /\ pool'.writing = pool.writing
        /\ pool'.writes = pool.writes /\ pool'.closed = pool.closed /\ pool'.writerOpen = pool.writerOpen
    <3>1. pool.active - 1 \in Int /\ pool.open - 1 \in Int
      BY <1>3
    <3> QED
      BY <1>2, <1>4, <2>1, <3>1 DEF PoolRecord
  <2>3. /\ reader' \in [PoolReaders -> [promise : Promises, handle : Handles \cup {NoHandle}]]
        /\ reader'[c].promise = "failed" /\ \A d \in PoolReaders : d # c => reader'[d] = reader[d]
        /\ ReadersHold'
        /\ Held' = Held \ {reader[c].handle} /\ Cardinality(Held') = Cardinality(Held) - 1
        /\ \A d, e \in PoolReaders : reader'[d].handle = reader'[e].handle => d = e \/ reader'[d].handle = NoHandle
    <3>1. "failed" \in Promises /\ "failed" # "reading"
      BY DEF Promises
    <3> QED
      BY <1>10, <3>1, ReaderLeaves
  <2>4. PoolTyped'
    BY <1>1, <2>2, <2>3 DEF PoolTyped
  <2>5. HandlesCounted'
    <3>1. pool'.open <= MaxReaders /\ pool'.active = Cardinality(Held') /\ pool'.open = Cardinality(Held') + Len(pool'.idle)
      <4>1. pool'.active = Cardinality(Held')
        BY <1>2, <2>2, <2>3
      <4>2. pool'.open = Cardinality(Held') + Len(pool'.idle)
        BY <1>2, <2>2, <2>3, SMTT(30)
      <4>3. pool'.open <= MaxReaders
        BY <1>2, <1>3, <2>2
      <4> QED
        BY <4>1, <4>2, <4>3
    <3>2. bad' \subseteq OpenHandles'
      BY <1>1, <1>10, <2>2, <2>3 DEF OpenHandles, HandlesCounted
    <3>3. Held' \cap Range(pool'.idle) = {} /\ IsInjective(pool'.idle)
      BY <1>1, <2>2, <2>3 DEF CountersAreHandles
    <3> QED
      BY <2>3, <3>1, <3>2, <3>3 DEF HandlesCounted, CountersAreHandles
  <2>6. QueuedOnce'
    <3>1. \A i \in DOMAIN Tail(q) : reader'[Tail(q)[i]].promise = "waiting"
      BY <1>2, <1>5, <1>8, <2>3
    <3>2. \A d \in PoolReaders : reader'[d].promise = "waiting" /\ d \notin forgotten' => d \in Range(Tail(q))
      BY <1>4, <1>7, <1>10, <2>3 DEF w
    <3>3. forgotten' \subseteq PoolReaders
      BY <1>1, <1>4, <1>10 DEF QueuedOnce, w
    <3> QED
      BY <1>1, <1>3, <1>4, <1>6, <2>2, <3>1, <3>2, <3>3 DEF QueuedOnce, WaitersAreQueued
  <2> QED
    BY <1>1, <1>3, <2>2, <2>3, <2>4, <2>5, <2>6, NotClosed, OpenStays, WritesUntouched DEF PoolIInv
<1> QED
  BY <1>9, <1>10 DEF HandOver

LEMMA PutBackStep ==
  ASSUME PoolAssumption, PoolIInv, NEW c \in PoolReaders, reader[c].promise = "reading",
         PutBack(c), UNCHANGED writer
  PROVE  PoolIInv'
<1> DEFINE h == reader[c].handle
           idle == IF h \in bad \/ Len(pool.idle) >= MinReaders THEN pool.idle ELSE Append(pool.idle, h)
           open == IF h \in bad \/ Len(pool.idle) >= MinReaders THEN pool.open - 1 ELSE pool.open
<1>1. PoolTyped /\ ReadersHold /\ HandlesCounted /\ CountersAreHandles /\ QueuedOnce /\ WritesInTurn /\ ClosedAfterUse
  BY DEF PoolIInv, HandlesCounted
<1>2. /\ pool \in PoolRecord /\ h \in Held /\ h \in Handles /\ h # NoHandle /\ Cardinality(Held) \in Nat
      /\ pool.active = Cardinality(Held) /\ pool.open = Cardinality(Held) + Len(pool.idle)
      /\ Len(pool.idle) \in Nat /\ MaxReaders \in Nat /\ pool.open <= MaxReaders
  BY Returning
<1>3. pool.active \in Int /\ pool.open \in Int /\ pool.idle \in Seq(Handles) /\ pool.waiters = <<>> /\ ~pool.closed
  BY <1>2 DEF PoolRecord, PutBack
<1>4. /\ idle \in Seq(Handles) /\ IsInjective(idle) /\ open = Cardinality(Held) - 1 + Len(idle)
      /\ open <= MaxReaders /\ open \in Int
      /\ Range(idle) \cap (Held \ {h}) = {}
      /\ bad \ {h} \subseteq (Held \ {h}) \cup Range(idle)
  <2>1. CASE h \in bad \/ Len(pool.idle) >= MinReaders
    <3>1. idle = pool.idle /\ open = pool.open - 1
      BY <2>1
    <3> HIDE DEF idle, open
    <3> QED
      BY <1>1, <1>2, <1>3, <3>1 DEF CountersAreHandles, HandlesCounted, OpenHandles
  <2>2. CASE ~(h \in bad \/ Len(pool.idle) >= MinReaders)
    <3>1. idle = Append(pool.idle, h) /\ open = pool.open
      BY <2>2
    <3>2. /\ idle \in Seq(Handles) /\ Len(idle) = Len(pool.idle) + 1
          /\ \A i \in 1 .. Len(pool.idle) : idle[i] = pool.idle[i]
          /\ idle[Len(pool.idle) + 1] = h
      BY <1>2, <1>3, <3>1, AppendProperties
    <3> HIDE DEF idle, open, h
    <3>3. DOMAIN idle = 1 .. Len(pool.idle) + 1
      BY <3>2, SeqFacts
    <3>4. /\ \A i \in 1 .. Len(pool.idle) : pool.idle[i] # h
          /\ \A i, j \in 1 .. Len(pool.idle) : pool.idle[i] = pool.idle[j] => i = j
          /\ Range(pool.idle) = {pool.idle[i] : i \in 1 .. Len(pool.idle)}
      BY <1>1, <1>2, IdleFacts
    <3>5. \A i \in 1 .. Len(pool.idle) + 1 : i \in 1 .. Len(pool.idle) \/ i = Len(pool.idle) + 1
      BY <1>2
    <3>6. IsInjective(idle)
      <4>1. \A i, j \in 1 .. Len(pool.idle) + 1 : idle[i] = idle[j] => i = j
        BY <3>2, <3>4, <3>5
      <4> QED
        BY <3>3, <4>1 DEF IsInjective
    <3>7. Range(idle) = Range(pool.idle) \cup {h}
      <4>1. Range(idle) \subseteq Range(pool.idle) \cup {h}
        BY <3>2, <3>3, <3>4, <3>5 DEF Range
      <4>2. h \in Range(idle)
        <5>1. Len(pool.idle) + 1 \in DOMAIN idle
          BY <1>2, <3>3
        <5> QED
          BY <3>2, <5>1 DEF Range
      <4>3. \A i \in 1 .. Len(pool.idle) : i \in DOMAIN idle /\ pool.idle[i] = idle[i]
        BY <1>2, <3>2, <3>3
      <4>4. Range(pool.idle) \subseteq Range(idle)
        BY <3>4, <4>3 DEF Range
      <4> QED
        BY <4>1, <4>2, <4>4
    <3>8. open = Cardinality(Held) - 1 + Len(idle) /\ open <= MaxReaders /\ open \in Int
      BY <1>2, <1>3, <3>1, <3>2
    <3> QED
      BY <1>1, <1>2, <3>2, <3>6, <3>7, <3>8 DEF CountersAreHandles, HandlesCounted, OpenHandles
  <2> QED
    BY <2>1, <2>2
<1>5. /\ pool' = [pool EXCEPT !.active = pool.active - 1, !.open = open, !.idle = idle]
      /\ reader' = [reader EXCEPT ![c] = Settled("done")] /\ bad' = bad \ {h} /\ UNCHANGED <<poolFaults, forgotten>>
  <2>1. CASE h \in bad \/ Len(pool.idle) >= MinReaders
    BY <1>2, <2>1 DEF PutBack, Dropped, Returned, PoolRecord
  <2>2. CASE ~(h \in bad \/ Len(pool.idle) >= MinReaders)
    BY <1>2, <2>2 DEF PutBack, Dropped, Returned, PoolRecord
  <2> QED
    BY <2>1, <2>2
<1> HIDE DEF idle, open
<1>6. /\ pool' \in PoolRecord /\ pool'.waiters = pool.waiters /\ pool'.idle = idle /\ pool'.open = open
      /\ pool'.active = pool.active - 1 /\ pool'.writing = pool.writing
      /\ pool'.writes = pool.writes /\ pool'.closed = pool.closed /\ pool'.writerOpen = pool.writerOpen
  <2>1. pool.active - 1 \in Int
    BY <1>3
  <2> QED
    BY <1>2, <1>4, <1>5, <2>1 DEF PoolRecord
<1>7. /\ reader' \in [PoolReaders -> [promise : Promises, handle : Handles \cup {NoHandle}]]
      /\ reader'[c].promise = "done" /\ \A d \in PoolReaders : d # c => reader'[d] = reader[d]
      /\ ReadersHold'
      /\ Held' = Held \ {h} /\ Cardinality(Held') = Cardinality(Held) - 1
      /\ \A d, e \in PoolReaders : reader'[d].handle = reader'[e].handle => d = e \/ reader'[d].handle = NoHandle
  <2>1. "done" \in Promises /\ "done" # "reading"
    BY DEF Promises
  <2> QED
    BY <1>5, <2>1, ReaderLeaves
<1>8. PoolTyped'
  BY <1>1, <1>6, <1>7 DEF PoolTyped
<1>9. HandlesCounted'
  <2>1. pool'.open <= MaxReaders /\ pool'.active = Cardinality(Held') /\ pool'.open = Cardinality(Held') + Len(pool'.idle)
    BY <1>2, <1>4, <1>6, <1>7
  <2>2. bad' \subseteq OpenHandles'
    BY <1>4, <1>5, <1>6, <1>7 DEF OpenHandles
  <2>3. Held' \cap Range(pool'.idle) = {} /\ IsInjective(pool'.idle)
    BY <1>4, <1>6, <1>7
  <2> QED
    BY <1>7, <2>1, <2>2, <2>3 DEF HandlesCounted, CountersAreHandles
<1>10. QueuedOnce'
  <2>1. \A d \in PoolReaders : reader'[d].promise = "waiting" => reader[d].promise = "waiting"
    BY <1>7
  <2> QED
    BY <1>1, <1>3, <1>5, <1>6, <2>1 DEF QueuedOnce, WaitersAreQueued
<1> QED
  BY <1>1, <1>3, <1>6, <1>7, <1>8, <1>9, <1>10, NotClosed, OpenStays, WritesUntouched DEF PoolIInv

LEMMA AnswerStep ==
  ASSUME PoolAssumption, PoolIInv, NEW c \in PoolReaders, ReadAgain(c) \/ RefuseRead(c)
  PROVE  PoolIInv'
<1>1. PoolTyped /\ ReadersHold /\ HandlesCounted /\ CountersAreHandles /\ QueuedOnce /\ WritesInTurn /\ ClosedAfterUse
  BY DEF PoolIInv, HandlesCounted
<1>2. PICK how \in {"none", "closed"} : reader' = [reader EXCEPT ![c] = Settled(how)]
  BY DEF ReadAgain, RefuseRead
<1>3. /\ UNCHANGED <<pool, writer, bad, poolFaults, forgotten>>
      /\ reader[c].promise \in {"none", "done", "failed", "timed out"}
  BY DEF ReadAgain, RefuseRead
<1>4. reader[c].handle = NoHandle /\ how \in Promises /\ how # "reading" /\ how # "waiting"
  BY <1>1, <1>3 DEF ReadersHold, Promises
<1>5. /\ reader' \in [PoolReaders -> [promise : Promises, handle : Handles \cup {NoHandle}]]
      /\ reader'[c].promise = how /\ \A d \in PoolReaders : d # c => reader'[d] = reader[d]
      /\ ReadersHold' /\ Held' = Held
      /\ \A d, e \in PoolReaders : reader'[d].handle = reader'[e].handle => d = e \/ reader'[d].handle = NoHandle
  BY <1>1, <1>2, <1>4, Settles
<1>6. PoolTyped'
  BY <1>1, <1>3, <1>5 DEF PoolTyped
<1>7. HandlesCounted'
  BY <1>1, <1>3, <1>5 DEF HandlesCounted, CountersAreHandles, OpenHandles
<1>8. QueuedOnce'
  <2>1. \A d \in PoolReaders : reader'[d].promise = "waiting" <=> reader[d].promise = "waiting"
    BY <1>3, <1>4, <1>5
  <2>2. \A i \in DOMAIN pool.waiters : pool.waiters[i] \in PoolReaders
    <3>1. pool.waiters \in Seq(PoolReaders)
      BY <1>1 DEF PoolTyped, PoolRecord
    <3> QED
      BY <3>1, SeqFacts
  <2> QED
    BY <1>1, <1>3, <2>1, <2>2 DEF QueuedOnce, WaitersAreQueued
<1>9. ClosedAfterUse'
  BY <1>1, <1>3, <1>5 DEF ClosedAfterUse
<1> QED
  BY <1>1, <1>3, <1>5, <1>6, <1>7, <1>8, <1>9, WritesUntouched DEF PoolIInv

LEMMA GoBadStep ==
  ASSUME PoolAssumption, PoolIInv, NEW h \in Handles, GoBad(h)
  PROVE  PoolIInv'
BY DEF PoolIInv, GoBad, PoolTyped, ReadersHold, HandlesCounted, CountersAreHandles, OpenHandles, Held,
       QueuedOnce, WaitersAreQueued, WritesInTurn, ClosedAfterUse

-----------------------------------------------------------------------------
(* The writer and the end of the pool.                                     *)

\* What is left of the readers by a step of the writers.
LEMMA ReadersUntouched ==
  ASSUME PoolIInv, UNCHANGED <<reader, bad, forgotten>>, pool' \in PoolRecord,
         writer' \in [PoolWriters -> WritePhases],
         pool'.open = pool.open, pool'.active = pool.active, pool'.idle = pool.idle, pool'.waiters = pool.waiters,
         pool'.closed = pool.closed, pool'.writerOpen = pool.writerOpen, pool'.late = pool.late,
         ~pool.writerOpen /\ ~pool.late /\ ~pool.writing => ~pool'.writing
  PROVE  PoolTyped' /\ ReadersHold' /\ HandlesCounted' /\ QueuedOnce' /\ ClosedAfterUse'
<1>1. PoolTyped' /\ ReadersHold'
  BY DEF PoolIInv, PoolTyped, ReadersHold
<1>2. Held' = Held
  BY DEF Held
<1>3. HandlesCounted'
  BY <1>2 DEF PoolIInv, HandlesCounted, CountersAreHandles, OpenHandles
<1>4. QueuedOnce'
  BY DEF PoolIInv, QueuedOnce, WaitersAreQueued
<1>5. ClosedAfterUse'
  BY <1>2 DEF PoolIInv, ClosedAfterUse
<1> QED
  BY <1>1, <1>3, <1>4, <1>5

LEMMA WriterStart ==
  ASSUME PoolIInv
  PROVE  /\ pool \in PoolRecord /\ pool.writes \in Seq(PoolWriters) /\ pool.writing \in BOOLEAN
         /\ writer \in [PoolWriters -> WritePhases]
         /\ Len(pool.writes) \in Nat /\ DOMAIN pool.writes = 1 .. Len(pool.writes)
         /\ pool.writes = <<>> <=> Len(pool.writes) = 0
<1>1. pool \in PoolRecord /\ pool.writes \in Seq(PoolWriters) /\ pool.writing \in BOOLEAN
      /\ writer \in [PoolWriters -> WritePhases]
  BY DEF PoolIInv, PoolTyped, PoolRecord
<1> QED
  BY <1>1, SeqFacts

LEMMA EnqueueWriteStep ==
  ASSUME PoolAssumption, PoolIInv, NEW w \in PoolWriters, EnqueueWrite(w)
  PROVE  PoolIInv'
<1>1. WritesInTurn /\ ClosedAfterUse /\ PoolTyped
  BY DEF PoolIInv
<1>2. writer[w] = "none" /\ ~pool.closed /\ UNCHANGED <<reader, bad, forgotten>> /\ pool.writerOpen
  BY <1>1, NotClosed DEF EnqueueWrite
<1>3. CASE pool.writing
  <2> DEFINE q == Append(pool.writes, w)
             n == Len(pool.writes)
  <2>1. pool' = [pool EXCEPT !.writes = q] /\ writer' = [writer EXCEPT ![w] = "queued"]
    BY <1>3 DEF EnqueueWrite
  <2>2. /\ q \in Seq(PoolWriters) /\ DOMAIN q = 1 .. n + 1
        /\ (\A i \in 1 .. n : q[i] = pool.writes[i]) /\ q[n + 1] = w
    <3>1. q \in Seq(PoolWriters) /\ Len(q) = n + 1 /\ (\A i \in 1 .. n : q[i] = pool.writes[i]) /\ q[n + 1] = w
      BY WriterStart, AppendProperties
    <3> HIDE DEF q
    <3> QED
      BY <3>1, SeqFacts
  <2> HIDE DEF q
  <2>3. /\ pool' \in PoolRecord /\ pool'.writes = q /\ pool'.writing = TRUE
        /\ writer' \in [PoolWriters -> WritePhases]
        /\ writer'[w] = "queued" /\ \A v \in PoolWriters : v # w => writer'[v] = writer[v]
    BY <1>3, <2>1, <2>2, WriterStart DEF PoolRecord, WritePhases
  <2>4. PoolTyped' /\ ReadersHold' /\ HandlesCounted' /\ QueuedOnce' /\ ClosedAfterUse'
    <3>1. /\ pool'.open = pool.open /\ pool'.active = pool.active /\ pool'.idle = pool.idle
          /\ pool'.waiters = pool.waiters /\ pool'.closed = pool.closed
          /\ pool'.writerOpen = pool.writerOpen /\ pool'.late = pool.late
      BY <2>1, WriterStart DEF PoolRecord
    <3> QED
      BY <1>2, <2>3, <3>1, ReadersUntouched
  <2>5. n \in Nat /\ DOMAIN pool.writes = 1 .. n /\ n + 1 \in 1 .. n + 1
        /\ \A i \in 1 .. n + 1 : i \in 1 .. n \/ i = n + 1
    <3>1. n \in Nat /\ DOMAIN pool.writes = 1 .. n
      BY WriterStart
    <3> HIDE DEF n
    <3> QED
      BY <3>1
  <2>6. /\ {v \in PoolWriters : writer[v] = "queued"} = {pool.writes[i] : i \in 1 .. n}
        /\ \A i, j \in 1 .. n : pool.writes[i] = pool.writes[j] => i = j
    BY <1>1, <2>5 DEF WritesInTurn, Range, IsInjective
  <2> HIDE DEF n
  <2>7. \A i \in 1 .. n : q[i] # w
    BY <1>2, <2>2, <2>6
  <2>8. IsInjective(q)
    <3>1. \A i, j \in 1 .. n + 1 : q[i] = q[j] => i = j
      BY <2>2, <2>5, <2>6, <2>7
    <3> QED
      BY <2>2, <3>1 DEF IsInjective
  <2>9. {v \in PoolWriters : writer'[v] = "queued"} = Range(q)
    <3>1. ASSUME NEW v \in PoolWriters, writer'[v] = "queued" PROVE v \in Range(q)
      BY <2>2, <2>3, <2>5, <2>6, <3>1 DEF Range
    <3>2. ASSUME NEW i \in 1 .. n + 1 PROVE q[i] \in PoolWriters /\ writer'[q[i]] = "queued"
      BY <2>2, <2>3, <2>5, <2>6
    <3> QED
      BY <2>2, <3>1, <3>2 DEF Range
  <2>10. WritesInTurn'
    <3>1. \A v \in PoolWriters : writer'[v] = "writing" <=> writer[v] = "writing"
      BY <1>2, <2>3
    <3> QED
      BY <1>1, <1>3, <2>3, <2>8, <2>9, <3>1 DEF WritesInTurn
  <2> QED
    BY <2>4, <2>10 DEF PoolIInv
<1>4. CASE ~pool.writing
  <2>1. pool' = [pool EXCEPT !.writing = TRUE] /\ writer' = [writer EXCEPT ![w] = "writing"]
    BY <1>4 DEF EnqueueWrite
  <2>2. /\ pool' \in PoolRecord /\ pool'.writes = pool.writes /\ pool'.writing = TRUE
        /\ writer' \in [PoolWriters -> WritePhases]
        /\ writer'[w] = "writing" /\ \A v \in PoolWriters : v # w => writer'[v] = writer[v]
    BY <2>1, WriterStart DEF PoolRecord, WritePhases
  <2>3. PoolTyped' /\ ReadersHold' /\ HandlesCounted' /\ QueuedOnce' /\ ClosedAfterUse'
    <3>1. /\ pool'.open = pool.open /\ pool'.active = pool.active /\ pool'.idle = pool.idle
          /\ pool'.waiters = pool.waiters /\ pool'.closed = pool.closed
          /\ pool'.writerOpen = pool.writerOpen /\ pool'.late = pool.late
      BY <2>1, WriterStart DEF PoolRecord
    <3> QED
      BY <1>2, <2>2, <3>1, ReadersUntouched
  <2>4. WritesInTurn'
    <3>1. \A v \in PoolWriters : writer[v] # "writing"
      BY <1>1, <1>4 DEF WritesInTurn
    <3>2. \A v \in PoolWriters : writer'[v] = "writing" <=> v = w
      BY <2>2, <3>1
    <3>3. \A v \in PoolWriters : writer'[v] = "queued" <=> writer[v] = "queued"
      BY <1>2, <2>2
    <3> QED
      BY <1>1, <2>2, <3>2, <3>3 DEF WritesInTurn
  <2> QED
    BY <2>3, <2>4 DEF PoolIInv
<1> QED
  BY <1>3, <1>4

LEMMA EndWriteStep ==
  ASSUME PoolAssumption, PoolIInv, NEW w \in PoolWriters, EndWrite(w)
  PROVE  PoolIInv'
<1> DEFINE how == IF pool.writerOpen THEN "done" ELSE "failed"
           q == pool.writes
           next == Head(q)
<1>1. WritesInTurn /\ ClosedAfterUse /\ PoolTyped
  BY DEF PoolIInv
<1>2. writer[w] = "writing" /\ pool.writing /\ UNCHANGED <<reader, bad, forgotten>> /\ how \in {"done", "failed"}
  BY <1>1 DEF EndWrite, WritesInTurn
<1>3. \A v \in PoolWriters : writer[v] = "writing" => v = w
  BY <1>1, <1>2 DEF WritesInTurn
<1>4. CASE q = <<>>
  <2>1. pool' = [pool EXCEPT !.writing = FALSE] /\ writer' = [writer EXCEPT ![w] = how]
    BY <1>4 DEF EndWrite
  <2> HIDE DEF how
  <2>2. /\ pool' \in PoolRecord /\ pool'.writes = pool.writes /\ pool'.writing = FALSE
        /\ writer' \in [PoolWriters -> WritePhases]
        /\ writer'[w] = how /\ \A v \in PoolWriters : v # w => writer'[v] = writer[v]
    BY <1>2, <2>1, WriterStart DEF PoolRecord, WritePhases
  <2>3. PoolTyped' /\ ReadersHold' /\ HandlesCounted' /\ QueuedOnce' /\ ClosedAfterUse'
    <3>1. /\ pool'.open = pool.open /\ pool'.active = pool.active /\ pool'.idle = pool.idle
          /\ pool'.waiters = pool.waiters /\ pool'.closed = pool.closed
          /\ pool'.writerOpen = pool.writerOpen /\ pool'.late = pool.late
      BY <2>1, WriterStart DEF PoolRecord
    <3> QED
      BY <1>2, <2>2, <3>1, ReadersUntouched
  <2>4. WritesInTurn'
    <3>1. \A v \in PoolWriters : writer'[v] # "writing"
      BY <1>2, <1>3, <2>2
    <3>2. \A v \in PoolWriters : writer'[v] = "queued" <=> writer[v] = "queued"
      BY <1>2, <2>2
    <3> QED
      BY <1>1, <1>4, <2>2, <3>1, <3>2 DEF WritesInTurn
  <2> QED
    BY <2>3, <2>4 DEF PoolIInv
<1>5. CASE q # <<>>
  <2>1. pool' = [pool EXCEPT !.writes = Tail(q)] /\ writer' = [writer EXCEPT ![w] = how, ![next] = "writing"]
    BY <1>5 DEF EndWrite
  <2>2. /\ next \in PoolWriters /\ next \in Range(q) /\ Tail(q) \in Seq(PoolWriters) /\ IsInjective(Tail(q))
        /\ Range(Tail(q)) = Range(q) \ {next}
    <3>1. q \in Seq(PoolWriters) /\ IsInjective(q)
      BY <1>1, WriterStart DEF WritesInTurn
    <3> HIDE DEF q
    <3> QED
      BY <1>5, <3>1, QueueMovesUp
  <2>3. {v \in PoolWriters : writer[v] = "queued"} = Range(q)
    BY <1>1 DEF WritesInTurn
  <2> HIDE DEF how, next, q
  <2>4. writer[next] = "queued" /\ next # w
    BY <1>2, <2>2, <2>3
  <2>5. /\ pool' \in PoolRecord /\ pool'.writes = Tail(q) /\ pool'.writing = TRUE
        /\ writer' \in [PoolWriters -> WritePhases]
        /\ writer'[w] = how /\ writer'[next] = "writing"
        /\ \A v \in PoolWriters : v # w /\ v # next => writer'[v] = writer[v]
    BY <1>2, <2>1, <2>2, <2>4, WriterStart DEF PoolRecord, WritePhases
  <2>6. PoolTyped' /\ ReadersHold' /\ HandlesCounted' /\ QueuedOnce' /\ ClosedAfterUse'
    <3>1. /\ pool'.open = pool.open /\ pool'.active = pool.active /\ pool'.idle = pool.idle
          /\ pool'.waiters = pool.waiters /\ pool'.closed = pool.closed
          /\ pool'.writerOpen = pool.writerOpen /\ pool'.late = pool.late
      BY <2>1, WriterStart DEF PoolRecord
    <3> QED
      BY <1>2, <2>5, <3>1, ReadersUntouched
  <2>7. WritesInTurn'
    <3>1. \A v \in PoolWriters : writer'[v] = "writing" <=> v = next
      BY <1>2, <1>3, <2>4, <2>5
    <3>2. {v \in PoolWriters : writer'[v] = "queued"} = Range(Tail(q))
      BY <1>2, <2>2, <2>3, <2>4, <2>5
    <3> QED
      BY <2>2, <2>5, <3>1, <3>2 DEF WritesInTurn
  <2> QED
    BY <2>6, <2>7 DEF PoolIInv
<1> QED
  BY <1>4, <1>5

LEMMA RefuseWriteStep ==
  ASSUME PoolAssumption, PoolIInv, NEW w \in PoolWriters, RefuseWrite(w)
  PROVE  PoolIInv'
<1>1. /\ writer' = [writer EXCEPT ![w] = "closed"] /\ writer[w] = "none"
      /\ UNCHANGED <<pool, reader, bad, poolFaults, forgotten>>
  BY DEF RefuseWrite
<1>2. /\ writer' \in [PoolWriters -> WritePhases] /\ writer'[w] = "closed"
      /\ \A v \in PoolWriters : v # w => writer'[v] = writer[v]
  BY <1>1, WriterStart DEF WritePhases
<1>3. PoolTyped' /\ ReadersHold' /\ HandlesCounted' /\ QueuedOnce' /\ ClosedAfterUse'
  BY <1>1, <1>2, WriterStart, ReadersUntouched
<1>4. WritesInTurn'
  BY <1>1, <1>2 DEF PoolIInv, WritesInTurn
<1> QED
  BY <1>3, <1>4 DEF PoolIInv

LEMMA CloseStep ==
  ASSUME PoolAssumption, PoolIInv, Close
  PROVE  PoolIInv'
<1>1. PoolTyped /\ ReadersHold /\ HandlesCounted /\ CountersAreHandles /\ QueuedOnce /\ WritesInTurn /\ ClosedAfterUse
  BY DEF PoolIInv, HandlesCounted
<1>2. /\ pool' = [pool EXCEPT !.closed = TRUE, !.waiters = <<>>] /\ ~pool.closed
      /\ reader' = [c \in PoolReaders |-> IF c \in Range(pool.waiters) THEN Settled("closed") ELSE reader[c]]
      /\ UNCHANGED <<writer, bad, poolFaults, forgotten>>
  BY DEF Close
<1>3. pool \in PoolRecord /\ <<>> \in Seq(PoolReaders)
  BY <1>1, EmptySeq DEF PoolTyped
<1>4. /\ pool' \in PoolRecord /\ pool'.waiters = <<>> /\ pool'.idle = pool.idle /\ pool'.open = pool.open
      /\ pool'.active = pool.active /\ pool'.writing = pool.writing
      /\ pool'.writes = pool.writes /\ pool'.closed = TRUE /\ pool'.writerOpen = pool.writerOpen
  BY <1>2, <1>3 DEF PoolRecord
<1>5. \A c \in Range(pool.waiters) : reader[c].promise = "waiting"
  BY <1>1 DEF QueuedOnce, Range
<1>6. \A c \in PoolReaders : c \in Range(pool.waiters) => reader[c].handle = NoHandle
  BY <1>1, <1>5 DEF ReadersHold
<1>7. /\ reader' \in [PoolReaders -> [promise : Promises, handle : Handles \cup {NoHandle}]]
      /\ \A c \in PoolReaders : IF c \in Range(pool.waiters) THEN reader'[c].promise = "closed" /\ reader'[c].handle = NoHandle
                                                           ELSE reader'[c] = reader[c]
  BY <1>1, <1>2 DEF PoolTyped, PoolRecord, Settled, Promises
<1>8. PoolTyped' /\ ReadersHold'
  BY <1>1, <1>2, <1>4, <1>7 DEF PoolTyped, ReadersHold
<1>9. /\ Held' = Held
      /\ \A c, d \in PoolReaders : reader'[c].handle = reader'[d].handle => c = d \/ reader'[c].handle = NoHandle
  <2>1. \A c \in PoolReaders : reader'[c].handle = reader[c].handle
    BY <1>6, <1>7
  <2> QED
    BY <1>1, <2>1, HeldStays
<1>10. HandlesCounted'
  BY <1>1, <1>2, <1>4, <1>9 DEF HandlesCounted, CountersAreHandles, OpenHandles
<1>11. QueuedOnce'
  <2>1. ASSUME NEW c \in PoolReaders, reader'[c].promise = "waiting" PROVE c \in forgotten
    BY <1>1, <1>7, <2>1 DEF QueuedOnce, WaitersAreQueued
  <2>2. IsInjective(<<>>) /\ DOMAIN <<>> = {}
    BY DEF IsInjective
  <2> QED
    BY <1>1, <1>2, <1>4, <2>1, <2>2 DEF QueuedOnce, WaitersAreQueued
<1>12. ClosedAfterUse'
  BY <1>1, <1>2, <1>4, NotClosed DEF ClosedAfterUse
<1> QED
  BY <1>1, <1>2, <1>4, <1>8, <1>10, <1>11, <1>12, WritesUntouched DEF PoolIInv

LEMMA CloseHandlesStep ==
  ASSUME PoolAssumption, PoolIInv, NEW late \in BOOLEAN, CloseHandles(late)
  PROVE  PoolIInv'
<1>1. PoolTyped /\ ReadersHold /\ HandlesCounted /\ CountersAreHandles /\ QueuedOnce /\ WritesInTurn /\ ClosedAfterUse
  BY DEF PoolIInv, HandlesCounted
<1>2. /\ pool' = [pool EXCEPT !.idle = <<>>, !.open = pool.open - Len(pool.idle), !.writerOpen = FALSE, !.late = late]
      /\ bad' = bad \cap Held /\ UNCHANGED <<reader, writer, poolFaults, forgotten>>
      /\ pool.closed /\ (late \/ (pool.active = 0 /\ ~pool.writing))
  BY DEF CloseHandles
<1>3. /\ pool \in PoolRecord /\ <<>> \in Seq(Handles) /\ Len(<<>>) = 0 /\ Cardinality(Held) \in Nat
      /\ pool.open = Cardinality(Held) + Len(pool.idle) /\ Len(pool.idle) \in Nat /\ pool.active = Cardinality(Held)
      /\ MaxReaders \in Nat /\ pool.open <= MaxReaders
  BY <1>1, EmptySeq, HeldFacts, IdleFacts DEF PoolTyped, CountersAreHandles, HandlesCounted, PoolAssumption
<1>4. pool.open - Len(pool.idle) = Cardinality(Held) /\ Cardinality(Held) <= MaxReaders
  BY <1>3
<1>5. /\ pool' \in PoolRecord /\ pool'.waiters = pool.waiters /\ pool'.idle = <<>> /\ pool'.open = Cardinality(Held)
      /\ pool'.active = Cardinality(Held) /\ pool'.writing = pool.writing
      /\ pool'.writes = pool.writes /\ pool'.closed = TRUE /\ pool'.writerOpen = FALSE /\ pool'.late = late
  <2>1. pool' = [pool EXCEPT !.idle = <<>>, !.open = Cardinality(Held), !.writerOpen = FALSE, !.late = late]
    BY <1>2, <1>4
  <2>2. Cardinality(Held) \in Int
    BY <1>3
  <2> QED
    BY <1>2, <1>3, <2>1, <2>2 DEF PoolRecord
<1>6. Held' = Held
  BY <1>2 DEF Held
<1>7. PoolTyped' /\ ReadersHold'
  BY <1>1, <1>2, <1>5 DEF PoolTyped, ReadersHold
<1>8. HandlesCounted'
  <2>1. pool'.open <= MaxReaders /\ pool'.active = Cardinality(Held') /\ pool'.open = Cardinality(Held') + Len(pool'.idle)
    BY <1>3, <1>4, <1>5, <1>6
  <2>2. bad' \subseteq OpenHandles'
    BY <1>2, <1>6 DEF OpenHandles
  <2>3. Held' \cap Range(pool'.idle) = {} /\ IsInjective(pool'.idle)
    BY <1>5 DEF IsInjective, Range
  <2> QED
    BY <1>1, <1>2, <2>1, <2>2, <2>3 DEF HandlesCounted, CountersAreHandles
<1>9. QueuedOnce'
  BY <1>1, <1>2, <1>5 DEF QueuedOnce, WaitersAreQueued
<1>10. ClosedAfterUse'
  <2>1. ASSUME ~late PROVE Held = {} /\ ~pool.writing /\ Cardinality(Held) = 0
    <3>1. Cardinality(Held) = 0 /\ ~pool.writing
      BY <1>2, <1>3, <2>1
    <3>2. IsFiniteSet(Held)
      BY HeldFacts
    <3> QED
      BY <3>1, <3>2, FS_EmptySet
  <2> QED
    BY <1>5, <1>6, <2>1 DEF ClosedAfterUse
<1> QED
  BY <1>1, <1>2, <1>5, <1>7, <1>8, <1>9, <1>10, WritesUntouched DEF PoolIInv

-----------------------------------------------------------------------------

LEMMA PoolStart == ASSUME PoolAssumption, PoolInit PROVE PoolIInv
<1> DEFINE first == [i \in 1 .. MinReaders |-> i]
<1>1. MinReaders \in Nat /\ MaxReaders \in Nat /\ MinReaders <= MaxReaders
  BY DEF PoolAssumption
<1>2. first \in Seq(Handles) /\ DOMAIN first = 1 .. MinReaders /\ Len(first) = MinReaders
  <2>1. first \in [1 .. MinReaders -> Handles]
    BY <1>1 DEF Handles
  <2>2. first \in Seq(Handles)
    BY <1>1, <2>1
  <2> HIDE DEF first
  <2>3. DOMAIN first = 1 .. MinReaders
    BY <2>1
  <2>4. Len(first) \in Nat /\ 1 .. Len(first) = 1 .. MinReaders
    BY <2>2, <2>3, SeqFacts
  <2> QED
    BY <1>1, <2>2, <2>3, <2>4
<1>3. IsInjective(first)
  BY DEF IsInjective
<1>4. Held = {} /\ Cardinality({}) = 0
  BY HeldFacts, FS_EmptySet DEF PoolInit, Settled, Held
<1>5. /\ pool = [open |-> MinReaders, active |-> 0, idle |-> first, waiters |-> <<>>, writing |-> FALSE,
                 writes |-> <<>>, closed |-> FALSE, writerOpen |-> TRUE, late |-> FALSE]
      /\ reader = [c \in PoolReaders |-> [promise |-> "none", handle |-> NoHandle]]
      /\ writer = [w \in PoolWriters |-> "none"] /\ bad = {} /\ forgotten = {}
  BY DEF PoolInit, Settled
<1> HIDE DEF first
<1>6. <<>> \in Seq(PoolReaders) /\ <<>> \in Seq(PoolWriters) /\ IsInjective(<<>>) /\ Range(<<>>) = {} /\ DOMAIN <<>> = {}
  <2>1. <<>> \in Seq(PoolReaders) /\ <<>> \in Seq(PoolWriters)
    BY EmptySeq
  <2> QED
    BY <2>1 DEF IsInjective, Range
<1>7. PoolTyped
  BY <1>1, <1>2, <1>5, <1>6 DEF PoolTyped, PoolRecord, Promises, WritePhases
<1>8. ReadersHold
  BY <1>5 DEF ReadersHold
<1>9. HandlesCounted
  <2>1. pool.open <= MaxReaders /\ pool.active = Cardinality(Held) /\ pool.open = Cardinality(Held) + Len(pool.idle)
    BY <1>1, <1>2, <1>4, <1>5
  <2>2. Held \cap Range(pool.idle) = {} /\ IsInjective(pool.idle)
    BY <1>3, <1>4, <1>5
  <2> QED
    BY <1>5, <2>1, <2>2 DEF HandlesCounted, CountersAreHandles
<1>10. QueuedOnce
  BY <1>5, <1>6 DEF QueuedOnce, WaitersAreQueued
<1>11. WritesInTurn
  BY <1>5, <1>6 DEF WritesInTurn
<1>12. ClosedAfterUse
  BY <1>5 DEF ClosedAfterUse
<1> QED
  BY <1>7, <1>8, <1>9, <1>10, <1>11, <1>12 DEF PoolIInv

LEMMA PoolShows == ASSUME PoolAssumption, PoolIInv PROVE PoolInv
<1>1. PoolTyped /\ HandlesCounted /\ CountersAreHandles /\ QueuedOnce /\ WritesInTurn /\ ClosedAfterUse
  BY DEF PoolIInv, HandlesCounted
<1>2. PoolTypeOK
  <2>1. /\ pool.open = Cardinality(Held) + Len(pool.idle) /\ pool.active = Cardinality(Held) /\ pool.open <= MaxReaders
        /\ Cardinality(Held) \in Nat /\ Len(pool.idle) \in Nat /\ MaxReaders \in Nat
    BY <1>1, HeldFacts, IdleFacts DEF CountersAreHandles, HandlesCounted, PoolAssumption
  <2>2. pool.open \in 0..MaxReaders /\ pool.active \in 0..MaxReaders
    BY <2>1
  <2>3. Range(pool.idle) \subseteq Handles
    BY <1>1, IdleFacts
  <2>4. Range(pool.waiters) \subseteq PoolReaders
    <3>1. pool.waiters \in Seq(PoolReaders)
      BY <1>1 DEF PoolTyped, PoolRecord
    <3>2. \A i \in DOMAIN pool.waiters : pool.waiters[i] \in PoolReaders
      BY <3>1, SeqFacts
    <3> QED
      BY <3>2 DEF Range
  <2>5. \A c \in PoolReaders : reader[c].handle \in Handles \cup {NoHandle}
    BY <1>1 DEF PoolTyped
  <2> QED
    BY <1>1, <2>2, <2>3, <2>4, <2>5 DEF PoolTypeOK, HandlesCounted, QueuedOnce
<1>3. UsersOutliveNothing
  <2> DEFINE W == {w \in PoolWriters : writer[w] = "writing"}
  <2>1. Cardinality(W) = IF pool.writing THEN 1 ELSE 0
    <3>1. CASE pool.writing
      <4>1. PICK w \in PoolWriters : writer[w] = "writing"
        BY <1>1, <3>1 DEF WritesInTurn
      <4>2. W = {w}
        BY <1>1, <4>1 DEF WritesInTurn
      <4>3. Cardinality({w}) = 1
        BY FS_Singleton
      <4> QED
        BY <3>1, <4>2, <4>3
    <3>2. CASE ~pool.writing
      <4>1. W = {}
        BY <1>1, <3>2 DEF WritesInTurn
      <4> QED
        BY <3>2, <4>1, FS_EmptySet
    <3> QED
      BY <3>1, <3>2
  <2> QED
    BY <1>1, <2>1 DEF UsersOutliveNothing, WritesInTurn, ClosedAfterUse
<1> QED
  BY <1>1, <1>2, <1>3 DEF PoolInv, QueuedOnce

\* The pool counts what is open and in use, gives no handle to two callers, keeps nobody waiting
\* beside an idle handle nor out of the queue but by a failed opening, runs one write at a time,
\* and closes nothing under its user before the drain's deadline: for any number of callers and
\* handles, whatever goes bad, fails to open or gives up in whatever order (db/pool.ts).
THEOREM PoolHolds == PoolSpec => []PoolInv
<1> USE PoolAssumption
<1>1. PoolInit => PoolIInv
  BY PoolStart
<1>2. PoolIInv /\ [PoolNext]_poolVars => PoolIInv'
  <2> SUFFICES ASSUME PoolIInv, [PoolNext]_poolVars PROVE PoolIInv'
    OBVIOUS
  <2>1. ASSUME NEW c \in PoolReaders, ReadStep(c) PROVE PoolIInv'
    <3>1. ASSUME Release(c) PROVE PoolIInv'
      <4>1. reader[c].promise = "reading" /\ UNCHANGED writer /\ (CloseReturned(c) \/ HandOver(c) \/ PutBack(c))
        BY <3>1 DEF Release
      <4> QED
        BY <4>1, CloseReturnedStep, HandOverStep, PutBackStep
    <3> QED
      BY <2>1, <3>1, TakeIdleStep, OpenNewStep, WaitStep, GiveUpStep, AnswerStep DEF ReadStep
  <2>2. CASE UNCHANGED poolVars
    <3>1. UNCHANGED <<pool, reader, writer, bad, poolFaults, forgotten>>
      BY <2>2 DEF poolVars
    <3>2. PoolTyped' /\ ReadersHold' /\ HandlesCounted' /\ QueuedOnce' /\ ClosedAfterUse'
      BY <3>1, ReadersUntouched DEF PoolIInv, PoolTyped
    <3>3. WritesInTurn'
      BY <3>1 DEF PoolIInv, WritesInTurn
    <3> QED
      BY <3>2, <3>3 DEF PoolIInv
  <2> QED
    BY <2>1, <2>2, EnqueueWriteStep, EndWriteStep, RefuseWriteStep, GoBadStep, CloseStep, CloseHandlesStep DEF PoolNext
<1>3. PoolIInv => PoolInv
  BY PoolShows
<1> QED
  BY <1>1, <1>2, <1>3, PTL DEF PoolSpec

-----------------------------------------------------------------------------
FleetStatuses == {"none", "online", "offline"}
Rows == [status : FleetStatuses, seen : 0 .. FleetEnd, stale : -1 .. FleetEnd]

FleetTyped ==
  /\ agentRow \in [FleetAgents -> Rows]
  /\ serving \in BOOLEAN /\ lastPass \in -1 .. FleetEnd /\ fleetTime \in 0 .. FleetEnd /\ lastPass <= fleetTime
  /\ listing \in [agents : SUBSET FleetAgents, until : Int]
  /\ alerts \in [FleetAgents -> {"none", "quarantined", "recovered", "evicted"}]
  /\ swept \subseteq FleetAgents
  /\ walk \in [state : {"none", "reading", "done"}, seen : Int, id : Int,
               got : SUBSET FleetAgents, began : SUBSET FleetAgents, touched : SUBSET FleetAgents]

\* A row that is gone keeps nothing, and no agent was seen in the future.
RowsStand ==
  \A a \in FleetAgents : /\ agentRow[a].status = "none" => agentRow[a] = NoRow
                         /\ agentRow[a].seen <= fleetTime

\* Whoever nobody wrote since the client began has been listed, or comes on a later page.
WalkStands ==
  \A a \in walk.began \ walk.touched :
    /\ walk.state = "reading" => agentRow[a].status # "none" /\ (a \in walk.got \/ Beyond(a))
    /\ walk.state = "done" => a \in walk.got

FleetIInv ==
  FleetTyped /\ RowsStand /\ NoneLingers /\ ListedAreEnlisted /\ WalkStands /\ QuarantineIsTold

-----------------------------------------------------------------------------
(* What a step does to one row.                                            *)

\* Written or taken offline at this instant, as often as may be, or deleted.
Moved(row, new) ==
  /\ new \in Rows
  /\ new.status = "none" => new = NoRow
  /\ new.status # "none" =>
       /\ new.stale \in {row.stale, NoClock}
       /\ \/ new.seen = fleetTime
          \/ /\ new.seen = row.seen /\ new.stale = row.stale
             /\ row.status # "none" /\ new.status \in {row.status, "offline"}

LEMMA NoRowIs ==
  ASSUME FleetAssumption
  PROVE  NoRow \in Rows /\ NoRow.status = "none" /\ NoRow.stale = NoClock /\ NoRow.seen = 0
BY DEF NoRow, Rows, FleetStatuses, NoClock, FleetAssumption

LEMMA RowStays ==
  ASSUME NEW row \in Rows, row.status = "none" => row = NoRow
  PROVE  Moved(row, row)
BY DEF Moved

LEMMA RowLeaves ==
  ASSUME FleetAssumption, NEW row
  PROVE  Moved(row, NoRow)
BY NoRowIs DEF Moved

LEMMA UpsertFacts ==
  ASSUME FleetAssumption, fleetTime \in 0 .. FleetEnd, NEW row \in Rows, NEW s \in {"online", "offline"}
  PROVE  /\ Upserted(row, s) \in Rows /\ Upserted(row, s).status = s
         /\ Upserted(row, s).seen = fleetTime /\ Upserted(row, s).stale = row.stale
BY DEF Upserted, Rows, FleetStatuses

LEMMA RowWritten ==
  ASSUME FleetAssumption, fleetTime \in 0 .. FleetEnd, NEW row \in Rows, NEW s \in {"online", "offline"}
  PROVE  Moved(row, Upserted(row, s)) /\ Upserted(row, s).status # "none"
BY UpsertFacts DEF Moved

LEMMA OfflineFacts ==
  ASSUME NEW row \in Rows
  PROVE  LET off == [row EXCEPT !.status = "offline"] IN
         off \in Rows /\ off.status = "offline" /\ off.seen = row.seen /\ off.stale = row.stale
BY DEF Rows, FleetStatuses

LEMMA RowOffline ==
  ASSUME NEW row \in Rows, row.status # "none"
  PROVE  /\ Moved(row, [row EXCEPT !.status = "offline"])
         /\ [row EXCEPT !.status = "offline"].status # "none"
BY OfflineFacts DEF Moved

LEMMA MovesCompose ==
  ASSUME FleetAssumption, NEW r \in Rows, NEW s, NEW t, Moved(r, s), Moved(s, t)
  PROVE  Moved(r, t)
BY NoRowIs DEF Moved

-----------------------------------------------------------------------------
(* What a step does to the table.                                          *)

\* The client's listing, whatever a step that notes what it writes does.
LEMMA WalkKept ==
  ASSUME FleetTyped, WalkStands, Touching
  PROVE  /\ WalkStands'
         /\ walk' \in [state : {"none", "reading", "done"}, seen : Int, id : Int,
                       got : SUBSET FleetAgents, began : SUBSET FleetAgents, touched : SUBSET FleetAgents]
<1> DEFINE hit == {a \in FleetAgents : agentRow'[a] # agentRow[a]}
<1>1. CASE walk.state = "reading"
  <2>1. walk' = [walk EXCEPT !.touched = walk.touched \cup hit]
    BY <1>1 DEF Touching, FleetTyped
  <2>2. /\ walk'.state = walk.state /\ walk'.seen = walk.seen /\ walk'.id = walk.id
        /\ walk'.got = walk.got /\ walk'.began = walk.began /\ walk'.touched = walk.touched \cup hit
        /\ walk' \in [state : {"none", "reading", "done"}, seen : Int, id : Int,
                      got : SUBSET FleetAgents, began : SUBSET FleetAgents, touched : SUBSET FleetAgents]
    BY <2>1 DEF FleetTyped
  <2>3. \A a \in walk'.began \ walk'.touched : agentRow'[a] = agentRow[a] /\ a \in walk.began \ walk.touched
    BY <2>2 DEF FleetTyped
  <2> HIDE DEF hit
  <2>4. WalkStands'
    BY <1>1, <2>2, <2>3 DEF WalkStands, Beyond
  <2> QED
    BY <2>2, <2>4
<1>2. CASE walk.state # "reading"
  <2>1. walk' = walk
    BY <1>2 DEF Touching
  <2> QED
    BY <1>2, <2>1 DEF WalkStands, FleetTyped
<1> QED
  BY <1>1, <1>2

\* Rows are written, taken offline or deleted; the watchdog has not looked.
LEMMA RowsMove ==
  ASSUME FleetAssumption, FleetIInv, fleetTime' = fleetTime, lastPass' \in {lastPass, NoClock}, alerts' = alerts,
         agentRow' \in [FleetAgents -> Rows], \A a \in FleetAgents : Moved(agentRow[a], agentRow'[a])
  PROVE  RowsStand' /\ NoneLingers' /\ QuarantineIsTold'
<1>1. RowsStand'
  <2> SUFFICES ASSUME NEW a \in FleetAgents
               PROVE  /\ agentRow'[a].status = "none" => agentRow'[a] = NoRow
                      /\ agentRow'[a].seen <= fleetTime
    BY DEF RowsStand, NoRow
  <2>1. Moved(agentRow[a], agentRow'[a]) /\ agentRow[a].seen <= fleetTime /\ fleetTime \in Nat
    BY DEF FleetIInv, FleetTyped, RowsStand
  <2> QED
    BY <2>1, NoRowIs DEF Moved
<1>2. NoneLingers'
  <2> SUFFICES ASSUME NEW a \in FleetAgents, agentRow'[a].status # "none",
                      lastPass' - agentRow'[a].seen > PassInterval
               PROVE  \/ agentRow'[a].stale # NoClock /\ lastPass' - agentRow'[a].stale < GracePeriod
                      \/ agentRow'[a].stale = NoClock /\ agentRow'[a].status = "offline"
    BY DEF NoneLingers, Enlisted, ClockRuns, NoClock
  <2>1. Moved(agentRow[a], agentRow'[a])
    OBVIOUS
  <2>2. /\ lastPass \in Int /\ fleetTime \in Int /\ PassInterval \in Nat /\ NoClock = -1 /\ GracePeriod \in Nat
        /\ agentRow[a].seen \in Nat /\ agentRow'[a].seen \in Nat /\ agentRow[a].stale \in Int
    BY DEF FleetIInv, FleetTyped, FleetAssumption, NoClock, Rows
  <2>3. lastPass <= fleetTime
    BY DEF FleetIInv, FleetTyped
  <2>4. agentRow'[a].seen # fleetTime
    BY <2>2, <2>3
  <2>5. /\ agentRow'[a].seen = agentRow[a].seen /\ agentRow'[a].stale = agentRow[a].stale
        /\ agentRow[a].status # "none" /\ agentRow'[a].status \in {agentRow[a].status, "offline"}
    BY <2>1, <2>4 DEF Moved
  <2>6. lastPass' = lastPass
    BY <2>2
  <2>7. \/ agentRow[a].stale # NoClock /\ lastPass - agentRow[a].stale < GracePeriod
        \/ agentRow[a].stale = NoClock /\ agentRow[a].status = "offline"
    BY <2>5, <2>6 DEF FleetIInv, NoneLingers, Enlisted, ClockRuns
  <2> QED
    BY <2>5, <2>6, <2>7
<1>3. QuarantineIsTold'
  <2> SUFFICES ASSUME NEW a \in FleetAgents, agentRow'[a].stale # NoClock PROVE alerts[a] = "quarantined"
    BY DEF QuarantineIsTold, ClockRuns, NoClock
  <2>1. agentRow[a].stale # NoClock
    BY NoRowIs DEF Moved
  <2> QED
    BY <2>1 DEF FleetIInv, QuarantineIsTold, ClockRuns
<1> QED
  BY <1>1, <1>2, <1>3


-----------------------------------------------------------------------------
(* The cached listing.                                                     *)

LEMMA ListingDropped ==
  ASSUME listing' = NotCached
  PROVE  ListedAreEnlisted' /\ listing' \in [agents : SUBSET FleetAgents, until : Int]
BY DEF ListedAreEnlisted, NotCached, NoClock

LEMMA ListingStays ==
  ASSUME FleetTyped, ListedAreEnlisted, listing' = listing, swept \subseteq swept',
         \A a \in FleetAgents : agentRow[a].status # "none" => agentRow'[a].status # "none" \/ a \in swept'
  PROVE  ListedAreEnlisted' /\ listing' \in [agents : SUBSET FleetAgents, until : Int]
BY DEF ListedAreEnlisted, Enlisted, FleetTyped

\* A step that writes rows, and notes whose.
LEMMA TableStep ==
  ASSUME FleetAssumption, FleetIInv, fleetTime' = fleetTime, lastPass' \in {lastPass, NoClock}, alerts' = alerts,
         agentRow' \in [FleetAgents -> Rows], \A a \in FleetAgents : Moved(agentRow[a], agentRow'[a]),
         Touching, serving' \in BOOLEAN, swept' \subseteq FleetAgents,
         ListedAreEnlisted', listing' \in [agents : SUBSET FleetAgents, until : Int]
  PROVE  FleetIInv'
<1>1. RowsStand' /\ NoneLingers' /\ QuarantineIsTold'
  BY RowsMove
<1>2. /\ WalkStands'
      /\ walk' \in [state : {"none", "reading", "done"}, seen : Int, id : Int,
                    got : SUBSET FleetAgents, began : SUBSET FleetAgents, touched : SUBSET FleetAgents]
  BY WalkKept DEF FleetIInv
<1>3. lastPass' \in -1 .. FleetEnd /\ lastPass' <= fleetTime'
  BY DEF FleetIInv, FleetTyped, NoClock, FleetAssumption
<1>4. FleetTyped'
  BY <1>2, <1>3 DEF FleetIInv, FleetTyped
<1> QED
  BY <1>1, <1>2, <1>4 DEF FleetIInv

\* One row is written and the others stay.
LEMMA OneRow ==
  ASSUME FleetAssumption, FleetIInv, NEW a \in FleetAgents, NEW row,
         Moved(agentRow[a], row), agentRow' = [agentRow EXCEPT ![a] = row]
  PROVE  /\ agentRow' \in [FleetAgents -> Rows] /\ \A b \in FleetAgents : Moved(agentRow[b], agentRow'[b])
         /\ agentRow'[a] = row /\ \A b \in FleetAgents : b # a => agentRow'[b] = agentRow[b]
<1>1. agentRow \in [FleetAgents -> Rows] /\ row \in Rows
  BY DEF FleetIInv, FleetTyped, Moved
<1>2. /\ agentRow' \in [FleetAgents -> Rows]
      /\ agentRow'[a] = row /\ \A b \in FleetAgents : b # a => agentRow'[b] = agentRow[b]
  BY <1>1
<1>3. ASSUME NEW b \in FleetAgents, b # a PROVE Moved(agentRow[b], agentRow[b])
  <2>1. agentRow[b] \in Rows /\ (agentRow[b].status = "none" => agentRow[b] = NoRow)
    BY <1>1 DEF FleetIInv, RowsStand
  <2> QED
    BY <2>1, RowStays
<1> QED
  BY <1>2, <1>3

LEMMA KeepsRegister ==
  ASSUME FleetAssumption, FleetIInv, NEW a \in FleetAgents, RegisterAgent(a)
  PROVE  FleetIInv'
<1>1. agentRow \in [FleetAgents -> Rows] /\ fleetTime \in 0 .. FleetEnd
  BY DEF FleetIInv, FleetTyped
<1>2. Moved(agentRow[a], Upserted(agentRow[a], "online"))
  BY <1>1, RowWritten
<1>3. agentRow' = [agentRow EXCEPT ![a] = Upserted(agentRow[a], "online")]
  BY <1>1 DEF RegisterAgent
<1>4. /\ agentRow' \in [FleetAgents -> Rows] /\ \A b \in FleetAgents : Moved(agentRow[b], agentRow'[b])
  BY <1>2, <1>3, OneRow
<1>5. ListedAreEnlisted' /\ listing' \in [agents : SUBSET FleetAgents, until : Int]
  BY ListingDropped DEF RegisterAgent
<1> QED
  BY <1>4, <1>5, TableStep DEF RegisterAgent, FleetIInv, FleetTyped

LEMMA KeepsHeartbeat ==
  ASSUME FleetAssumption, FleetIInv, NEW a \in FleetAgents, Heartbeat(a)
  PROVE  FleetIInv'
<1>1. agentRow \in [FleetAgents -> Rows] /\ fleetTime \in 0 .. FleetEnd
  BY DEF FleetIInv, FleetTyped
<1>2. Moved(agentRow[a], Upserted(agentRow[a], "online"))
  BY <1>1, RowWritten
<1>3. agentRow' = [agentRow EXCEPT ![a] = Upserted(agentRow[a], "online")]
  BY <1>1 DEF Heartbeat
<1>4. /\ agentRow' \in [FleetAgents -> Rows] /\ \A b \in FleetAgents : Moved(agentRow[b], agentRow'[b])
  BY <1>2, <1>3, OneRow
<1>5. ListedAreEnlisted' /\ listing' \in [agents : SUBSET FleetAgents, until : Int]
  BY ListingDropped DEF Heartbeat
<1> QED
  BY <1>4, <1>5, TableStep DEF Heartbeat, FleetIInv, FleetTyped

LEMMA KeepsDeregister ==
  ASSUME FleetAssumption, FleetIInv, NEW a \in FleetAgents, DeregisterAgent(a)
  PROVE  FleetIInv'
<1>1. Moved(agentRow[a], NoRow)
  BY RowLeaves
<1>2. /\ agentRow' \in [FleetAgents -> Rows] /\ \A b \in FleetAgents : Moved(agentRow[b], agentRow'[b])
  BY <1>1, OneRow DEF DeregisterAgent
<1>3. ListedAreEnlisted' /\ listing' \in [agents : SUBSET FleetAgents, until : Int]
  BY ListingDropped DEF DeregisterAgent
<1> QED
  BY <1>2, <1>3, TableStep DEF DeregisterAgent, FleetIInv, FleetTyped

LEMMA KeepsEnabled ==
  ASSUME FleetAssumption, FleetIInv, NEW a \in FleetAgents, SetAgentEnabled(a)
  PROVE  FleetIInv'
<1>1. agentRow \in [FleetAgents -> Rows] /\ fleetTime \in 0 .. FleetEnd
  BY DEF FleetIInv, FleetTyped
<1>2. PICK s \in {"online", "offline"} : agentRow' = [agentRow EXCEPT ![a] = Upserted(@, s)]
  BY DEF SetAgentEnabled
<1>3. Moved(agentRow[a], Upserted(agentRow[a], s)) /\ Upserted(agentRow[a], s).status # "none"
  BY <1>1, RowWritten
<1>4. agentRow' = [agentRow EXCEPT ![a] = Upserted(agentRow[a], s)]
  BY <1>1, <1>2
<1>5. /\ agentRow' \in [FleetAgents -> Rows] /\ \A b \in FleetAgents : Moved(agentRow[b], agentRow'[b])
      /\ agentRow'[a] = Upserted(agentRow[a], s) /\ \A b \in FleetAgents : b # a => agentRow'[b] = agentRow[b]
  BY <1>3, <1>4, OneRow
<1>6. ListedAreEnlisted' /\ listing' \in [agents : SUBSET FleetAgents, until : Int]
  BY <1>3, <1>5, ListingStays DEF SetAgentEnabled, FleetIInv
<1> QED
  BY <1>5, <1>6, TableStep DEF SetAgentEnabled, FleetIInv, FleetTyped

LEMMA KeepsReadListing ==
  ASSUME FleetAssumption, FleetIInv, ReadListing
  PROVE  FleetIInv'
<1>1. listing' \in [agents : SUBSET FleetAgents, until : Int] /\ ListedAreEnlisted'
  BY DEF ReadListing, ListedAreEnlisted, Enlisted, FleetIInv, FleetTyped, FleetAssumption
<1>2. UNCHANGED <<agentRow, serving, lastPass, swept, walk, fleetTime, alerts>>
  BY DEF ReadListing
<1> QED
  BY <1>1, <1>2 DEF FleetIInv, FleetTyped, RowsStand, NoneLingers, WalkStands, QuarantineIsTold, Beyond,
                    Enlisted, ClockRuns

LEMMA KeepsStartWalk ==
  ASSUME FleetAssumption, FleetIInv, StartWalk
  PROVE  FleetIInv'
<1>1. /\ walk'.state = "reading" /\ walk'.seen = FleetEnd + 1 /\ walk'.id = -1 /\ walk'.got = {}
      /\ walk'.began = Enlisted(agentRow) /\ walk'.touched = {}
  BY DEF StartWalk, NoWalk
<1>2. walk' \in [state : {"none", "reading", "done"}, seen : Int, id : Int,
                 got : SUBSET FleetAgents, began : SUBSET FleetAgents, touched : SUBSET FleetAgents]
  <2>1. walk' = [state |-> "reading", seen |-> FleetEnd + 1, id |-> -1, got |-> {},
                 began |-> Enlisted(agentRow), touched |-> {}]
    BY DEF StartWalk, NoWalk
  <2>2. Enlisted(agentRow) \subseteq FleetAgents /\ FleetEnd + 1 \in Int
    BY DEF Enlisted, FleetAssumption
  <2> QED
    BY <2>1, <2>2
<1>3. UNCHANGED <<agentRow, serving, lastPass, listing, swept, fleetTime, alerts>>
  BY DEF StartWalk
<1>4. WalkStands'
  <2> SUFFICES ASSUME NEW a \in walk'.began \ walk'.touched
               PROVE  agentRow'[a].status # "none" /\ agentRow'[a].seen < walk'.seen
    BY <1>1 DEF WalkStands, Beyond
  <2>1. a \in FleetAgents /\ agentRow[a].status # "none" /\ agentRow'[a] = agentRow[a]
    BY <1>1, <1>3 DEF Enlisted
  <2>2. agentRow[a].seen \in 0 .. FleetEnd
    BY <2>1 DEF FleetIInv, FleetTyped, Rows
  <2> QED
    BY <1>1, <2>1, <2>2 DEF FleetAssumption
<1> QED
  BY <1>2, <1>3, <1>4 DEF FleetIInv, FleetTyped, RowsStand, NoneLingers, ListedAreEnlisted, QuarantineIsTold,
                          Enlisted, ClockRuns

-----------------------------------------------------------------------------
(* The sweeps beside the watchdog, and the server's end.                   *)

LEMMA TakenOfflineMoves ==
  ASSUME NEW row \in Rows, row.status = "none" => row = NoRow
  PROVE  /\ TakenOffline(row) \in Rows /\ Moved(row, TakenOffline(row))
         /\ row.status # "none" => TakenOffline(row).status # "none"
<1>1. CASE row.status = "online" /\ Silence(row) > StaleLimit
  <2>1. TakenOffline(row) = [row EXCEPT !.status = "offline"]
    BY <1>1 DEF TakenOffline
  <2> QED
    BY <1>1, <2>1, RowOffline, OfflineFacts
<1>2. CASE ~(row.status = "online" /\ Silence(row) > StaleLimit)
  <2>1. TakenOffline(row) = row
    BY <1>2 DEF TakenOffline
  <2> QED
    BY <2>1, RowStays
<1> QED
  BY <1>1, <1>2

LEMMA RowsAre ==
  ASSUME FleetIInv, NEW a \in FleetAgents
  PROVE  agentRow[a] \in Rows /\ (agentRow[a].status = "none" => agentRow[a] = NoRow)
BY DEF FleetIInv, FleetTyped, RowsStand

LEMMA CleanupMoves ==
  ASSUME FleetIInv, agentRow' = [a \in FleetAgents |-> TakenOffline(agentRow[a])]
  PROVE  /\ agentRow' \in [FleetAgents -> Rows]
         /\ \A a \in FleetAgents : /\ Moved(agentRow[a], agentRow'[a])
                                   /\ agentRow[a].status # "none" => agentRow'[a].status # "none"
<1>1. ASSUME NEW a \in FleetAgents
      PROVE  /\ agentRow'[a] \in Rows /\ Moved(agentRow[a], agentRow'[a])
             /\ agentRow[a].status # "none" => agentRow'[a].status # "none"
  <2>1. agentRow'[a] = TakenOffline(agentRow[a])
    OBVIOUS
  <2> QED
    BY <2>1, RowsAre, TakenOfflineMoves
<1> QED
  BY <1>1

LEMMA KeepsCleanup ==
  ASSUME FleetAssumption, FleetIInv, CleanupTick
  PROVE  FleetIInv'
<1>1. agentRow' = [a \in FleetAgents |-> TakenOffline(agentRow[a])]
  BY DEF CleanupTick
<1>2. /\ agentRow' \in [FleetAgents -> Rows]
      /\ \A a \in FleetAgents : /\ Moved(agentRow[a], agentRow'[a])
                                /\ agentRow[a].status # "none" => agentRow'[a].status # "none"
  BY <1>1, CleanupMoves
<1>3. ListedAreEnlisted' /\ listing' \in [agents : SUBSET FleetAgents, until : Int]
  BY <1>2, ListingStays DEF CleanupTick, FleetIInv
<1> QED
  BY <1>2, <1>3, TableStep DEF CleanupTick, FleetIInv, FleetTyped

LEMMA KeepsServerStarts ==
  ASSUME FleetAssumption, FleetIInv, ServerStarts
  PROVE  FleetIInv'
<1>1. agentRow' = [a \in FleetAgents |-> TakenOffline(agentRow[a])]
  BY DEF ServerStarts
<1>2. /\ agentRow' \in [FleetAgents -> Rows]
      /\ \A a \in FleetAgents : /\ Moved(agentRow[a], agentRow'[a])
                                /\ agentRow[a].status # "none" => agentRow'[a].status # "none"
  BY <1>1, CleanupMoves
<1>3. ListedAreEnlisted' /\ listing' \in [agents : SUBSET FleetAgents, until : Int]
  BY <1>2, ListingStays DEF ServerStarts, FleetIInv
<1> QED
  BY <1>2, <1>3, TableStep DEF ServerStarts, FleetIInv, FleetTyped

LEMMA KeepsServerEnds ==
  ASSUME FleetAssumption, FleetIInv, ServerEnds
  PROVE  FleetIInv'
<1>1. ASSUME NEW a \in FleetAgents
      PROVE  agentRow'[a] \in Rows /\ Moved(agentRow[a], agentRow'[a])
  <2>1. agentRow[a] \in Rows /\ (agentRow[a].status = "none" => agentRow[a] = NoRow)
    BY RowsAre
  <2>2. CASE agentRow'[a] = agentRow[a]
    BY <2>1, <2>2, RowStays
  <2>3. CASE agentRow[a].status = "online" /\ agentRow'[a] = [agentRow[a] EXCEPT !.status = "offline"]
    BY <2>1, <2>3, RowOffline, OfflineFacts
  <2> QED
    BY <2>2, <2>3 DEF ServerEnds, AllOffline
<1>2. agentRow' \in [FleetAgents -> Rows]
  <2>1. agentRow' = [a \in FleetAgents |-> agentRow'[a]]
    BY DEF ServerEnds, AllOffline, FleetIInv, FleetTyped
  <2> QED
    BY <1>1, <2>1
<1>3. ListedAreEnlisted' /\ listing' \in [agents : SUBSET FleetAgents, until : Int]
  BY ListingDropped DEF ServerEnds
<1> QED
  BY <1>1, <1>2, <1>3, TableStep DEF ServerEnds, FleetIInv, FleetTyped

LEMMA KeepsDeleteOffline ==
  ASSUME FleetAssumption, FleetIInv, DeleteOffline
  PROVE  FleetIInv'
<1> DEFINE old == Old(agentRow)
<1>1. /\ agentRow' = [a \in FleetAgents |-> IF a \in old THEN NoRow ELSE agentRow[a]]
      /\ swept' = swept \cup old /\ old \subseteq FleetAgents
  BY DEF DeleteOffline, Old, Enlisted
<1> HIDE DEF old
<1>2. ASSUME NEW a \in FleetAgents
      PROVE  agentRow'[a] \in Rows /\ Moved(agentRow[a], agentRow'[a])
             /\ (agentRow[a].status # "none" => agentRow'[a].status # "none" \/ a \in swept')
  <2>1. agentRow[a] \in Rows /\ (agentRow[a].status = "none" => agentRow[a] = NoRow)
    BY RowsAre
  <2>2. CASE a \in old
    <3>1. agentRow'[a] = NoRow /\ a \in swept'
      BY <1>1, <2>2
    <3> QED
      BY <3>1, RowLeaves, NoRowIs
  <2>3. CASE a \notin old
    <3>1. agentRow'[a] = agentRow[a]
      BY <1>1, <2>3
    <3> QED
      BY <2>1, <3>1, RowStays
  <2> QED
    BY <2>2, <2>3
<1>3. agentRow' \in [FleetAgents -> Rows]
  BY <1>1, <1>2
<1>4. ListedAreEnlisted' /\ listing' \in [agents : SUBSET FleetAgents, until : Int]
  BY <1>1, <1>2, ListingStays DEF DeleteOffline, FleetIInv
<1>5. swept' \subseteq FleetAgents
  BY <1>1 DEF FleetIInv, FleetTyped
<1> QED
  BY <1>2, <1>3, <1>4, <1>5, TableStep DEF DeleteOffline, FleetIInv, FleetTyped

LEMMA KeepsFleetTick ==
  ASSUME FleetAssumption, FleetIInv, FleetTick
  PROVE  FleetIInv'
<1>1. fleetTime' = fleetTime + 1 /\ fleetTime' \in 0 .. FleetEnd
  BY DEF FleetTick, FleetIInv, FleetTyped, FleetAssumption
<1>2. UNCHANGED <<agentRow, serving, lastPass, listing, swept, walk, alerts>>
  BY DEF FleetTick
<1>3. FleetTyped'
  BY <1>1, <1>2 DEF FleetIInv, FleetTyped
<1>4. RowsStand'
  BY <1>1, <1>2 DEF FleetIInv, FleetTyped, RowsStand, Rows, NoRow
<1> QED
  BY <1>2, <1>3, <1>4 DEF FleetIInv, NoneLingers, ListedAreEnlisted, WalkStands, QuarantineIsTold, Beyond,
                          Enlisted, ClockRuns

-----------------------------------------------------------------------------
(* The watchdog.                                                           *)

\* What a pass leaves of a row: a silent agent's clock runs and has not run out, unless
\* the agent was offline before.
Judgement(new) ==
  /\ new \in Rows /\ (new.status = "none" => new = NoRow) /\ new.seen <= fleetTime
  /\ new.status # "none" /\ fleetTime - new.seen > PassInterval =>
       \/ new.stale # NoClock /\ fleetTime - new.stale < GracePeriod
       \/ new.stale = NoClock /\ new.status = "offline"

LEMMA MarkFacts ==
  ASSUME FleetAssumption, fleetTime \in 0 .. FleetEnd, NEW row \in Rows, row.stale = NoClock
  PROVE  /\ MarkStale(row) \in Rows /\ MarkStale(row).status = "offline" /\ MarkStale(row).seen = row.seen
         /\ MarkStale(row).stale = fleetTime
<1>1. MarkStale(row) = [row EXCEPT !.status = "offline", !.stale = fleetTime]
  BY DEF MarkStale, Rows
<1>2. fleetTime \in -1 .. FleetEnd /\ "offline" \in FleetStatuses
  BY DEF FleetStatuses, FleetAssumption
<1> QED
  BY <1>1, <1>2 DEF Rows

LEMMA ClearFacts ==
  ASSUME FleetAssumption, NEW row \in Rows
  PROVE  /\ ClearStale(row) \in Rows /\ ClearStale(row).status = "online" /\ ClearStale(row).seen = row.seen
<1>1. NoClock \in -1 .. FleetEnd /\ "online" \in FleetStatuses
  BY DEF FleetStatuses, FleetAssumption, NoClock
<1> QED
  BY <1>1 DEF ClearStale, Rows

LEMMA RowJudged ==
  ASSUME FleetAssumption, fleetTime \in 0 .. FleetEnd,
         NEW row \in Rows, row.status = "none" => row = NoRow, row.seen <= fleetTime
  PROVE  Judgement(Judged(Quarantined(row)))
<1> DEFINE q == Quarantined(row)
<1>1. /\ fleetTime \in Nat /\ PassInterval \in Nat /\ GracePeriod \in Nat /\ NoClock = -1 /\ row.seen \in Nat
      /\ row.status \in FleetStatuses
  BY DEF FleetAssumption, NoClock, Rows
<1>2. /\ q \in Rows /\ q.seen = row.seen
      /\ q.stale = NoClock => q = row /\ ~(row.status = "online" /\ Silence(row) >= PassInterval)
      /\ q.status = "none" => q = NoRow
  <2>1. CASE row.status = "online" /\ Silence(row) >= PassInterval /\ row.stale = NoClock
    <3>1. q = MarkStale(row)
      BY <2>1 DEF Quarantined
    <3>2. fleetTime # NoClock
      BY <1>1
    <3> HIDE DEF q
    <3> QED
      BY <2>1, <3>1, <3>2, MarkFacts
  <2>2. CASE ~(row.status = "online" /\ Silence(row) >= PassInterval /\ row.stale = NoClock)
    <3>1. q = row
      BY <2>2 DEF Quarantined
    <3> HIDE DEF q
    <3> QED
      BY <2>2, <3>1
  <2> QED
    BY <2>1, <2>2
<1> HIDE DEF q
<1>3. CASE q.stale = NoClock
  <2>1. Judged(q) = q /\ q = row
    BY <1>2, <1>3 DEF Judged, ClockRuns
  <2>2. row.status # "none" /\ fleetTime - row.seen > PassInterval => row.status = "offline"
    BY <1>1, <1>2, <1>3 DEF Silence, FleetStatuses
  <2>3. Judgement(row)
    BY <1>3, <2>1, <2>2 DEF Judgement
  <2> QED
    BY <2>1, <2>3 DEF q
<1>4. CASE q.stale # NoClock
  <2>1. CASE Silence(q) <= PassInterval
    <3>1. Judged(q) = ClearStale(q)
      BY <1>4, <2>1 DEF Judged, ClockRuns
    <3>2. ~(fleetTime - q.seen > PassInterval)
      BY <1>1, <1>2, <2>1 DEF Silence
    <3>3. Judgement(ClearStale(q))
      BY <1>2, <3>2, ClearFacts DEF Judgement
    <3> QED
      BY <3>1, <3>3 DEF q
  <2>2. CASE ~(Silence(q) <= PassInterval) /\ fleetTime - q.stale < GracePeriod
    <3>1. Judged(q) = q
      BY <1>4, <2>2 DEF Judged, ClockRuns
    <3>2. Judgement(q)
      BY <1>2, <1>4, <2>2 DEF Judgement
    <3> QED
      BY <3>1, <3>2 DEF q
  <2>3. CASE ~(Silence(q) <= PassInterval) /\ ~(fleetTime - q.stale < GracePeriod)
    <3>1. Judged(q) = NoRow
      BY <1>4, <2>3 DEF Judged, ClockRuns
    <3>2. Judgement(NoRow)
      BY <1>1, NoRowIs DEF Judgement
    <3> QED
      BY <3>1, <3>2 DEF q
  <2> QED
    BY <2>1, <2>2, <2>3
<1> QED
  BY <1>3, <1>4

LEMMA KeepsWatchdog ==
  ASSUME FleetAssumption, FleetIInv, WatchdogPass
  PROVE  FleetIInv'
<1> DEFINE rows == [a \in FleetAgents |-> Judged(Quarantined(agentRow[a]))]
<1>1. /\ agentRow' = rows /\ listing' = Relisted(rows) /\ lastPass' = fleetTime /\ Touching
      /\ alerts' = [a \in FleetAgents |-> Alerted(agentRow[a], rows[a], alerts[a])]
      /\ UNCHANGED <<serving, swept, fleetTime>>
  BY DEF WatchdogPass
<1>2. fleetTime \in 0 .. FleetEnd
  BY DEF FleetIInv, FleetTyped
<1>3. ASSUME NEW a \in FleetAgents PROVE Judgement(rows[a])
  <2>1. agentRow[a].seen <= fleetTime
    BY DEF FleetIInv, RowsStand
  <2> QED
    BY <1>2, <2>1, RowsAre, RowJudged
<1> HIDE DEF rows
<1>4. agentRow' \in [FleetAgents -> Rows]
  BY <1>1, <1>3 DEF Judgement, rows
<1>5. RowsStand'
  BY <1>1, <1>3 DEF RowsStand, Judgement, NoRow
<1>6. NoneLingers'
  <2> SUFFICES ASSUME NEW a \in FleetAgents, agentRow'[a].status # "none",
                      lastPass' - agentRow'[a].seen > PassInterval
               PROVE  \/ agentRow'[a].stale # NoClock /\ lastPass' - agentRow'[a].stale < GracePeriod
                      \/ agentRow'[a].stale = NoClock /\ agentRow'[a].status = "offline"
    BY DEF NoneLingers, Enlisted, ClockRuns, NoClock
  <2>1. Judgement(rows[a])
    BY <1>3
  <2> QED
    BY <1>1, <2>1 DEF Judgement
<1>7. ListedAreEnlisted' /\ listing' \in [agents : SUBSET FleetAgents, until : Int]
  <2>1. CASE Enlisted(rows) = Enlisted(agentRow)
    <3>1. listing' = listing /\ Enlisted(agentRow') = Enlisted(agentRow)
      BY <1>1, <2>1 DEF Relisted
    <3> QED
      BY <1>1, <3>1 DEF ListedAreEnlisted, FleetIInv, FleetTyped, Enlisted
  <2>2. CASE Enlisted(rows) # Enlisted(agentRow)
    BY <1>1, <2>2, ListingDropped DEF Relisted
  <2> QED
    BY <2>1, <2>2
<1>8. QuarantineIsTold' /\ alerts' \in [FleetAgents -> {"none", "quarantined", "recovered", "evicted"}]
  <2>1. ASSUME NEW a \in FleetAgents
        PROVE  /\ Alerted(agentRow[a], rows[a], alerts[a]) \in {"none", "quarantined", "recovered", "evicted"}
               /\ ClockRuns(rows[a]) => Alerted(agentRow[a], rows[a], alerts[a]) = "quarantined"
    <3>1. alerts[a] \in {"none", "quarantined", "recovered", "evicted"}
      BY DEF FleetIInv, FleetTyped
    <3>2. ClockRuns(agentRow[a]) => alerts[a] = "quarantined"
      BY DEF FleetIInv, QuarantineIsTold
    <3>3. ~ClockRuns(NoRow)
      BY NoRowIs DEF ClockRuns
    <3> QED
      BY <3>1, <3>2, <3>3 DEF Alerted
  <2>2. \A a \in FleetAgents : ClockRuns(rows[a]) => alerts'[a] = "quarantined"
    BY <1>1, <2>1
  <2>3. QuarantineIsTold'
    BY <1>1, <2>2 DEF QuarantineIsTold, ClockRuns, NoClock
  <2> QED
    BY <1>1, <2>1, <2>3
<1>9. /\ WalkStands'
      /\ walk' \in [state : {"none", "reading", "done"}, seen : Int, id : Int,
                    got : SUBSET FleetAgents, began : SUBSET FleetAgents, touched : SUBSET FleetAgents]
  BY <1>1, WalkKept DEF FleetIInv
<1>10. FleetTyped'
  BY <1>1, <1>2, <1>4, <1>7, <1>8, <1>9 DEF FleetIInv, FleetTyped, FleetAssumption
<1> QED
  BY <1>5, <1>6, <1>7, <1>8, <1>9, <1>10 DEF FleetIInv

-----------------------------------------------------------------------------
(* A page of the listing.                                                  *)

LEMMA SoonerIsOrder ==
  ASSUME FleetAssumption, FleetTyped, NEW a \in FleetAgents, NEW b \in FleetAgents
  PROVE  /\ ~Sooner(a, a) /\ (Sooner(a, b) \/ Sooner(b, a) \/ a = b)
         /\ \A c \in FleetAgents : Sooner(a, b) /\ Sooner(b, c) => Sooner(a, c)
<1>1. \A c \in FleetAgents : agentRow[c].seen \in Int /\ c \in Int
  <2>1. agentRow \in [FleetAgents -> Rows]
    BY DEF FleetTyped
  <2>2. ASSUME NEW c \in FleetAgents PROVE agentRow[c].seen \in Int
    <3>1. agentRow[c] \in Rows
      BY <2>1
    <3> QED
      BY <3>1 DEF Rows
  <2> QED
    BY <2>2 DEF FleetAssumption
<1>2. PICK s \in Int, t \in Int : s = agentRow[a].seen /\ t = agentRow[b].seen
  BY <1>1
<1>3. a \in Int /\ b \in Int
  BY <1>1
<1>4. ~Sooner(a, a) /\ (Sooner(a, b) \/ Sooner(b, a) \/ a = b)
  BY <1>2, <1>3 DEF Sooner
<1>5. ASSUME NEW c \in FleetAgents, Sooner(a, b), Sooner(b, c) PROVE Sooner(a, c)
  <2>1. PICK u \in Int : u = agentRow[c].seen
    BY <1>1
  <2>2. c \in Int
    BY <1>1
  <2>3. (s > t \/ (s = t /\ a > b)) /\ (t > u \/ (t = u /\ b > c))
    BY <1>2, <1>5, <2>1 DEF Sooner
  <2>4. s > u \/ (s = u /\ a > c)
    BY <1>3, <2>2, <2>3
  <2> QED
    BY <1>2, <2>1, <2>4 DEF Sooner
<1> QED
  BY <1>4, <1>5

\* Of agents in the listing's order one comes first, and one last.
LEMMA EndsExist ==
  ASSUME FleetAssumption, FleetTyped, NEW T, T \subseteq FleetAgents, T # {}
  PROVE  /\ \E a \in T : \A b \in T : b = a \/ Sooner(a, b)
         /\ \E a \in T : \A b \in T : b = a \/ Sooner(b, a)
<1>1. \A c \in FleetAgents : agentRow[c].seen \in Nat /\ c \in Nat
  <2>1. agentRow \in [FleetAgents -> Rows]
    BY DEF FleetTyped
  <2>2. ASSUME NEW c \in FleetAgents PROVE agentRow[c].seen \in Nat
    <3>1. agentRow[c] \in Rows
      BY <2>1
    <3> QED
      BY <3>1 DEF Rows
  <2> QED
    BY <2>2 DEF FleetAssumption
<1>2. IsFiniteSet(T)
  BY FS_Subset DEF FleetAssumption
<1>3. \E a \in T : \A b \in T : b = a \/ Sooner(a, b)
  <2> DEFINE times == {agentRow[c].seen : c \in T}
  <2>1. IsFiniteSet(times) /\ times \subseteq Int /\ times # {}
    <3>1. IsFiniteSet(times)
      <4>1. times \subseteq 0 .. FleetEnd /\ FleetEnd \in Int
        BY DEF FleetAssumption, FleetTyped, Rows
      <4>2. IsFiniteSet(0 .. FleetEnd)
        BY <4>1, FS_Interval
      <4> HIDE DEF times
      <4> QED
        BY <4>1, <4>2, FS_Subset
    <3>2. times \subseteq Nat /\ times # {}
      BY <1>1
    <3> HIDE DEF times
    <3> QED
      BY <3>1, <3>2
  <2>2. PICK t \in times : \A u \in times : u <= t
    <3> HIDE DEF times
    <3> QED
      BY <2>1, GreatestOfFinite
  <2> DEFINE latest == {c \in T : agentRow[c].seen = t}
  <2>3. IsFiniteSet(latest) /\ latest \subseteq Int /\ latest # {}
    <3>1. latest \subseteq T /\ T \subseteq Int
      BY <1>1
    <3>2. latest # {}
      BY <2>2
    <3>3. IsFiniteSet(latest)
      <4> HIDE DEF latest
      <4> QED
        BY <1>2, <3>1, FS_Subset
    <3> HIDE DEF latest
    <3> QED
      BY <3>1, <3>2, <3>3
  <2>4. PICK a \in latest : \A u \in latest : u <= a
    <3> HIDE DEF latest
    <3> QED
      BY <2>3, GreatestOfFinite
  <2>5. ASSUME NEW b \in T, b # a PROVE Sooner(a, b)
    <3>1. agentRow[b].seen <= t /\ (agentRow[b].seen = t => b <= a)
      BY <2>2, <2>4
    <3>2. a \in Nat /\ b \in Nat /\ agentRow[a].seen = t /\ agentRow[b].seen \in Nat /\ t \in Nat
      BY <1>1, <2>4
    <3> QED
      BY <2>5, <3>1, <3>2 DEF Sooner
  <2>6. a \in T
    BY <2>4
  <2> QED
    BY <2>5, <2>6
<1>4. \E a \in T : \A b \in T : b = a \/ Sooner(b, a)
  <2> DEFINE times == {agentRow[c].seen : c \in T}
  <2>1. times \subseteq Nat /\ times # {}
    BY <1>1
  <2>2. PICK t \in times : \A u \in times : t <= u
    <3> HIDE DEF times
    <3> QED
      BY <2>1, LeastExists
  <2> DEFINE latest == {c \in T : agentRow[c].seen = t}
  <2>3. latest \subseteq Nat /\ latest # {}
    BY <1>1, <2>2
  <2>4. PICK a \in latest : \A u \in latest : a <= u
    <3> HIDE DEF latest
    <3> QED
      BY <2>3, LeastExists
  <2>5. ASSUME NEW b \in T, b # a PROVE Sooner(b, a)
    <3>1. t <= agentRow[b].seen /\ (agentRow[b].seen = t => a <= b)
      BY <2>2, <2>4
    <3>2. a \in Nat /\ b \in Nat /\ agentRow[a].seen = t /\ agentRow[b].seen \in Nat /\ t \in Nat
      BY <1>1, <2>4
    <3> QED
      BY <2>5, <3>1, <3>2 DEF Sooner
  <2>6. a \in T
    BY <2>4
  <2> QED
    BY <2>5, <2>6
<1> QED
  BY <1>3, <1>4

LEMMA KeepsWalkPage ==
  ASSUME FleetAssumption, FleetIInv, WalkPage
  PROVE  FleetIInv'
<1> DEFINE rest == {a \in Enlisted(agentRow) : Beyond(a)}
           ahead(a) == {b \in rest : Sooner(b, a)}
           page == {a \in rest : Cardinality(ahead(a)) < ListingPage}
           Furthest(a) == \A b \in page : b = a \/ Sooner(b, a)
           last == CHOOSE a \in page : Furthest(a)
<1>1. /\ walk.state = "reading"
      /\ walk' = IF page = rest THEN [walk EXCEPT !.state = "done", !.got = @ \cup page]
                 ELSE [walk EXCEPT !.got = @ \cup page, !.seen = agentRow[last].seen, !.id = last]
      /\ UNCHANGED <<agentRow, serving, lastPass, listing, swept, fleetTime, alerts>>
  BY DEF WalkPage
<1>2. rest \subseteq FleetAgents /\ page \subseteq rest /\ FleetTyped
  BY DEF Enlisted, FleetIInv
<1>3. \A a \in walk.began \ walk.touched : a \in walk.got \/ a \in rest
  BY <1>1 DEF FleetIInv, WalkStands, Enlisted, FleetTyped
<1>4. \A a \in rest : IsFiniteSet(ahead(a)) /\ Cardinality(ahead(a)) \in Nat
  BY <1>2, FS_Subset, FS_CardinalityType DEF FleetAssumption
<1>5. ASSUME page # rest
      PROVE  /\ last \in FleetAgents /\ last \in page
             /\ \A a \in rest \ page : Sooner(last, a)
  <2>1. \E a \in page : Furthest(a)
    <3>1. rest # {}
      BY <1>2, <1>5
    <3>2. PICK a \in rest : \A b \in rest : b = a \/ Sooner(a, b)
      <4> HIDE DEF rest
      <4> QED
        BY <1>2, <3>1, EndsExist
    <3>3. ahead(a) = {}
      <4>1. \A b \in rest : ~(Sooner(a, b) /\ Sooner(b, a)) /\ ~Sooner(a, a)
        <5> HIDE DEF rest
        <5> QED
          BY <1>2, SoonerIsOrder
      <4> QED
        BY <3>2, <4>1
    <3>4. Cardinality(ahead(a)) = 0
      <4> HIDE DEF ahead
      <4> QED
        BY <3>3, FS_EmptySet
    <3>5. a \in page
      BY <3>2, <3>4 DEF FleetAssumption
    <3> HIDE DEF page, rest
    <3> QED
      BY <1>2, <3>5, EndsExist
  <2>2. last \in page /\ Furthest(last)
    <3> HIDE DEF page, Furthest
    <3> QED
      BY <2>1
  <2>3. ASSUME NEW a \in rest \ page PROVE Sooner(last, a)
    <3>1. a \in FleetAgents /\ last \in FleetAgents /\ last # a /\ last \in rest
      BY <1>2, <2>2
    <3>2. ASSUME Sooner(a, last) PROVE FALSE
      <4>1. ahead(a) \subseteq ahead(last)
        <5>1. \A b \in rest : Sooner(b, a) => Sooner(b, last)
          <6> HIDE DEF rest, page, last
          <6> QED
            BY <1>2, <3>1, <3>2, SoonerIsOrder
        <5> HIDE DEF rest, page, last
        <5> QED
          BY <5>1
      <4>2. Cardinality(ahead(a)) <= Cardinality(ahead(last))
        <5>1. IsFiniteSet(ahead(last))
          BY <1>4, <3>1
        <5> HIDE DEF ahead, last
        <5> QED
          BY <4>1, <5>1, FS_Subset
      <4>3. Cardinality(ahead(last)) < ListingPage /\ ~(Cardinality(ahead(a)) < ListingPage)
        BY <2>2, <2>3
      <4>4. Cardinality(ahead(a)) \in Nat /\ Cardinality(ahead(last)) \in Nat /\ ListingPage \in Nat
        BY <1>4, <2>3, <3>1 DEF FleetAssumption
      <4> HIDE DEF ahead, last
      <4> QED
        BY <4>2, <4>3, <4>4
    <3> HIDE DEF rest, page, last
    <3> QED
      BY <1>2, <3>1, <3>2, SoonerIsOrder
  <2> QED
    BY <1>2, <2>2, <2>3
<1> HIDE DEF page, last
<1>6. CASE page = rest
  <2>1. walk' = [walk EXCEPT !.state = "done", !.got = walk.got \cup page]
    BY <1>1, <1>6
  <2>2. /\ walk'.state = "done" /\ walk'.got = walk.got \cup page
        /\ walk'.began = walk.began /\ walk'.touched = walk.touched
        /\ walk' \in [state : {"none", "reading", "done"}, seen : Int, id : Int,
                      got : SUBSET FleetAgents, began : SUBSET FleetAgents, touched : SUBSET FleetAgents]
    BY <1>2, <2>1 DEF FleetIInv, FleetTyped
  <2>3. WalkStands'
    BY <1>3, <1>6, <2>2 DEF WalkStands
  <2> QED
    BY <1>1, <2>2, <2>3 DEF FleetIInv, FleetTyped, RowsStand, NoneLingers, ListedAreEnlisted, QuarantineIsTold,
                            Enlisted, ClockRuns
<1>7. CASE page # rest
  <2>1. walk' = [walk EXCEPT !.got = walk.got \cup page, !.seen = agentRow[last].seen, !.id = last]
    BY <1>1, <1>7
  <2>2. agentRow[last].seen \in Int /\ last \in Int /\ page \subseteq FleetAgents
    <3>1. \A c \in FleetAgents : agentRow[c].seen \in Int /\ c \in Int
      BY <1>2 DEF FleetTyped, Rows, FleetAssumption
    <3> HIDE DEF rest
    <3> QED
      BY <1>2, <1>5, <1>7, <3>1
  <2>3. /\ walk'.state = walk.state /\ walk'.got = walk.got \cup page
        /\ walk'.seen = agentRow[last].seen /\ walk'.id = last
        /\ walk'.began = walk.began /\ walk'.touched = walk.touched
        /\ walk' \in [state : {"none", "reading", "done"}, seen : Int, id : Int,
                      got : SUBSET FleetAgents, began : SUBSET FleetAgents, touched : SUBSET FleetAgents]
    BY <1>2, <2>1, <2>2 DEF FleetIInv, FleetTyped
  <2>4. WalkStands'
    <3> SUFFICES ASSUME NEW a \in walk'.began \ walk'.touched
                 PROVE  agentRow'[a].status # "none" /\ (a \in walk'.got \/ Beyond(a)')
      BY <1>1, <2>3 DEF WalkStands
    <3>1. agentRow'[a] = agentRow[a] /\ agentRow[a].status # "none"
      BY <1>1, <2>3 DEF FleetIInv, WalkStands
    <3>2. CASE a \in walk.got \/ a \in page
      BY <2>3, <3>1, <3>2
    <3>3. CASE a \in rest \ page
      <4>1. Sooner(last, a)
        BY <1>5, <1>7, <3>3
      <4>2. agentRow[a].seen \in Int /\ a \in Int
        <5>1. \A c \in FleetAgents : agentRow[c].seen \in Int /\ c \in Int
          BY <1>2 DEF FleetTyped, Rows, FleetAssumption
        <5> HIDE DEF rest
        <5> QED
          BY <1>2, <3>3, <5>1
      <4>3. Beyond(a)'
        BY <1>1, <2>2, <2>3, <4>1, <4>2 DEF Sooner, Beyond
      <4> QED
        BY <3>1, <4>3
    <3> QED
      BY <1>3, <2>3, <3>2, <3>3
  <2> QED
    BY <1>1, <2>3, <2>4 DEF FleetIInv, FleetTyped, RowsStand, NoneLingers, ListedAreEnlisted, QuarantineIsTold,
                            Enlisted, ClockRuns
<1> QED
  BY <1>6, <1>7

-----------------------------------------------------------------------------
Challenges == [of : FleetAgents, for : Purposes, until : Int]

\* What the server remembers of the challenges of agents.
ProofsTyped ==
  /\ proofs \in Seq(Challenges) /\ Len(proofs) <= MaxProofs
  /\ pendingProofs \subseteq 1 .. Len(proofs) /\ Cardinality(pendingProofs) <= MaxPending
  /\ proofUse \in [count : Seq(Nat), refused : Nat, lost : Nat, spent : SUBSET Nat]
  /\ Len(proofUse.count) = Len(proofs) /\ proofUse.lost <= Len(proofs)

\* A challenge that waits was not accepted yet; one that waits no more was answered, ran
\* out, went with a server, or had to go for as many as a server holds.
ProofsStand ==
  /\ \A n \in 1 .. Len(proofs) :
       /\ proofUse.count[n] <= 1 /\ (n \in pendingProofs => proofUse.count[n] = 0)
       /\ \/ n <= proofUse.lost \/ n \in proofUse.spent \/ n \in pendingProofs
          \/ ~Alive(n) \/ Len(proofs) - n >= MaxPending
  /\ proofUse.refused > proofUse.lost => Len(proofs) - proofUse.refused >= MaxPending

Nonces == [until : Int, at : {"pending", "used", "gone"}, valid : Nat,
           told : {"nothing", "valid", "replayed", "expired", "unknown"}]

\* A nonce was good as often as its state says.
NonceStands(n) ==
  /\ n.at = "pending" => n.valid = 0
  /\ n.at = "used" => n.valid = 1
  /\ n.valid <= 1 /\ (n.told = "replayed" => n.valid = 1) /\ (n.told = "unknown" => n.at = "gone")

NoncesStand ==
  /\ nonces \in Seq(Nonces) /\ Len(nonces) <= MaxProofs
  /\ \A n \in 1 .. Len(nonces) : NonceStands(nonces[n])

BeatClients == [on : BOOLEAN, signing : Nat, sent : Nat, row : Nat, after : Nat, allowed : Nat]

BeatsStand ==
  /\ beats \in [FleetAgents -> BeatClients]
  /\ \A a \in FleetAgents :
       IF beats[a].on THEN beats[a].after = 0 ELSE beats[a].after + beats[a].signing <= beats[a].allowed

ProofsIInv == ProofsTyped /\ ProofsStand /\ NoncesStand /\ BeatsStand


-----------------------------------------------------------------------------
(* The challenges of agents.                                               *)

\* What makes room leaves fewer than are held, and drops only what so many came after.
LEMMA RoomFacts ==
  ASSUME FleetAssumption, NEW n \in Nat, NEW current, current \subseteq 1 .. n
  PROVE  /\ Room(current) \subseteq current /\ IsFiniteSet(Room(current)) /\ Cardinality(Room(current)) <= MaxPending - 1
         /\ \A m \in current \ Room(current) : (n + 1) - m >= MaxPending
<1> DEFINE after(m) == {k \in current : k > m}
<1>1. MaxPending \in Nat \ {0} /\ current \subseteq Nat
  BY DEF FleetAssumption
<1>2. IsFiniteSet(current)
  <2>1. 1 \in Int /\ n \in Int
    OBVIOUS
  <2>2. IsFiniteSet(1 .. n)
    BY <2>1, FS_Interval
  <2> QED
    BY <2>2, FS_Subset
<1>3. \A m \in current : IsFiniteSet(after(m)) /\ Cardinality(after(m)) \in Nat
  BY <1>2, FS_Subset, FS_CardinalityType
<1>4. Room(current) = {m \in current : Cardinality(after(m)) < MaxPending - 1}
  BY DEF Room
<1>5. Room(current) \subseteq current /\ IsFiniteSet(Room(current)) /\ Cardinality(Room(current)) \in Nat
  <2>1. Room(current) \subseteq current
    BY <1>4
  <2> QED
    BY <1>2, <2>1, FS_Subset, FS_CardinalityType
<1>6. Cardinality(Room(current)) <= MaxPending - 1
  <2>1. CASE Room(current) = {}
    <3>1. Cardinality(Room(current)) = 0
      BY <2>1, FS_EmptySet
    <3> QED
      BY <1>1, <3>1
  <2>2. CASE Room(current) # {}
    <3>1. PICK m \in Room(current) : \A k \in Room(current) : m <= k
      BY <1>1, <1>5, <2>2, LeastExists
    <3>2. Room(current) \ {m} \subseteq after(m)
      <4>1. ASSUME NEW k \in Room(current) \ {m} PROVE k \in current /\ k > m
        <5>1. m <= k /\ k # m /\ k \in Nat /\ m \in Nat /\ k \in current
          BY <1>1, <1>5, <3>1
        <5> QED
          BY <5>1
      <4> QED
        BY <4>1
    <3>3. Cardinality(after(m)) < MaxPending - 1 /\ IsFiniteSet(after(m)) /\ Cardinality(after(m)) \in Nat
      BY <1>3, <1>4, <3>1
    <3>4. Cardinality(Room(current) \ {m}) <= Cardinality(after(m))
      <4> HIDE DEF after
      <4> QED
        BY <3>2, <3>3, FS_Subset
    <3>5. Cardinality(Room(current) \ {m}) = Cardinality(Room(current)) - 1
      BY <1>5, <3>1, FS_RemoveElement
    <3> HIDE DEF after
    <3> QED
      BY <1>1, <1>5, <3>3, <3>4, <3>5
  <2> QED
    BY <2>1, <2>2
<1>7. ASSUME NEW m \in current \ Room(current) PROVE (n + 1) - m >= MaxPending
  <2>1. Cardinality(after(m)) >= MaxPending - 1 /\ Cardinality(after(m)) \in Nat
    BY <1>1, <1>3, <1>4
  <2>2. m \in 1 .. n /\ after(m) \subseteq m + 1 .. n
    <3>1. m \in 1 .. n
      OBVIOUS
    <3>2. ASSUME NEW k \in current, k > m PROVE k \in m + 1 .. n
      <4>1. k \in 1 .. n
        OBVIOUS
      <4> QED
        BY <3>1, <3>2, <4>1
    <3> QED
      BY <3>1, <3>2
  <2>3. IsFiniteSet(m + 1 .. n) /\ Cardinality(m + 1 .. n) = n - m
    <3>1. m + 1 \in Int /\ n \in Int /\ (m + 1 > n <=> m = n)
      BY <2>2
    <3>2. IsFiniteSet(m + 1 .. n) /\ Cardinality(m + 1 .. n) = IF m + 1 > n THEN 0 ELSE n - (m + 1) + 1
      BY <3>1, FS_Interval
    <3> QED
      BY <2>2, <3>1, <3>2
  <2>4. Cardinality(after(m)) <= n - m
    <3> HIDE DEF after
    <3> QED
      BY <2>2, <2>3, FS_Subset
  <2> HIDE DEF after
  <2> QED
    BY <1>1, <2>1, <2>2, <2>4
<1> QED
  BY <1>5, <1>6, <1>7

\* A place of a sequence is written.
Placed(d, c, i, e) == d = [c EXCEPT ![i] = e]

LEMMA PlaceWritten ==
  ASSUME NEW S, NEW c \in Seq(S), NEW i \in 1 .. Len(c), NEW e \in S, NEW d, Placed(d, c, i, e)
  PROVE  /\ d \in Seq(S) /\ Len(d) = Len(c)
         /\ \A j \in 1 .. Len(c) : d[j] = IF j = i THEN e ELSE c[j]
BY ExceptSeq DEF Placed

LEMMA KeepsIssueProof ==
  ASSUME FleetAssumption, FleetTyped, ProofsTyped, ProofsStand, UNCHANGED fleetTime,
         NEW a \in FleetAgents, NEW purpose \in Purposes, IssueProof(a, purpose)
  PROVE  ProofsTyped' /\ ProofsStand'
<1> DEFINE n == Len(proofs)
           new == [of |-> a, for |-> purpose, until |-> fleetTime + ProofTtl]
           current == {m \in pendingProofs : Alive(m)}
<1>1. /\ n \in Nat /\ proofs' = Append(proofs, new) /\ n < MaxProofs /\ new \in Challenges
      /\ fleetTime \in Nat /\ MaxPending \in Nat \ {0} /\ MaxProofs \in Nat
  <2>1. n \in Nat
    BY SeqFacts DEF ProofsTyped
  <2>2. proofs' = Append(proofs, new) /\ n < MaxProofs
    BY DEF IssueProof
  <2>3. fleetTime \in Nat /\ MaxPending \in Nat \ {0} /\ MaxProofs \in Nat /\ ProofTtl \in Nat
    BY DEF FleetTyped, FleetAssumption
  <2>4. fleetTime + ProofTtl \in Int
    BY <2>3
  <2>5. new \in Challenges
    BY <2>4 DEF Challenges
  <2> QED
    BY <2>1, <2>2, <2>3, <2>5
<1>2. /\ proofs' \in Seq(Challenges) /\ Len(proofs') = n + 1 /\ \A m \in 1 .. n : proofs'[m] = proofs[m]
  BY <1>1, AppendProperties DEF ProofsTyped
<1>3. current \subseteq 1 .. n /\ pendingProofs' = Room(current) \cup {n + 1}
  BY DEF IssueProof, ProofsTyped
<1>4. proofUse' = [proofUse EXCEPT !.count = Append(proofUse.count, 0), !.refused = 0]
  BY DEF IssueProof, ProofsTyped
<1>5. \A m \in 1 .. n : Alive(m)' <=> Alive(m)
  BY <1>2 DEF Alive
<1>6. \A m \in pendingProofs : m \in current \/ ~Alive(m)
  OBVIOUS
<1>7. pendingProofs \subseteq 1 .. n
  BY DEF ProofsTyped
<1> HIDE DEF n, new, current
<1>8. /\ Room(current) \subseteq current /\ IsFiniteSet(Room(current)) /\ Cardinality(Room(current)) <= MaxPending - 1
      /\ \A m \in current \ Room(current) : (n + 1) - m >= MaxPending
  BY <1>1, <1>3, RoomFacts
<1>9. /\ proofUse'.count = Append(proofUse.count, 0) /\ proofUse'.refused = 0
      /\ proofUse'.lost = proofUse.lost /\ proofUse'.spent = proofUse.spent
  BY <1>4 DEF ProofsTyped
<1>10. /\ proofUse.count \in Seq(Nat) /\ Len(proofUse.count) = n /\ proofUse.lost \in Nat /\ proofUse.lost <= n
       /\ proofUse.spent \subseteq Nat
  BY DEF ProofsTyped, n
<1>11. /\ proofUse'.count \in Seq(Nat) /\ Len(proofUse'.count) = n + 1 /\ proofUse'.count[n + 1] = 0
       /\ \A m \in 1 .. n : proofUse'.count[m] = proofUse.count[m]
  <2> DEFINE c == proofUse.count
             d == proofUse'.count
  <2>1. c \in Seq(Nat) /\ Len(c) = n /\ d = Append(c, 0)
    BY <1>9, <1>10
  <2> HIDE DEF c, d
  <2>2. /\ d \in Seq(Nat) /\ Len(d) = n + 1 /\ d[n + 1] = 0
        /\ \A m \in 1 .. n : d[m] = c[m]
    BY <2>1, AppendProperties
  <2> QED
    BY <2>2 DEF c, d
<1>12. Cardinality(pendingProofs') <= MaxPending /\ pendingProofs' \subseteq 1 .. n + 1
  <2>1. n + 1 \notin Room(current)
    BY <1>1, <1>3, <1>8
  <2>2. Cardinality(pendingProofs') = Cardinality(Room(current)) + 1
    BY <1>3, <1>8, <2>1, FS_AddElement
  <2>3. Cardinality(Room(current)) \in Nat
    BY <1>8, FS_CardinalityType
  <2>4. MaxPending \in Int
    BY <1>1
  <2>5. Cardinality(pendingProofs') <= MaxPending
    BY <1>8, <2>2, <2>3, <2>4
  <2>6. Room(current) \subseteq 1 .. n
    BY <1>3, <1>8
  <2>7. 1 .. n \subseteq 1 .. n + 1 /\ n + 1 \in 1 .. n + 1
    BY <1>1
  <2> QED
    BY <1>3, <2>5, <2>6, <2>7
<1>13. ProofsTyped'
  <2>1. proofUse' \in [count : Seq(Nat), refused : Nat, lost : Nat, spent : SUBSET Nat]
    BY <1>4, <1>11, <1>9 DEF ProofsTyped
  <2>2. n + 1 <= MaxProofs /\ proofUse.lost <= n + 1
    BY <1>1, <1>10
  <2> QED
    BY <1>2, <1>9, <1>11, <1>12, <2>1, <2>2 DEF ProofsTyped
<1>14. ASSUME NEW m \in 1 .. n + 1
       PROVE  /\ proofUse'.count[m] <= 1 /\ (m \in pendingProofs' => proofUse'.count[m] = 0)
              /\ \/ m <= proofUse.lost \/ m \in proofUse.spent \/ m \in pendingProofs'
                 \/ ~Alive(m)' \/ (n + 1) - m >= MaxPending
  <2>1. CASE m = n + 1
    BY <1>3, <1>11, <2>1, SMTT(30)
  <2>2. CASE m # n + 1
    <3>1. m \in 1 .. n
      BY <1>1, <2>2
    <3>2. /\ proofUse.count[m] <= 1 /\ (m \in pendingProofs => proofUse.count[m] = 0)
          /\ \/ m <= proofUse.lost \/ m \in proofUse.spent \/ m \in pendingProofs
             \/ ~Alive(m) \/ n - m >= MaxPending
      BY <3>1 DEF ProofsStand, n
    <3>3. m \in pendingProofs' => m \in pendingProofs
      BY <1>3, <1>8, <2>2 DEF current
    <3>4. m \in pendingProofs => m \in pendingProofs' \/ ~Alive(m) \/ (n + 1) - m >= MaxPending
      BY <1>3, <1>6, <1>8
    <3>5. n - m >= MaxPending => (n + 1) - m >= MaxPending
      BY <1>1
    <3> QED
      BY <1>5, <1>11, <3>1, <3>2, <3>3, <3>4, <3>5
  <2> QED
    BY <2>1, <2>2
<1>15. ~(proofUse'.refused > proofUse'.lost)
  BY <1>9, <1>10
<1>16. ProofsStand'
  BY <1>2, <1>9, <1>14, <1>15 DEF ProofsStand
<1> QED
  BY <1>13, <1>16

LEMMA KeepsPresentProof ==
  ASSUME FleetAssumption, FleetTyped, ProofsTyped, ProofsStand, UNCHANGED fleetTime,
         NEW n \in Nat, NEW a \in FleetAgents, NEW purpose \in Purposes, NEW signed \in BOOLEAN,
         PresentProof(n, a, purpose, signed)
  PROVE  ProofsTyped' /\ ProofsStand'
<1> DEFINE good == Verified(n, a, purpose) /\ signed
           due == Alive(n) /\ Bound(n, a, purpose) /\ signed
           used == proofUse.count[n] + (IF good THEN 1 ELSE 0)
           refusal == IF due /\ ~good /\ n \notin proofUse.spent THEN n ELSE 0
<1>1. /\ n \in DOMAIN proofs /\ proofs' = proofs /\ pendingProofs' = pendingProofs \ {n}
      /\ proofUse' = [proofUse EXCEPT !.count = [proofUse.count EXCEPT ![n] = used], !.refused = refusal,
                                      !.spent = proofUse.spent \cup {n}]
  BY DEF PresentProof, ProofsTyped
<1>2. /\ Len(proofs) \in Nat /\ n \in 1 .. Len(proofs) /\ Len(proofUse.count) = Len(proofs)
      /\ proofUse.count \in Seq(Nat) /\ proofUse.count[n] \in Nat /\ proofUse.lost \in Nat
      /\ pendingProofs \subseteq 1 .. Len(proofs) /\ proofUse.spent \subseteq Nat
  BY <1>1, SeqFacts DEF ProofsTyped
<1>3. /\ proofUse.count[n] <= 1 /\ (n \in pendingProofs => proofUse.count[n] = 0)
      /\ \/ n <= proofUse.lost \/ n \in proofUse.spent \/ n \in pendingProofs
         \/ ~Alive(n) \/ Len(proofs) - n >= MaxPending
  BY <1>2 DEF ProofsStand
<1>4. /\ good => n \in pendingProofs
      /\ refusal # 0 => refusal = n /\ Alive(n) /\ n \notin pendingProofs /\ n \notin proofUse.spent
      /\ refusal \in Nat
  BY DEF Verified
<1>5. used \in Nat /\ used <= 1
  <2>1. CASE good
    <3>1. used = proofUse.count[n] + 1
      BY <2>1
    <3>2. proofUse.count[n] = 0
      BY <1>3, <1>4, <2>1
    <3> QED
      BY <3>1, <3>2
  <2>2. CASE ~good
    <3>1. PICK c \in Nat : c = proofUse.count[n]
      BY <1>2
    <3>2. used = c + 0
      BY <2>2, <3>1
    <3>3. c <= 1
      BY <1>3, <3>1
    <3> HIDE DEF used
    <3> QED
      BY <3>2, <3>3
  <2> QED
    BY <2>1, <2>2
<1> HIDE DEF good, due, used, refusal
<1>6. /\ proofUse'.count = [proofUse.count EXCEPT ![n] = used] /\ proofUse'.refused = refusal
      /\ proofUse'.lost = proofUse.lost /\ proofUse'.spent = proofUse.spent \cup {n}
  BY <1>1 DEF ProofsTyped
<1>7. /\ proofUse'.count \in Seq(Nat) /\ Len(proofUse'.count) = Len(proofs)
      /\ \A m \in 1 .. Len(proofs) : proofUse'.count[m] = IF m = n THEN used ELSE proofUse.count[m]
  <2>1. PICK c, d, u, N : N = Nat /\ c = proofUse.count /\ d = proofUse'.count /\ u = used
    OBVIOUS
  <2>2. c \in Seq(N) /\ n \in 1 .. Len(c) /\ Len(c) = Len(proofs) /\ Placed(d, c, n, u) /\ u \in N
    BY <1>2, <1>5, <1>6, <2>1 DEF Placed
  <2>3. /\ d \in Seq(N) /\ Len(d) = Len(c)
        /\ \A m \in 1 .. Len(c) : d[m] = IF m = n THEN u ELSE c[m]
    BY <2>2, PlaceWritten
  <2> QED
    BY <2>1, <2>2, <2>3
<1>8. Cardinality(pendingProofs') <= MaxPending
  <2>1. IsFiniteSet(pendingProofs)
    <3>1. IsFiniteSet(1 .. Len(proofs))
      BY <1>2, FS_Interval
    <3> QED
      BY <1>2, <3>1, FS_Subset
  <2>2. Cardinality(pendingProofs') <= Cardinality(pendingProofs) /\ IsFiniteSet(pendingProofs')
    <3>1. pendingProofs' \in SUBSET pendingProofs
      BY <1>1
    <3> QED
      BY <2>1, <3>1, FS_Subset
  <2>3. /\ Cardinality(pendingProofs) \in Nat /\ Cardinality(pendingProofs') \in Nat
        /\ Cardinality(pendingProofs) <= MaxPending /\ MaxPending \in Nat
    BY <2>1, <2>2, FS_CardinalityType DEF ProofsTyped, FleetAssumption
  <2> QED
    BY <2>2, <2>3
<1>9. ProofsTyped'
  <2>1. proofUse' \in [count : Seq(Nat), refused : Nat, lost : Nat, spent : SUBSET Nat]
    BY <1>1, <1>2, <1>4, <1>6, <1>7 DEF ProofsTyped
  <2> QED
    BY <1>1, <1>6, <1>7, <1>8, <2>1 DEF ProofsTyped
<1>10. ASSUME NEW m \in 1 .. Len(proofs)
       PROVE  /\ proofUse'.count[m] <= 1 /\ (m \in pendingProofs' => proofUse'.count[m] = 0)
              /\ \/ m <= proofUse'.lost \/ m \in proofUse'.spent \/ m \in pendingProofs'
                 \/ ~Alive(m)' \/ Len(proofs) - m >= MaxPending
  <2>1. /\ proofUse.count[m] <= 1 /\ (m \in pendingProofs => proofUse.count[m] = 0)
        /\ \/ m <= proofUse.lost \/ m \in proofUse.spent \/ m \in pendingProofs
           \/ ~Alive(m) \/ Len(proofs) - m >= MaxPending
    BY DEF ProofsStand
  <2>2. Alive(m)' <=> Alive(m)
    BY <1>1 DEF Alive
  <2> QED
    BY <1>1, <1>5, <1>6, <1>7, <2>1, <2>2
<1>11. ASSUME refusal > proofUse.lost PROVE Len(proofs) - refusal >= MaxPending
  <2>1. refusal # 0
    BY <1>2, <1>4, <1>11
  <2> QED
    BY <1>2, <1>3, <1>4, <1>11, <2>1, SMTT(30)
<1>12. ProofsStand'
  BY <1>1, <1>6, <1>10, <1>11 DEF ProofsStand
<1> QED
  BY <1>9, <1>12

LEMMA KeepsProofsLost ==
  ASSUME FleetAssumption, FleetTyped, ProofsTyped, ProofsStand, ChallengesLost
  PROVE  ProofsTyped' /\ ProofsStand'
<1>1. /\ proofs' = proofs /\ pendingProofs' = {}
      /\ proofUse' = [proofUse EXCEPT !.lost = Len(proofs), !.refused = 0]
  BY DEF ChallengesLost
<1>2. /\ Len(proofs) \in Nat /\ MaxPending \in Nat
      /\ proofUse \in [count : Seq(Nat), refused : Nat, lost : Nat, spent : SUBSET Nat]
  BY SeqFacts DEF ProofsTyped, FleetAssumption
<1>3. /\ proofUse'.count = proofUse.count /\ proofUse'.refused = 0 /\ proofUse'.lost = Len(proofs)
      /\ proofUse'.spent = proofUse.spent
      /\ proofUse' \in [count : Seq(Nat), refused : Nat, lost : Nat, spent : SUBSET Nat]
  BY <1>1, <1>2
<1>4. Cardinality(pendingProofs') <= MaxPending
  <2>1. Cardinality(pendingProofs') = 0
    BY <1>1, FS_EmptySet
  <2> QED
    BY <1>2, <2>1
<1>5. ProofsTyped'
  BY <1>1, <1>2, <1>3, <1>4 DEF ProofsTyped
<1>6. ProofsStand'
  <2>1. PICK l \in Nat : l = Len(proofs)
    BY <1>2
  <2>2. proofUse'.lost = l /\ proofUse'.refused = 0 /\ Len(proofs') = l /\ pendingProofs' = {}
    BY <1>1, <1>3, <2>1
  <2>3. ASSUME NEW n \in 1 .. l
        PROVE proofUse'.count[n] <= 1 /\ n \notin pendingProofs' /\ n <= proofUse'.lost
    <3>1. proofUse.count[n] <= 1
      BY <2>1 DEF ProofsStand
    <3>2. n <= l
      BY <2>1
    <3> QED
      BY <1>3, <2>2, <3>1, <3>2
  <2>4. ~(proofUse'.refused > proofUse'.lost)
    <3>1. ~(0 > l)
      BY <2>1
    <3> QED
      BY <2>2, <3>1
  <2> QED
    BY <2>2, <2>3, <2>4 DEF ProofsStand
<1> QED
  BY <1>5, <1>6

\* Time passes, and the rest of the server works, without a word about the challenges.
LEMMA ProofsKept ==
  ASSUME FleetTyped, fleetTime' \in Nat, fleetTime <= fleetTime', ProofsIInv, UNCHANGED proofVars
  PROVE  ProofsIInv'
<1>1. UNCHANGED <<proofs, pendingProofs, proofUse, nonces, beats>>
  BY DEF proofVars
<1>2. ASSUME NEW n \in 1 .. Len(proofs) PROVE Alive(n)' => Alive(n)
  <2>1. proofs[n] \in Challenges
    BY SeqFacts DEF ProofsIInv, ProofsTyped
  <2>2. proofs[n].until \in Int /\ fleetTime \in Int
    BY <2>1 DEF Challenges, FleetTyped
  <2> QED
    BY <1>1, <2>2 DEF Alive
<1>3. ProofsTyped' /\ NoncesStand' /\ BeatsStand'
  BY <1>1 DEF ProofsIInv, ProofsTyped, NoncesStand, NonceStands, BeatsStand
<1>4. ProofsStand'
  BY <1>1, <1>2 DEF ProofsIInv, ProofsStand
<1> QED
  BY <1>3, <1>4 DEF ProofsIInv

-----------------------------------------------------------------------------
(* The challenges of sockets, and the heartbeat clients.                   *)

LEMMA NonceGoes ==
  ASSUME NEW n \in Nonces, NonceStands(n)
  PROVE  [n EXCEPT !.at = "gone"] \in Nonces /\ NonceStands([n EXCEPT !.at = "gone"])
<1> DEFINE m == [n EXCEPT !.at = "gone"]
<1>1. m \in Nonces /\ m.at = "gone" /\ m.valid = n.valid /\ m.told = n.told
  BY DEF Nonces
<1> HIDE DEF m
<1>2. NonceStands(m)
  BY <1>1 DEF NonceStands
<1> QED
  BY <1>1, <1>2 DEF m

\* Each nonce of a sequence is replaced by one that stands.
LEMMA NoncesReplaced ==
  ASSUME NEW c \in Seq(Nonces), NEW d, DOMAIN d = DOMAIN c, d = [n \in DOMAIN c |-> d[n]],
         \A n \in 1 .. Len(c) : d[n] \in Nonces
  PROVE  d \in Seq(Nonces) /\ Len(d) = Len(c)
<1>1. Len(c) \in Nat /\ DOMAIN c = 1 .. Len(c)
  BY SeqFacts
<1>2. d \in [1 .. Len(c) -> Nonces]
  BY <1>1
<1> QED
  BY <1>1, <1>2, SeqDef, LenProperties

LEMMA KeepsNoncesLost ==
  ASSUME NoncesStand, ChallengesLost
  PROVE  NoncesStand'
<1>1. nonces' = [n \in DOMAIN nonces |-> [nonces[n] EXCEPT !.at = "gone"]]
  BY DEF ChallengesLost
<1>2. nonces \in Seq(Nonces) /\ Len(nonces) \in Nat /\ DOMAIN nonces = 1 .. Len(nonces)
  BY SeqFacts DEF NoncesStand
<1>3. ASSUME NEW n \in 1 .. Len(nonces) PROVE nonces'[n] \in Nonces /\ NonceStands(nonces'[n])
  <2>1. nonces[n] \in Nonces /\ NonceStands(nonces[n])
    BY <1>2, SeqFacts DEF NoncesStand
  <2>2. nonces'[n] = [nonces[n] EXCEPT !.at = "gone"]
    BY <1>1, <1>2
  <2> QED
    BY <2>1, <2>2, NonceGoes
<1>4. nonces' \in Seq(Nonces) /\ Len(nonces') = Len(nonces)
  <2>1. DOMAIN nonces' = DOMAIN nonces /\ nonces' = [n \in DOMAIN nonces |-> nonces'[n]]
    BY <1>1
  <2> QED
    BY <1>2, <1>3, <2>1, NoncesReplaced
<1> QED
  BY <1>3, <1>4 DEF NoncesStand, NonceStands

LEMMA KeepsIssueNonce ==
  ASSUME FleetAssumption, FleetTyped, NoncesStand, IssueNonce
  PROVE  NoncesStand'
<1> DEFINE old == [n \in DOMAIN nonces |-> IF nonces[n].until <= fleetTime
                                           THEN [nonces[n] EXCEPT !.at = "gone"] ELSE nonces[n]]
           new == [until |-> fleetTime + ProofTtl, at |-> "pending", valid |-> 0, told |-> "nothing"]
<1>1. nonces' = Append(old, new) /\ Len(nonces) < MaxProofs /\ MaxProofs \in Nat
  BY DEF IssueNonce, FleetAssumption
<1>2. nonces \in Seq(Nonces) /\ Len(nonces) \in Nat /\ DOMAIN nonces = 1 .. Len(nonces)
  BY SeqFacts DEF NoncesStand
<1>3. ASSUME NEW n \in 1 .. Len(nonces) PROVE old[n] \in Nonces /\ NonceStands(old[n])
  <2>1. nonces[n] \in Nonces /\ NonceStands(nonces[n])
    BY <1>2, SeqFacts DEF NoncesStand
  <2>2. old[n] = nonces[n] \/ old[n] = [nonces[n] EXCEPT !.at = "gone"]
    BY <1>2
  <2> QED
    BY <2>1, <2>2, NonceGoes
<1>4. old \in Seq(Nonces) /\ Len(old) = Len(nonces)
  <2>1. DOMAIN old = DOMAIN nonces /\ old = [n \in DOMAIN nonces |-> old[n]]
    OBVIOUS
  <2> HIDE DEF old
  <2> QED
    BY <1>2, <1>3, <2>1, NoncesReplaced
<1>5. new \in Nonces /\ NonceStands(new)
  <2>1. fleetTime + ProofTtl \in Int
    BY DEF FleetTyped, FleetAssumption
  <2> QED
    BY <2>1 DEF Nonces, NonceStands
<1> HIDE DEF old, new
<1>6. /\ nonces' \in Seq(Nonces) /\ Len(nonces') = Len(nonces) + 1 /\ nonces'[Len(nonces) + 1] = new
      /\ \A n \in 1 .. Len(nonces) : nonces'[n] = old[n]
  BY <1>1, <1>4, <1>5, AppendProperties
<1>7. ASSUME NEW n \in 1 .. Len(nonces') PROVE NonceStands(nonces'[n])
  <2>1. n \in 1 .. Len(nonces) \/ n = Len(nonces) + 1
    BY <1>2, <1>6
  <2> QED
    BY <1>3, <1>5, <1>6, <2>1
<1>8. Len(nonces') <= MaxProofs
  BY <1>1, <1>2, <1>6
<1> QED
  BY <1>6, <1>7, <1>8 DEF NoncesStand, NonceStands

LEMMA KeepsConsumeNonce ==
  ASSUME NoncesStand, NEW n \in Nat, ConsumeNonce(n)
  PROVE  NoncesStand'
<1>1. nonces \in Seq(Nonces) /\ Len(nonces) \in Nat /\ DOMAIN nonces = 1 .. Len(nonces) /\ n \in 1 .. Len(nonces)
  BY SeqFacts DEF NoncesStand, ConsumeNonce
<1>2. nonces[n] \in Nonces /\ NonceStands(nonces[n])
  BY <1>1, SeqFacts DEF NoncesStand
<1>3. PICK m : /\ nonces' = [nonces EXCEPT ![n] = m]
               /\ m = CASE nonces[n].at = "used"    -> [nonces[n] EXCEPT !.at = IF nonces[n].until > fleetTime THEN "used" ELSE "gone",
                                                                          !.told = IF nonces[n].until > fleetTime THEN "replayed" ELSE "expired"]
                        [] nonces[n].at = "gone"    -> [nonces[n] EXCEPT !.told = "unknown"]
                        [] nonces[n].at = "pending" -> IF nonces[n].until > fleetTime
                                                       THEN [nonces[n] EXCEPT !.at = "used", !.valid = @ + 1, !.told = "valid"]
                                                       ELSE [nonces[n] EXCEPT !.at = "gone", !.told = "expired"]
  BY DEF ConsumeNonce
<1>4. m \in Nonces /\ NonceStands(m)
  <2>1. CASE nonces[n].at = "used" /\ nonces[n].until > fleetTime
    <3>1. m = [nonces[n] EXCEPT !.at = "used", !.told = "replayed"]
      BY <1>3, <2>1
    <3>2. m \in Nonces /\ m.at = "used" /\ m.valid = nonces[n].valid /\ m.told = "replayed"
      BY <1>2, <3>1 DEF Nonces
    <3> QED
      BY <1>2, <2>1, <3>2 DEF NonceStands
  <2>2. CASE nonces[n].at = "used" /\ ~(nonces[n].until > fleetTime)
    <3>1. m = [nonces[n] EXCEPT !.at = "gone", !.told = "expired"]
      BY <1>3, <2>2
    <3>2. m \in Nonces /\ m.at = "gone" /\ m.valid = nonces[n].valid /\ m.told = "expired"
      BY <1>2, <3>1 DEF Nonces
    <3> QED
      BY <1>2, <2>2, <3>2 DEF NonceStands
  <2>3. CASE nonces[n].at = "gone"
    <3>1. m = [nonces[n] EXCEPT !.told = "unknown"]
      BY <1>3, <2>3
    <3>2. m \in Nonces /\ m.at = "gone" /\ m.valid = nonces[n].valid /\ m.told = "unknown"
      BY <1>2, <2>3, <3>1 DEF Nonces
    <3> QED
      BY <1>2, <2>3, <3>2 DEF NonceStands
  <2>4. CASE nonces[n].at = "pending" /\ nonces[n].until > fleetTime
    <3>1. nonces[n].valid = 0
      BY <1>2, <2>4 DEF NonceStands
    <3>2. m = [nonces[n] EXCEPT !.at = "used", !.valid = 1, !.told = "valid"]
      BY <1>2, <1>3, <2>4, <3>1 DEF Nonces
    <3>3. m \in Nonces /\ m.at = "used" /\ m.valid = 1 /\ m.told = "valid"
      BY <1>2, <3>1, <3>2 DEF Nonces
    <3> QED
      BY <3>3 DEF NonceStands
  <2>5. CASE nonces[n].at = "pending" /\ ~(nonces[n].until > fleetTime)
    <3>1. m = [nonces[n] EXCEPT !.at = "gone", !.told = "expired"]
      BY <1>3, <2>5
    <3>2. m \in Nonces /\ m.at = "gone" /\ m.valid = nonces[n].valid /\ m.told = "expired"
      BY <1>2, <3>1 DEF Nonces
    <3> QED
      BY <1>2, <2>5, <3>2 DEF NonceStands
  <2> QED
    BY <1>2, <2>1, <2>2, <2>3, <2>4, <2>5 DEF Nonces
<1>5. /\ nonces' \in Seq(Nonces) /\ Len(nonces') = Len(nonces)
      /\ \A k \in 1 .. Len(nonces) : nonces'[k] = IF k = n THEN m ELSE nonces[k]
  <2>1. Placed(nonces', nonces, n, m)
    BY <1>3 DEF Placed
  <2> QED
    BY <1>1, <1>4, <2>1, PlaceWritten
<1> QED
  BY <1>4, <1>5 DEF NoncesStand, NonceStands

LEMMA KeepsBeat ==
  ASSUME FleetAssumption, BeatsStand, BeatStep
  PROVE  BeatsStand'
<1> PICK a \in FleetAgents : StartBeat(a) \/ SendBeat(a) \/ StopBeats(a) \/ \E ok \in BOOLEAN : AnswerBeat(a, ok)
  BY DEF BeatStep
<1> DEFINE b == beats[a]
           BeatStands(c) == IF c.on THEN c.after = 0 ELSE c.after + c.signing <= c.allowed
<1>1. beats \in [FleetAgents -> BeatClients] /\ b \in BeatClients /\ BeatStands(b)
  BY DEF BeatsStand
<1>2. \E new \in BeatClients : beats' = [beats EXCEPT ![a] = new] /\ BeatStands(new)
  <2>1. CASE StartBeat(a)
    <3> DEFINE new == [b EXCEPT !.on = TRUE, !.signing = b.signing + 1, !.allowed = 0, !.after = 0]
    <3>1. beats' = [beats EXCEPT ![a] = new]
      BY <2>1 DEF StartBeat
    <3>2. b.signing + 1 \in Nat
      BY <1>1 DEF BeatClients
    <3>3. new \in BeatClients /\ new.on = TRUE /\ new.after = 0
      BY <1>1, <3>2 DEF BeatClients
    <3> HIDE DEF new
    <3> QED
      BY <3>1, <3>3
  <2>2. CASE SendBeat(a)
    <3> DEFINE new == [b EXCEPT !.signing = b.signing - 1, !.sent = b.sent + 1, !.after = IF b.on THEN 0 ELSE b.after + 1]
    <3>1. beats' = [beats EXCEPT ![a] = new] /\ b.signing > 0
      BY <2>2 DEF SendBeat
    <3>2. /\ b.signing \in Nat /\ b.sent \in Nat /\ b.after \in Nat /\ b.allowed \in Nat /\ b.on \in BOOLEAN
      BY <1>1 DEF BeatClients
    <3>3. b.signing - 1 \in Nat /\ b.sent + 1 \in Nat /\ (IF b.on THEN 0 ELSE b.after + 1) \in Nat
      BY <3>1, <3>2
    <3>4. /\ new \in BeatClients /\ new.on = b.on /\ new.signing = b.signing - 1 /\ new.allowed = b.allowed
          /\ new.after = IF b.on THEN 0 ELSE b.after + 1
      BY <1>1, <3>3 DEF BeatClients
    <3> HIDE DEF new, b
    <3>5. BeatStands(new)
      BY <1>1, <3>2, <3>4
    <3> QED
      BY <3>1, <3>4, <3>5
  <2>3. CASE StopBeats(a)
    <3> DEFINE new == [b EXCEPT !.on = FALSE, !.allowed = b.signing]
    <3>1. beats' = [beats EXCEPT ![a] = new] /\ b.on
      BY <2>3 DEF StopBeats
    <3>2. b.signing \in Nat /\ b.after = 0
      BY <1>1, <3>1 DEF BeatClients
    <3>3. /\ new \in BeatClients /\ new.on = FALSE /\ new.signing = b.signing /\ new.allowed = b.signing
          /\ new.after = b.after
      BY <1>1 DEF BeatClients
    <3> HIDE DEF new, b
    <3>4. BeatStands(new)
      BY <3>2, <3>3
    <3> QED
      BY <3>1, <3>3, <3>4
  <2>4. CASE \E ok \in BOOLEAN : AnswerBeat(a, ok)
    <3> PICK ok \in BOOLEAN : AnswerBeat(a, ok)
      BY <2>4
    <3> DEFINE row == IF ok THEN 0 ELSE IF b.row = AlarmAfter THEN b.row ELSE b.row + 1
               new == [b EXCEPT !.sent = b.sent - 1, !.row = row]
    <3>1. beats' = [beats EXCEPT ![a] = new] /\ b.sent > 0
      BY DEF AnswerBeat
    <3>2. b.sent - 1 \in Nat /\ row \in Nat
      BY <1>1, <3>1 DEF BeatClients
    <3> HIDE DEF row
    <3>3. /\ new \in BeatClients /\ new.on = b.on /\ new.signing = b.signing /\ new.allowed = b.allowed
          /\ new.after = b.after
      BY <1>1, <3>2 DEF BeatClients
    <3> HIDE DEF new, b
    <3>4. BeatStands(new)
      BY <1>1, <3>3
    <3> QED
      BY <3>1, <3>3, <3>4
  <2> QED
    BY <2>1, <2>2, <2>3, <2>4
<1>3. PICK new \in BeatClients : beats' = [beats EXCEPT ![a] = new] /\ BeatStands(new)
  BY <1>2
<1> HIDE DEF b
<1>4. beats' \in [FleetAgents -> BeatClients]
  BY <1>1, <1>3
<1>5. \A c \in FleetAgents : beats'[c] = IF c = a THEN new ELSE beats[c]
  BY <1>1, <1>3
<1>6. \A c \in FleetAgents : BeatStands(beats[c])
  BY DEF BeatsStand
<1>7. \A c \in FleetAgents : BeatStands(beats'[c])
  <2> HIDE DEF BeatStands
  <2> QED
    BY <1>3, <1>5, <1>6
<1> QED
  BY <1>4, <1>7 DEF BeatsStand

-----------------------------------------------------------------------------
(* Table, watchdog, listings and challenges.                               *)

FleetVarsNow == <<agentRow, serving, lastPass, listing, alerts, swept, walk, fleetTime>>
ChallengeStep == ProofStep \/ NonceStep \/ BeatStep

LEMMA FleetStands ==
  ASSUME FleetIInv, UNCHANGED FleetVarsNow
  PROVE  FleetIInv'
<1>1. UNCHANGED <<agentRow, serving, lastPass, listing, alerts, swept, walk, fleetTime>>
  BY DEF FleetVarsNow
<1> QED
  BY <1>1 DEF FleetIInv, FleetTyped, RowsStand, NoneLingers, ListedAreEnlisted, WalkStands, QuarantineIsTold, Beyond,
              Enlisted, ClockRuns

LEMMA KeepsChallenges ==
  ASSUME FleetAssumption, FleetIInv, ProofsIInv, ChallengeStep
  PROVE  FleetIInv' /\ ProofsIInv' /\ UNCHANGED FleetVarsNow
<1>1. UNCHANGED FleetVarsNow
  BY DEF ChallengeStep, ProofStep, NonceStep, BeatStep, FleetVarsNow
<1>2. FleetIInv'
  BY <1>1, FleetStands
<1>3. UNCHANGED fleetTime /\ FleetTyped
  BY <1>1 DEF FleetVarsNow, FleetIInv
<1>4. CASE ChallengesLost
  <2>1. ProofsTyped' /\ ProofsStand' /\ NoncesStand'
    BY <1>3, <1>4, KeepsProofsLost, KeepsNoncesLost DEF ProofsIInv
  <2>2. BeatsStand'
    BY <1>4 DEF ChallengesLost, ProofsIInv, BeatsStand
  <2> QED
    BY <1>1, <1>2, <2>1, <2>2 DEF ProofsIInv
<1>5. CASE ProofStep /\ ~ChallengesLost
  <2>1. PICK a \in FleetAgents, purpose \in Purposes :
           \/ IssueProof(a, purpose)
           \/ \E n \in 1 .. MaxProofs, signed \in BOOLEAN : PresentProof(n, a, purpose, signed)
    BY <1>5 DEF ProofStep
  <2>2. ProofsTyped' /\ ProofsStand' /\ UNCHANGED <<nonces, beats>>
    <3>1. CASE IssueProof(a, purpose)
      BY <1>3, <3>1, KeepsIssueProof DEF ProofsIInv, IssueProof
    <3>2. CASE \E n \in 1 .. MaxProofs, signed \in BOOLEAN : PresentProof(n, a, purpose, signed)
      <4>1. PICK n \in 1 .. MaxProofs, signed \in BOOLEAN : PresentProof(n, a, purpose, signed)
        BY <3>2
      <4>2. n \in Nat
        OBVIOUS
      <4> QED
        BY <1>3, <4>1, <4>2, KeepsPresentProof DEF ProofsIInv, PresentProof
    <3> QED
      BY <2>1, <3>1, <3>2
  <2>3. NoncesStand' /\ BeatsStand'
    BY <2>2 DEF ProofsIInv, NoncesStand, NonceStands, BeatsStand
  <2> QED
    BY <1>1, <1>2, <2>2, <2>3 DEF ProofsIInv
<1>6. CASE NonceStep /\ ~ChallengesLost
  <2>1. NoncesStand' /\ UNCHANGED <<proofs, pendingProofs, proofUse, beats>>
    <3>1. CASE IssueNonce
      BY <1>3, <3>1, KeepsIssueNonce DEF ProofsIInv, IssueNonce
    <3>2. CASE \E n \in 1 .. MaxProofs : ConsumeNonce(n)
      <4>1. PICK n \in 1 .. MaxProofs : ConsumeNonce(n)
        BY <3>2
      <4>2. n \in Nat
        OBVIOUS
      <4> QED
        BY <4>1, <4>2, KeepsConsumeNonce DEF ProofsIInv, ConsumeNonce
    <3> QED
      BY <1>6, <3>1, <3>2 DEF NonceStep
  <2>2. ProofsTyped' /\ ProofsStand' /\ BeatsStand'
    BY <1>3, <2>1 DEF ProofsIInv, ProofsTyped, ProofsStand, Alive, BeatsStand
  <2> QED
    BY <1>1, <1>2, <2>1, <2>2 DEF ProofsIInv
<1>7. CASE BeatStep
  <2>1. UNCHANGED <<proofs, pendingProofs, proofUse, nonces>>
    BY <1>7 DEF BeatStep, StartBeat, SendBeat, StopBeats, AnswerBeat
  <2>2. BeatsStand'
    BY <1>7, KeepsBeat DEF ProofsIInv
  <2>3. ProofsTyped' /\ ProofsStand' /\ NoncesStand'
    BY <1>3, <2>1 DEF ProofsIInv, ProofsTyped, ProofsStand, Alive, NoncesStand, NonceStands
  <2> QED
    BY <1>1, <1>2, <2>2, <2>3 DEF ProofsIInv
<1> QED
  BY <1>4, <1>5, <1>6, <1>7 DEF ChallengeStep

LEMMA KeepsFleet ==
  ASSUME FleetAssumption, FleetIInv, ProofsIInv, FleetNext
  PROVE  FleetIInv' /\ ProofsIInv'
<1>1. FleetIInv'
  <2>1. CASE \E a \in FleetAgents : RegisterAgent(a) \/ Heartbeat(a) \/ DeregisterAgent(a)
    BY <2>1, KeepsRegister, KeepsHeartbeat, KeepsDeregister
  <2>2. CASE ReadListing \/ StartWalk \/ WalkPage
    BY <2>2, KeepsReadListing, KeepsStartWalk, KeepsWalkPage
  <2>3. CASE \E a \in FleetAgents : SetAgentEnabled(a)
    BY <2>3, KeepsEnabled
  <2>4. CASE WatchdogPass \/ DeleteOffline \/ CleanupTick
    BY <2>4, KeepsWatchdog, KeepsDeleteOffline, KeepsCleanup
  <2>5. CASE ServerEnds \/ ServerStarts \/ FleetTick
    BY <2>5, KeepsServerEnds, KeepsServerStarts, KeepsFleetTick
  <2> QED
    BY <2>1, <2>2, <2>3, <2>4, <2>5 DEF FleetNext, AgentsRouter
<1>2. UNCHANGED proofVars /\ (fleetTime' = fleetTime \/ fleetTime' = fleetTime + 1)
  BY DEF FleetNext, AgentsRouter, RegisterAgent, Heartbeat, DeregisterAgent, ReadListing, StartWalk, WalkPage,
         SetAgentEnabled, WatchdogPass, DeleteOffline, CleanupTick, ServerEnds, ServerStarts, FleetTick
<1>3. FleetTyped /\ fleetTime' \in Nat /\ fleetTime <= fleetTime'
  BY <1>2 DEF FleetIInv, FleetTyped
<1>4. ProofsIInv'
  BY <1>2, <1>3, ProofsKept
<1> QED
  BY <1>1, <1>4

LEMMA FleetStarts ==
  ASSUME FleetAssumption, FleetInit
  PROVE  FleetIInv /\ ProofsIInv
<1>1. /\ agentRow = [a \in FleetAgents |-> NoRow] /\ serving = TRUE /\ lastPass = NoClock /\ listing = NotCached
      /\ alerts = [a \in FleetAgents |-> "none"] /\ swept = {} /\ walk = NoWalk /\ fleetTime = 0
      /\ proofs = <<>> /\ pendingProofs = {} /\ proofUse = NoUse /\ nonces = <<>>
      /\ beats = [a \in FleetAgents |-> NoBeats]
  BY DEF FleetInit
<1>2. NoRow \in Rows /\ NoRow.status = "none" /\ NoRow.stale = NoClock /\ NoRow.seen = 0
  BY NoRowIs
<1>3. FleetTyped
  <2>1. agentRow \in [FleetAgents -> Rows]
    BY <1>1, <1>2
  <2>2. walk \in [state : {"none", "reading", "done"}, seen : Int, id : Int,
                  got : SUBSET FleetAgents, began : SUBSET FleetAgents, touched : SUBSET FleetAgents]
    BY <1>1 DEF NoWalk, FleetAssumption
  <2>3. listing \in [agents : SUBSET FleetAgents, until : Int]
    BY <1>1 DEF NotCached, NoClock
  <2>4. lastPass \in -1 .. FleetEnd /\ fleetTime \in 0 .. FleetEnd /\ lastPass <= fleetTime
    BY <1>1 DEF NoClock, FleetAssumption
  <2> QED
    BY <1>1, <2>1, <2>2, <2>3, <2>4 DEF FleetTyped
<1>4. RowsStand /\ NoneLingers /\ QuarantineIsTold
  BY <1>1, <1>2 DEF RowsStand, NoneLingers, QuarantineIsTold, Enlisted, ClockRuns
<1>5. ListedAreEnlisted /\ WalkStands
  BY <1>1 DEF ListedAreEnlisted, NotCached, WalkStands, NoWalk
<1>6. /\ \A S : <<>> \in Seq(S) /\ Len(<<>>) = 0
      /\ Cardinality({}) = 0 /\ MaxPending \in Nat /\ MaxProofs \in Nat
  BY EmptySeq, FS_EmptySet DEF FleetAssumption
<1>7. ProofsTyped /\ ProofsStand
  <2>1. proofUse \in [count : Seq(Nat), refused : Nat, lost : Nat, spent : SUBSET Nat]
    BY <1>1, <1>6 DEF NoUse
  <2>2. proofUse.count = <<>> /\ proofUse.refused = 0 /\ proofUse.lost = 0
    BY <1>1 DEF NoUse
  <2>3. proofs = <<>> /\ Len(proofs) = 0 /\ proofs \in Seq(Challenges) /\ Len(proofUse.count) = 0
    BY <1>1, <1>6, <2>2
  <2>4. ProofsTyped
    BY <1>1, <1>6, <2>1, <2>2, <2>3 DEF ProofsTyped
  <2>5. ProofsStand
    BY <2>2, <2>3 DEF ProofsStand
  <2> QED
    BY <2>4, <2>5
<1>8. NoncesStand
  BY <1>1, <1>6 DEF NoncesStand
<1>9. BeatsStand
  <2>1. NoBeats \in BeatClients /\ NoBeats.on = FALSE /\ NoBeats.after = 0 /\ NoBeats.signing = 0 /\ NoBeats.allowed = 0
    BY DEF NoBeats, BeatClients
  <2> QED
    BY <1>1, <2>1 DEF BeatsStand
<1> QED
  BY <1>3, <1>4, <1>5, <1>7, <1>8, <1>9 DEF FleetIInv, ProofsIInv

LEMMA FleetIsSound ==
  ASSUME FleetIInv, ProofsIInv
  PROVE  FleetInv
<1>1. FleetTypeOK
  <2>1. Len(nonces) <= MaxProofs /\ Len(proofs) <= MaxProofs /\ Cardinality(pendingProofs) <= MaxPending
    BY DEF ProofsIInv, ProofsTyped, NoncesStand
  <2> QED
    BY <2>1 DEF FleetTypeOK, FleetIInv, FleetTyped, Rows, FleetStatuses
<1>2. NoneLingers /\ ListedAreEnlisted /\ QuarantineIsTold
  BY DEF FleetIInv
<1>3. QuietAgentsAreListed
  BY DEF FleetIInv, WalkStands, QuietAgentsAreListed
<1>4. ProofsServeOnce
  <2>1. DOMAIN proofs = 1 .. Len(proofs)
    BY SeqFacts DEF ProofsIInv, ProofsTyped
  <2> QED
    BY <2>1 DEF ProofsIInv, ProofsStand, ProofsServeOnce
<1>5. NoncesServeOnce
  <2>1. DOMAIN nonces = 1 .. Len(nonces)
    BY SeqFacts DEF ProofsIInv, NoncesStand
  <2> QED
    BY <2>1 DEF ProofsIInv, NoncesStand, NonceStands, NoncesServeOnce
<1>6. StoppedBeatsEnd
  <2> SUFFICES ASSUME NEW a \in FleetAgents PROVE beats[a].after <= beats[a].allowed
    BY DEF StoppedBeatsEnd
  <2>1. beats[a] \in BeatClients
    BY DEF ProofsIInv, BeatsStand
  <2>2. beats[a].after \in Nat /\ beats[a].signing \in Nat /\ beats[a].allowed \in Nat
    BY <2>1 DEF BeatClients
  <2>3. IF beats[a].on THEN beats[a].after = 0 ELSE beats[a].after + beats[a].signing <= beats[a].allowed
    BY DEF ProofsIInv, BeatsStand
  <2> QED
    BY <2>2, <2>3
<1> QED
  BY <1>1, <1>2, <1>3, <1>4, <1>5, <1>6 DEF FleetInv

\* Table, watchdog, listings and challenges agree on who is there, for any number of agents
\* and of challenges: no silent agent lingers, no cached listing names one that was evicted,
\* a client that reads page by page misses nobody, and a challenge is good once (agentWatchdog.ts,
\* agents.ts, agentSignature.ts).
THEOREM FleetHolds == FleetInit /\ [][FleetNext \/ ChallengeStep]_fleetVars => []FleetInv
<1> DEFINE IInv == FleetIInv /\ ProofsIInv
<1>1. FleetInit => IInv
  BY FleetAssumption, FleetStarts
<1>2. IInv /\ [FleetNext \/ ChallengeStep]_fleetVars => IInv'
  <2> SUFFICES ASSUME IInv, [FleetNext \/ ChallengeStep]_fleetVars PROVE IInv'
    OBVIOUS
  <2>1. CASE FleetNext
    BY <2>1, FleetAssumption, KeepsFleet
  <2>2. CASE ChallengeStep
    BY <2>2, FleetAssumption, KeepsChallenges
  <2>3. CASE UNCHANGED fleetVars
    <3>1. UNCHANGED FleetVarsNow /\ UNCHANGED proofVars
      BY <2>3 DEF fleetVars, FleetVarsNow
    <3>2. fleetTime' \in Nat /\ fleetTime <= fleetTime' /\ FleetTyped
      BY <3>1 DEF FleetVarsNow, FleetIInv, FleetTyped
    <3> QED
      BY <3>1, <3>2, FleetStands, ProofsKept
  <2> QED
    BY <2>1, <2>2, <2>3
<1>3. IInv => FleetInv
  BY FleetIsSound
<1> QED
  BY <1>1, <1>2, <1>3, PTL

-----------------------------------------------------------------------------
ChainStates == {"absent", "active", "frozen"}
PollRecords == [step : {"idle", "begun", "asked", "fetched"}, from : Nat, tip : Nat, batch : Seq(ChainEvents)]

ChainTyped ==
  /\ chain \in Seq(ChainEvents) /\ ledgerEnds \in Seq(Nat) /\ Len(ledgerEnds) <= MaxLedgers
  /\ onChain \in [ChainAgents -> ChainStates]
  /\ cursor \in 0 .. Len(ledgerEnds) /\ polls \in [Polls -> PollRecords]
  /\ joined \subseteq FleetAgents /\ skipped \in BOOLEAN

Is(e, kind, a) == e.kind = kind /\ e.agent = a

\* An agent leaves by one of the events after the first n.
Leaves(c, a, n) == \E k \in 1 .. Len(c) : k > n /\ Is(c[k], "agent_drg", a)

\* The ledgers close over the events in their order.
LedgersStand ==
  /\ \A l \in 1 .. Len(ledgerEnds) : ledgerEnds[l] <= Len(chain) /\ (l = Len(ledgerEnds) => ledgerEnds[l] = Len(chain))
  /\ \A l \in 1 .. Len(ledgerEnds), m \in 1 .. Len(ledgerEnds) : l <= m => ledgerEnds[l] <= ledgerEnds[m]

\* Whom the contract does not hold has left it since it came.
History(c, states) ==
  \A a \in ChainAgents : states[a] = "absent" =>
    \A j \in 1 .. Len(c) : Is(c[j], "agent_reg", a) => Leaves(c, a, j)

HistoryStands == History(chain, onChain)

\* A poll that has its answer holds what came after the ledgers it left out.
PollStands(p) ==
  /\ p.step \in {"asked", "fetched"} => p.from >= 1 /\ p.from < p.tip /\ p.tip <= Len(ledgerEnds)
  /\ p.step = "fetched" =>
       /\ EventsBefore(p.from) + Len(p.batch) <= Len(chain)
       /\ Len(p.batch) = EventLimit \/ EventsBefore(p.from) + Len(p.batch) >= ledgerEnds[p.tip]
       /\ \A k \in 1 .. Len(p.batch) : p.batch[k] = chain[EventsBefore(p.from) + k]

\* How many events the cursor has left behind.
ReadTo == IF cursor <= 1 THEN 0 ELSE ledgerEnds[cursor]

\* Who is in the table without having come by the server's own door is held by the
\* contract, or its departure is still to be read.
TableLags ==
  /\ ~skipped => \A a \in ChainAgents \ joined :
       agentRow[a].status # "none" => onChain[a] # "absent" \/ Leaves(chain, a, ReadTo)
  /\ Len(ledgerEnds) <= 1 => \A a \in ChainAgents \ joined : agentRow[a].status = "none"

SyncIInv ==
  /\ FleetIInv /\ ProofsIInv
  /\ ChainTyped /\ LedgersStand /\ HistoryStands /\ TableLags /\ \A w \in Polls : PollStands(polls[w])

-----------------------------------------------------------------------------
(* The chain.                                                              *)

\* One event more.
LEMMA OneMore ==
  ASSUME NEW c \in Seq(ChainEvents), NEW s \in [ChainAgents -> ChainStates], NEW e \in ChainEvents, Allowed(s, e),
         NEW n \in Nat, n <= Len(c)
  PROVE  /\ Append(c, e) \in Seq(ChainEvents) /\ Became(s, e) \in [ChainAgents -> ChainStates]
         /\ Len(Append(c, e)) = Len(c) + 1 /\ \A k \in 1 .. Len(c) : Append(c, e)[k] = c[k]
         /\ History(c, s) => History(Append(c, e), Became(s, e))
         /\ \A a \in ChainAgents : Leaves(c, a, n) => Leaves(Append(c, e), a, n)
         /\ \A a \in ChainAgents : Became(s, e)[a] = "absent" => s[a] = "absent" \/ Leaves(Append(c, e), a, n)
<1>1. PICK d, t : d = Append(c, e) /\ t = Became(s, e)
  OBVIOUS
<1>2. /\ d \in Seq(ChainEvents) /\ Len(d) = Len(c) + 1 /\ Len(c) \in Nat /\ d[Len(c) + 1] = e
      /\ \A k \in 1 .. Len(c) : d[k] = c[k]
  BY <1>1, AppendProperties, SeqFacts
<1>3. e.agent \in ChainAgents /\ e.kind \in Kinds
  BY DEF ChainEvents
<1>4. /\ t \in [ChainAgents -> ChainStates] /\ \A a \in ChainAgents : a # e.agent => t[a] = s[a]
      /\ t[e.agent] = "absent" <=> e.kind = "agent_drg"
  BY <1>1, <1>3 DEF Became, ChainStates, Kinds
<1>5. \A a \in ChainAgents : Is(e, "agent_drg", a) => \A m \in Nat : m <= Len(c) => Leaves(d, a, m)
  <2>1. Len(c) + 1 \in 1 .. Len(d)
    BY <1>2
  <2> QED
    BY <1>2, <2>1 DEF Leaves
<1>6. \A a \in ChainAgents : \A m \in Nat : Leaves(c, a, m) => Leaves(d, a, m)
  <2>1. \A k \in 1 .. Len(c) : k \in 1 .. Len(d)
    BY <1>2
  <2> QED
    BY <1>2, <2>1 DEF Leaves
<1>7. \A a \in ChainAgents : t[a] = "absent" => s[a] = "absent" \/ Is(e, "agent_drg", a)
  BY <1>4 DEF Is
<1>8. ASSUME History(c, s), NEW a \in ChainAgents, t[a] = "absent", NEW j \in 1 .. Len(d), Is(d[j], "agent_reg", a)
      PROVE  Leaves(d, a, j)
  <2>1. CASE j = Len(c) + 1
    BY <1>2, <1>4, <1>8, <2>1 DEF Is
  <2>2. CASE j # Len(c) + 1
    <3>1. j \in 1 .. Len(c) /\ j \in Nat /\ j <= Len(c)
      BY <1>2, <2>2
    <3>2. CASE Is(e, "agent_drg", a)
      BY <1>5, <3>1, <3>2
    <3>3. CASE ~Is(e, "agent_drg", a)
      <4>1. s[a] = "absent"
        BY <1>7, <1>8, <3>3
      <4>2. Leaves(c, a, j)
        BY <1>2, <1>8, <3>1, <4>1 DEF History
      <4> QED
        BY <1>6, <3>1, <4>2
    <3> QED
      BY <3>2, <3>3
  <2> QED
    BY <2>1, <2>2
<1>9. History(c, s) => History(d, t)
  BY <1>8 DEF History
<1>10. \A a \in ChainAgents : t[a] = "absent" => s[a] = "absent" \/ Leaves(d, a, n)
  BY <1>5, <1>7
<1>11. /\ d \in Seq(ChainEvents) /\ t \in [ChainAgents -> ChainStates]
       /\ Len(d) = Len(c) + 1 /\ \A k \in 1 .. Len(c) : d[k] = c[k]
       /\ History(c, s) => History(d, t)
       /\ \A a \in ChainAgents : Leaves(c, a, n) => Leaves(d, a, n)
       /\ \A a \in ChainAgents : t[a] = "absent" => s[a] = "absent" \/ Leaves(d, a, n)
  BY <1>2, <1>4, <1>6, <1>9, <1>10
<1> QED
  BY <1>1, <1>11

\* What a ledger may bring.
LEMMA LedgerBrings ==
  ASSUME ChainTyped, HistoryStands, NEW n \in Nat, n <= Len(chain),
         \/ \E e \in ChainEvents : Happens(e) \/ \E f \in ChainEvents : HappenBoth(e, f)
         \/ UNCHANGED <<chain, onChain>>
  PROVE  /\ chain' \in Seq(ChainEvents) /\ onChain' \in [ChainAgents -> ChainStates] /\ HistoryStands'
         /\ Len(chain) <= Len(chain') /\ \A k \in 1 .. Len(chain) : chain'[k] = chain[k]
         /\ \A a \in ChainAgents : Leaves(chain, a, n) => Leaves(chain', a, n)
         /\ \A a \in ChainAgents : onChain'[a] = "absent" => onChain[a] = "absent" \/ Leaves(chain', a, n)
<1>1. /\ chain \in Seq(ChainEvents) /\ onChain \in [ChainAgents -> ChainStates] /\ Len(chain) \in Nat
      /\ History(chain, onChain)
  BY SeqFacts DEF ChainTyped, HistoryStands
<1>2. CASE \E e \in ChainEvents : Happens(e)
  <2> PICK e \in ChainEvents : Happens(e)
    BY <1>2
  <2>1. Allowed(onChain, e) /\ chain' = Append(chain, e) /\ onChain' = Became(onChain, e)
    BY DEF Happens
  <2>2. /\ Append(chain, e) \in Seq(ChainEvents) /\ Became(onChain, e) \in [ChainAgents -> ChainStates]
        /\ Len(Append(chain, e)) = Len(chain) + 1 /\ \A k \in 1 .. Len(chain) : Append(chain, e)[k] = chain[k]
        /\ History(Append(chain, e), Became(onChain, e))
        /\ \A a \in ChainAgents : Leaves(chain, a, n) => Leaves(Append(chain, e), a, n)
        /\ \A a \in ChainAgents : Became(onChain, e)[a] = "absent" => onChain[a] = "absent" \/ Leaves(Append(chain, e), a, n)
    BY <1>1, <2>1, OneMore
  <2> QED
    BY <1>1, <2>1, <2>2 DEF HistoryStands
<1>3. CASE \E e \in ChainEvents : \E f \in ChainEvents : HappenBoth(e, f)
  <2> PICK e \in ChainEvents, f \in ChainEvents : HappenBoth(e, f)
    BY <1>3
  <2>1. PICK c, s : c = Append(chain, e) /\ s = Became(onChain, e)
    OBVIOUS
  <2>2. Allowed(onChain, e) /\ Allowed(s, f) /\ chain' = Append(c, f) /\ onChain' = Became(s, f)
    BY <2>1 DEF HappenBoth
  <2>3. /\ c \in Seq(ChainEvents) /\ s \in [ChainAgents -> ChainStates]
        /\ Len(c) = Len(chain) + 1 /\ \A k \in 1 .. Len(chain) : c[k] = chain[k]
        /\ History(c, s)
        /\ \A a \in ChainAgents : Leaves(chain, a, n) => Leaves(c, a, n)
        /\ \A a \in ChainAgents : s[a] = "absent" => onChain[a] = "absent" \/ Leaves(c, a, n)
    BY <1>1, <2>1, <2>2, OneMore
  <2>4. n <= Len(c)
    BY <1>1, <2>3
  <2>5. /\ Append(c, f) \in Seq(ChainEvents) /\ Became(s, f) \in [ChainAgents -> ChainStates]
        /\ Len(Append(c, f)) = Len(c) + 1 /\ \A k \in 1 .. Len(c) : Append(c, f)[k] = c[k]
        /\ History(Append(c, f), Became(s, f))
        /\ \A a \in ChainAgents : Leaves(c, a, n) => Leaves(Append(c, f), a, n)
        /\ \A a \in ChainAgents : Became(s, f)[a] = "absent" => s[a] = "absent" \/ Leaves(Append(c, f), a, n)
    BY <2>2, <2>3, <2>4, OneMore
  <2>6. Len(chain) <= Len(chain') /\ \A k \in 1 .. Len(chain) : k \in 1 .. Len(c)
    BY <1>1, <2>2, <2>3, <2>5
  <2> QED
    BY <2>2, <2>3, <2>5, <2>6 DEF HistoryStands
<1>4. CASE UNCHANGED <<chain, onChain>>
  BY <1>1, <1>4 DEF HistoryStands
<1> QED
  BY <1>2, <1>3, <1>4

LEMMA EventsBeforeType ==
  ASSUME ChainTyped, LedgersStand, NEW l \in Nat, l <= Len(ledgerEnds) + 1
  PROVE  EventsBefore(l) \in Nat /\ EventsBefore(l) <= Len(chain)
<1>1. Len(ledgerEnds) \in Nat /\ Len(chain) \in Nat /\ \A i \in 1 .. Len(ledgerEnds) : ledgerEnds[i] \in Nat
  BY SeqFacts DEF ChainTyped
<1>2. CASE l <= 1
  BY <1>1, <1>2 DEF EventsBefore
<1>3. CASE ~(l <= 1)
  <2>1. l - 1 \in 1 .. Len(ledgerEnds) /\ EventsBefore(l) = ledgerEnds[l - 1]
    BY <1>1, <1>3 DEF EventsBefore
  <2> QED
    BY <1>1, <2>1 DEF LedgersStand
<1> QED
  BY <1>2, <1>3

LEMMA PollsAre ==
  ASSUME ChainTyped, NEW w \in Polls
  PROVE  polls[w] \in PollRecords
BY DEF ChainTyped

LEMMA KeepsCloseLedger ==
  ASSUME SyncAssumption, FleetAssumption, SyncIInv, CloseLedger
  PROVE  SyncIInv'
<1>1. /\ ChainTyped /\ LedgersStand /\ HistoryStands /\ TableLags /\ FleetIInv /\ ProofsIInv
      /\ \A w \in Polls : PollStands(polls[w])
  BY DEF SyncIInv
<1>0. ledgerEnds \in Seq(Nat) /\ chain \in Seq(ChainEvents)
  BY <1>1 DEF ChainTyped
<1>a. PICK t, n : t = Len(ledgerEnds) /\ n = Len(chain) /\ t \in Nat /\ n \in Nat
  BY <1>0, SeqFacts
<1>b. t \in Nat /\ n \in Nat
  BY <1>a
<1>2. /\ t < MaxLedgers /\ MaxLedgers \in Nat /\ cursor \in 0 .. t
      /\ \A l \in 1 .. t : ledgerEnds[l] \in Nat /\ ledgerEnds[l] <= n
  BY <1>0, <1>1, <1>a, SeqFacts DEF ChainTyped, CloseLedger, SyncAssumption, Tip, LedgersStand
<1>3. /\ ledgerEnds' = Append(ledgerEnds, Len(chain'))
      /\ UNCHANGED <<cursor, polls, joined, skipped>> /\ UNCHANGED fleetVars
  BY DEF CloseLedger
<1>4. PICK r \in Nat : r = ReadTo /\ r <= n
  <2>1. CASE cursor <= 1
    BY <1>a, <2>1 DEF ReadTo
  <2>2. CASE ~(cursor <= 1)
    <3>1. cursor \in 1 .. t
      BY <1>a, <1>2, <2>2, SMTT(30)
    <3> QED
      BY <1>2, <2>2, <3>1 DEF ReadTo
  <2> QED
    BY <2>1, <2>2
<1>5. /\ chain' \in Seq(ChainEvents) /\ onChain' \in [ChainAgents -> ChainStates] /\ HistoryStands'
      /\ Len(chain) <= Len(chain') /\ \A k \in 1 .. Len(chain) : chain'[k] = chain[k]
      /\ \A a \in ChainAgents : Leaves(chain, a, r) => Leaves(chain', a, r)
      /\ \A a \in ChainAgents : onChain'[a] = "absent" => onChain[a] = "absent" \/ Leaves(chain', a, r)
  BY <1>1, <1>a, <1>4, LedgerBrings DEF CloseLedger
<1>6. PICK m \in Nat : m = Len(chain') /\ n <= m
  BY <1>5, <1>a, SeqFacts
<1>c. n <= m
  BY <1>6
<1>7. /\ ledgerEnds' \in Seq(Nat) /\ Len(ledgerEnds') = t + 1 /\ ledgerEnds'[t + 1] = Len(chain')
      /\ \A l \in 1 .. t : ledgerEnds'[l] = ledgerEnds[l]
  <2>1. PICK N, c : N = Nat /\ c = Len(chain')
    OBVIOUS
  <2>2. ledgerEnds \in Seq(N) /\ c \in N /\ ledgerEnds' = Append(ledgerEnds, c)
    BY <1>0, <1>3, <1>6, <2>1
  <2>3. /\ ledgerEnds' \in Seq(N) /\ Len(ledgerEnds') = Len(ledgerEnds) + 1 /\ ledgerEnds'[Len(ledgerEnds) + 1] = c
        /\ \A l \in 1 .. Len(ledgerEnds) : ledgerEnds'[l] = ledgerEnds[l]
    BY <2>2, AppendProperties
  <2> QED
    BY <1>a, <2>1, <2>3
<1>8. ChainTyped'
  <2>1. t + 1 <= MaxLedgers /\ cursor' \in 0 .. t + 1
    BY <1>b, <1>2, <1>3, SMTT(30)
  <2> QED
    BY <1>1, <1>3, <1>5, <1>7, <2>1 DEF ChainTyped
<1>9. LedgersStand'
  <2>1. \A l \in 1 .. t + 1 : l \in 1 .. t \/ l = t + 1
    BY <1>a, SMTT(30)
  <2>2. \A l \in 1 .. t + 1 : /\ ledgerEnds'[l] <= Len(chain') /\ (l = t + 1 => ledgerEnds'[l] = Len(chain'))
    <3> SUFFICES ASSUME NEW l \in 1 .. t + 1 PROVE ledgerEnds'[l] <= m /\ (l = t + 1 => ledgerEnds'[l] = m)
      BY <1>6
    <3>1. CASE l = t + 1
      BY <1>6, <1>7, <3>1, SMTT(30)
    <3>2. CASE l # t + 1
      <4>1. l \in 1 .. t
        BY <2>1, <3>2
      <4>2. ledgerEnds[l] \in Nat /\ ledgerEnds[l] <= n /\ ledgerEnds'[l] = ledgerEnds[l]
        BY <1>2, <1>7, <4>1
      <4> QED
        BY <1>b, <1>c, <3>2, <4>2
    <3> QED
      BY <3>1, <3>2
  <2>3. \A l \in 1 .. t + 1, k \in 1 .. t + 1 : l <= k => ledgerEnds'[l] <= ledgerEnds'[k]
    <3> SUFFICES ASSUME NEW l \in 1 .. t + 1, NEW k \in 1 .. t + 1, l <= k PROVE ledgerEnds'[l] <= ledgerEnds'[k]
      OBVIOUS
    <3>1. CASE k = t + 1
      BY <1>7, <2>2, <3>1
    <3>2. CASE k # t + 1
      <4>1. l \in 1 .. t /\ k \in 1 .. t
        BY <1>b, <3>2
      <4>2. ledgerEnds[l] <= ledgerEnds[k]
        BY <1>1, <1>a, <4>1 DEF LedgersStand
      <4> QED
        BY <1>7, <4>1, <4>2
    <3> QED
      BY <3>1, <3>2
  <2> QED
    BY <1>7, <2>2, <2>3 DEF LedgersStand
<1>10. ReadTo' = r
  <2>1. CASE cursor <= 1
    BY <1>3, <1>4, <2>1 DEF ReadTo
  <2>2. CASE ~(cursor <= 1)
    <3>1. cursor \in 1 .. t
      BY <1>a, <1>2, <2>2, SMTT(30)
    <3> QED
      BY <1>3, <1>4, <1>7, <2>2, <3>1 DEF ReadTo
  <2> QED
    BY <2>1, <2>2
<1>11. TableLags'
  <2>1. agentRow' = agentRow /\ joined' = joined /\ skipped' = skipped
    BY <1>3 DEF fleetVars
  <2>2. ASSUME ~skipped', NEW a \in ChainAgents \ joined', agentRow'[a].status # "none"
        PROVE  onChain'[a] # "absent" \/ Leaves(chain', a, r)
    <3>1. onChain[a] # "absent" \/ Leaves(chain, a, r)
      BY <1>1, <1>4, <2>1, <2>2 DEF TableLags
    <3> QED
      BY <1>5, <3>1
  <2>3. ASSUME Len(ledgerEnds') <= 1, NEW a \in ChainAgents \ joined' PROVE agentRow'[a].status = "none"
    <3>1. Len(ledgerEnds) <= 1
      BY <1>a, <1>7, <2>3
    <3> QED
      BY <1>1, <2>1, <3>1 DEF TableLags
  <2> QED
    BY <1>10, <2>2, <2>3 DEF TableLags
<1>12. ASSUME NEW w \in Polls PROVE PollStands(polls[w])'
  <2>1. PICK p : p = polls[w] /\ p = polls'[w]
    BY <1>3
  <2>2. PollStands(p) /\ p \in PollRecords
    BY <1>1, <2>1, PollsAre
  <2>3. CASE p.step \in {"asked", "fetched"}
    <3>1. p.from >= 1 /\ p.from < p.tip /\ p.tip <= t /\ p.from \in Nat /\ p.tip \in Nat /\ Len(p.batch) \in Nat
      BY <1>a, <2>2, <2>3, SeqFacts DEF PollStands, PollRecords
    <3>a. PICK f \in Nat, g \in Nat : f = p.from /\ g = p.tip /\ 1 <= f /\ f < g /\ g <= t
      BY <3>1
    <3>c. 1 <= f /\ f < g /\ g <= t
      BY <3>a
    <3>b. f \in 1 .. t /\ g \in 1 .. t /\ g <= t + 1 /\ f <= t + 1
      BY <1>b, <3>c
    <3>2. EventsBefore(p.from)' = EventsBefore(p.from)
      <4>1. CASE p.from <= 1
        BY <4>1 DEF EventsBefore
      <4>2. CASE ~(p.from <= 1)
        <5>1. p.from - 1 \in 1 .. t
          <6>1. f - 1 \in 1 .. t
            <7>1. ~(f <= 1)
              BY <3>a, <4>2
            <7> QED
              BY <1>b, <3>c, <7>1
          <6> QED
            BY <3>a, <6>1
        <5> QED
          BY <1>7, <4>2, <5>1 DEF EventsBefore
      <4> QED
        BY <4>1, <4>2
    <3>3. p.tip \in 1 .. t /\ ledgerEnds'[p.tip] = ledgerEnds[p.tip]
      BY <1>7, <3>a, <3>b
    <3>4. PICK b \in Nat : b = EventsBefore(p.from)
      BY <1>1, <1>a, <3>a, <3>b, EventsBeforeType
    <3>5. PICK z \in Nat : z = Len(p.batch)
      BY <3>1
    <3>6. ASSUME p.step = "fetched"
          PROVE  /\ EventsBefore(p.from) + Len(p.batch) <= Len(chain')
                 /\ Len(p.batch) = EventLimit \/ EventsBefore(p.from) + Len(p.batch) >= ledgerEnds'[p.tip]
                 /\ \A k \in 1 .. Len(p.batch) : p.batch[k] = chain'[EventsBefore(p.from) + k]
      <4>1. /\ EventsBefore(p.from) + Len(p.batch) <= Len(chain)
            /\ Len(p.batch) = EventLimit \/ EventsBefore(p.from) + Len(p.batch) >= ledgerEnds[p.tip]
            /\ \A k \in 1 .. Len(p.batch) : p.batch[k] = chain[EventsBefore(p.from) + k]
        BY <2>2, <3>6 DEF PollStands
      <4>2. EventsBefore(p.from) + Len(p.batch) <= Len(chain')
        <5>1. b + z <= n
          BY <1>a, <3>4, <3>5, <4>1
        <5>2. b + z <= m
          BY <1>b, <1>c, <5>1
        <5> QED
          BY <1>6, <3>4, <3>5, <5>2
      <4>3. \A k \in 1 .. Len(p.batch) : EventsBefore(p.from) + k \in 1 .. Len(chain)
        <5>1. b + z <= n
          BY <1>a, <3>4, <3>5, <4>1
        <5>2. \A k \in 1 .. z : b + k \in 1 .. n
          BY <1>b, <5>1
        <5> QED
          BY <1>a, <3>4, <3>5, <5>2
      <4> QED
        BY <1>5, <3>3, <4>1, <4>2, <4>3
    <3> QED
      BY <1>7, <2>1, <3>1, <3>a, <3>b, <3>2, <3>6 DEF PollStands
  <2>4. CASE p.step \notin {"asked", "fetched"}
    BY <2>1, <2>4 DEF PollStands
  <2> QED
    BY <2>3, <2>4
<1>13. FleetIInv' /\ ProofsIInv'
  <2>1. UNCHANGED FleetVarsNow /\ UNCHANGED proofVars
    BY <1>3 DEF fleetVars, FleetVarsNow
  <2>2. FleetTyped /\ fleetTime' = fleetTime /\ fleetTime \in Nat
    BY <1>1, <2>1 DEF FleetIInv, FleetTyped, FleetVarsNow
  <2> QED
    BY <1>1, <2>1, <2>2, FleetStands, ProofsKept
<1> QED
  BY <1>5, <1>8, <1>9, <1>11, <1>12, <1>13 DEF SyncIInv

-----------------------------------------------------------------------------
(* The polls.                                                              *)

\* Whatever a step does to one poll, if the poll stands afterwards.
LEMMA KeepsOnePoll ==
  ASSUME SyncIInv, UNCHANGED fleetVars, UNCHANGED <<chain, ledgerEnds, onChain, cursor, joined, skipped>>,
         NEW w \in Polls, NEW p \in PollRecords, polls' = [polls EXCEPT ![w] = p], PollStands(p)
  PROVE  SyncIInv'
<1>1. FleetIInv' /\ ProofsIInv'
  <2>1. UNCHANGED FleetVarsNow /\ UNCHANGED proofVars
    BY DEF fleetVars, FleetVarsNow
  <2>2. FleetTyped /\ fleetTime' = fleetTime /\ fleetTime \in Nat /\ FleetIInv /\ ProofsIInv
    BY <2>1 DEF SyncIInv, FleetIInv, FleetTyped, FleetVarsNow
  <2> QED
    BY <2>1, <2>2, FleetStands, ProofsKept
<1>2. polls \in [Polls -> PollRecords] /\ \A v \in Polls : PollStands(polls[v])
  BY DEF SyncIInv, ChainTyped
<1>3. polls' \in [Polls -> PollRecords] /\ \A v \in Polls : polls'[v] = IF v = w THEN p ELSE polls[v]
  BY <1>2
<1>4. \A v \in Polls : PollStands(polls'[v])
  BY <1>2, <1>3
<1>5. \A v \in Polls : PollStands(polls[v])'
  BY <1>4 DEF PollStands, EventsBefore
<1>6. ChainTyped' /\ LedgersStand' /\ HistoryStands' /\ TableLags'
  BY <1>3 DEF SyncIInv, ChainTyped, LedgersStand, HistoryStands, History, Leaves, TableLags, ReadTo, fleetVars
<1> QED
  BY <1>1, <1>5, <1>6 DEF SyncIInv

LEMMA IdleStands == NoPoll \in PollRecords /\ PollStands(NoPoll)
<1>1. <<>> \in Seq(ChainEvents)
  BY EmptySeq
<1> QED
  BY <1>1 DEF NoPoll, PollRecords, PollStands

LEMMA KeepsBeginPoll ==
  ASSUME SyncIInv, NEW w \in Polls, BeginPoll(w)
  PROVE  SyncIInv'
<1> DEFINE p == [polls[w] EXCEPT !.step = "begun"]
<1>1. polls[w] \in PollRecords
  BY PollsAre DEF SyncIInv
<1>2. p \in PollRecords /\ p.step = "begun"
  BY <1>1 DEF PollRecords
<1>3. polls' = [polls EXCEPT ![w] = p]
  BY DEF BeginPoll
<1> HIDE DEF p
<1>4. PollStands(p)
  BY <1>2 DEF PollStands
<1> QED
  BY <1>2, <1>3, <1>4, KeepsOnePoll DEF BeginPoll

LEMMA KeepsPollFails ==
  ASSUME SyncIInv, NEW w \in Polls, PollFails(w)
  PROVE  SyncIInv'
BY IdleStands, KeepsOnePoll DEF PollFails

LEMMA KeepsLearnTip ==
  ASSUME SyncIInv, NEW w \in Polls, LearnTip(w)
  PROVE  SyncIInv'
<1> DEFINE asked == [NoPoll EXCEPT !.step = "asked", !.from = cursor, !.tip = Tip]
<1>1. cursor \in Nat /\ cursor # 0 /\ Tip \in Nat
  BY SeqFacts DEF SyncIInv, ChainTyped, LearnTip, Tip
<1>2. CASE Tip <= cursor
  <2>1. polls' = [polls EXCEPT ![w] = NoPoll]
    BY <1>2 DEF LearnTip
  <2> QED
    BY <2>1, IdleStands, KeepsOnePoll DEF LearnTip
<1>3. CASE ~(Tip <= cursor)
  <2>1. polls' = [polls EXCEPT ![w] = asked]
    BY <1>3 DEF LearnTip
  <2>2. asked \in PollRecords /\ asked.step = "asked" /\ asked.from = cursor /\ asked.tip = Tip
    BY <1>1, IdleStands DEF PollRecords, NoPoll
  <2> HIDE DEF asked
  <2>3. PollStands(asked)
    BY <1>1, <1>3, <2>2 DEF PollStands, Tip
  <2> QED
    BY <2>1, <2>2, <2>3, KeepsOnePoll DEF LearnTip
<1> QED
  BY <1>2, <1>3

LEMMA KeepsAnswerEvents ==
  ASSUME SyncAssumption, SyncIInv, NEW w \in Polls, AnswerEvents(w)
  PROVE  SyncIInv'
<1> DEFINE q == polls[w]
           b == EventsBefore(q.from)
           hi == IF Len(chain) - b < EventLimit THEN Len(chain) ELSE b + EventLimit
           batch == SubSeq(chain, b + 1, hi)
           p == [q EXCEPT !.step = "fetched", !.batch = batch]
<1>1. q \in PollRecords /\ PollStands(q) /\ q.step = "asked"
  BY PollsAre DEF SyncIInv, AnswerEvents
<1>2. q.from >= 1 /\ q.from < q.tip /\ q.tip <= Len(ledgerEnds) /\ q.from \in Nat /\ q.tip \in Nat
  BY <1>1 DEF PollStands, PollRecords
<1>3. /\ Len(ledgerEnds) \in Nat /\ Len(chain) \in Nat /\ EventLimit \in Nat /\ chain \in Seq(ChainEvents)
      /\ \A i \in 1 .. Len(ledgerEnds) : ledgerEnds[i] \in Nat /\ ledgerEnds[i] <= Len(chain)
  BY SeqFacts DEF SyncIInv, ChainTyped, LedgersStand, SyncAssumption
<1>4. b \in Nat /\ b <= Len(chain)
  <2>1. q.from <= Len(ledgerEnds) + 1
    BY <1>2, <1>3
  <2> QED
    BY <1>2, <2>1, EventsBeforeType DEF SyncIInv
<1>5. polls' = [polls EXCEPT ![w] = p]
  BY <1>1 DEF AnswerEvents, FirstFrom, PollRecords, SyncIInv, ChainTyped
<1> HIDE DEF b
<1>6. hi \in Nat /\ b <= hi /\ hi <= Len(chain) /\ hi - b <= EventLimit
      /\ (hi = Len(chain) \/ hi - b = EventLimit)
  <2>1. CASE Len(chain) - b < EventLimit
    BY <1>3, <1>4, <2>1
  <2>2. CASE ~(Len(chain) - b < EventLimit)
    <3>1. hi = b + EventLimit
      BY <2>2
    <3> HIDE DEF hi
    <3> QED
      BY <1>3, <1>4, <2>2, <3>1
  <2> QED
    BY <2>1, <2>2
<1> HIDE DEF hi
<1>7. /\ batch \in Seq(ChainEvents) /\ Len(batch) = hi - b
      /\ \A k \in 1 .. hi - b : batch[k] = chain[b + k]
  <2>1. PICK S, m, u : S = ChainEvents /\ m = b + 1 /\ u = hi /\ m \in Int /\ u \in Int
    BY <1>4, <1>6
  <2>2. \A i \in m .. u : chain[i] \in S
    <3>1. \A i \in m .. u : i \in 1 .. Len(chain)
      BY <1>3, <1>4, <1>6, <2>1
    <3> QED
      BY <1>3, <2>1, <3>1, SeqFacts
  <2>3. /\ SubSeq(chain, m, u) \in Seq(S)
        /\ Len(SubSeq(chain, m, u)) = IF m <= u THEN u - m + 1 ELSE 0
        /\ \A i \in 1 .. u - m + 1 : SubSeq(chain, m, u)[i] = chain[m + i - 1]
    BY <2>1, <2>2, SubSeqProperties
  <2>4. u - m + 1 = hi - b /\ (IF m <= u THEN u - m + 1 ELSE 0) = hi - b
    BY <1>4, <1>6, <2>1
  <2>5. \A k \in 1 .. hi - b : m + k - 1 = b + k
    BY <1>4, <1>6, <2>1
  <2> QED
    BY <2>1, <2>3, <2>4, <2>5
<1> HIDE DEF batch
<1>8. /\ p \in PollRecords /\ p.step = "fetched" /\ p.from = q.from /\ p.tip = q.tip /\ p.batch = batch
  BY <1>1, <1>7 DEF PollRecords
<1> HIDE DEF p
<1>9. PollStands(p)
  <2>1. ledgerEnds[q.tip] <= Len(chain) /\ ledgerEnds[q.tip] \in Nat
    BY <1>2, <1>3
  <2>2. /\ b + Len(batch) <= Len(chain)
        /\ Len(batch) = EventLimit \/ b + Len(batch) >= ledgerEnds[q.tip]
        /\ \A k \in 1 .. Len(batch) : batch[k] = chain[b + k]
    <3>1. b + Len(batch) = hi
      BY <1>4, <1>6, <1>7
    <3>2. hi = Len(chain) \/ Len(batch) = EventLimit
      BY <1>6, <1>7
    <3> HIDE DEF q
    <3> QED
      BY <1>6, <1>7, <2>1, <3>1, <3>2
  <2> HIDE DEF q
  <2> QED
    BY <1>2, <1>8, <2>2 DEF PollStands, b
<1> QED
  BY <1>5, <1>8, <1>9, KeepsOnePoll DEF AnswerEvents

LEMMA KeepsBootstrap ==
  ASSUME SyncAssumption, SyncIInv, NEW w \in Polls, Bootstrap(w)
  PROVE  SyncIInv'
<1> DEFINE start == IF Tip > Lookback THEN Tip - Lookback ELSE 0
<1>1. /\ cursor = 0 /\ cursor' = start /\ skipped' = (skipped \/ start > 1)
      /\ polls' = IF start = 0 THEN [polls EXCEPT ![w] = NoPoll] ELSE polls
      /\ UNCHANGED <<chain, ledgerEnds, onChain, joined>> /\ UNCHANGED fleetVars
  BY DEF Bootstrap
<1>2. start \in 0 .. Len(ledgerEnds)
  BY SeqFacts DEF SyncIInv, ChainTyped, SyncAssumption, Tip
<1> HIDE DEF start
<1>3. FleetIInv' /\ ProofsIInv'
  <2>1. UNCHANGED FleetVarsNow /\ UNCHANGED proofVars
    BY <1>1 DEF fleetVars, FleetVarsNow
  <2>2. FleetTyped /\ fleetTime' = fleetTime /\ fleetTime \in Nat /\ FleetIInv /\ ProofsIInv
    BY <2>1 DEF SyncIInv, FleetIInv, FleetTyped, FleetVarsNow
  <2> QED
    BY <2>1, <2>2, FleetStands, ProofsKept
<1>4. polls' \in [Polls -> PollRecords] /\ \A v \in Polls : polls'[v] = polls[v] \/ polls'[v] = NoPoll
  <2>1. polls \in [Polls -> PollRecords] /\ NoPoll \in PollRecords
    BY IdleStands DEF SyncIInv, ChainTyped
  <2> QED
    BY <1>1, <2>1
<1>5. \A v \in Polls : PollStands(polls[v])'
  <2>1. \A v \in Polls : PollStands(polls'[v])
    BY <1>4, IdleStands DEF SyncIInv
  <2>2. chain' = chain /\ ledgerEnds' = ledgerEnds
    BY <1>1
  <2> QED
    BY <2>1, <2>2 DEF PollStands, EventsBefore
<1>6. ChainTyped' /\ LedgersStand' /\ HistoryStands'
  BY <1>1, <1>2, <1>4 DEF SyncIInv, ChainTyped, LedgersStand, HistoryStands, History, Leaves
<1>7. TableLags'
  <2>1. agentRow' = agentRow
    BY <1>1 DEF fleetVars
  <2>2. ASSUME ~skipped' PROVE ~skipped /\ ReadTo' = ReadTo
    <3>1. ~(start > 1) /\ ~skipped
      BY <1>1, <2>2
    <3>2. cursor <= 1 /\ cursor' <= 1
      BY <1>1, <1>2, <3>1
    <3> QED
      BY <3>1, <3>2 DEF ReadTo
  <2> QED
    BY <1>1, <2>1, <2>2 DEF SyncIInv, TableLags, Leaves
<1> QED
  BY <1>3, <1>5, <1>6, <1>7 DEF SyncIInv

-----------------------------------------------------------------------------
(* What a batch leaves of the table.                                       *)

\* A table whose rows stand.
Table == {rows \in [FleetAgents -> Rows] : \A a \in FleetAgents : rows[a].status = "none" => rows[a] = NoRow}

LEMMA OneHandled ==
  ASSUME FleetAssumption, SyncAssumption, fleetTime \in 0 .. FleetEnd,
         NEW rows \in Table, NEW e \in ChainEvents
  PROVE  /\ Handled(rows, e) \in Table
         /\ \A a \in FleetAgents :
              /\ Moved(rows[a], Handled(rows, e)[a])
              /\ Handled(rows, e)[a].status # "none" =>
                   Is(e, "agent_reg", a) \/ (rows[a].status # "none" /\ ~Is(e, "agent_drg", a))
<1> DEFINE b == e.agent
           row == rows[b]
           new == CASE e.kind = "agent_reg" -> Upserted(row, "online")
                    [] e.kind = "agent_drg" -> NoRow
                    [] e.kind = "freeze"   /\ row # NoRow -> [row EXCEPT !.status = "offline"]
                    [] e.kind = "unfreeze" /\ row # NoRow -> Upserted(row, "online")
                    [] OTHER -> row
           after == Handled(rows, e)
<1>1. b \in FleetAgents /\ e.kind \in Kinds
  BY DEF ChainEvents, SyncAssumption
<1>2. row \in Rows /\ (row.status = "none" => row = NoRow) /\ rows \in [FleetAgents -> Rows]
  BY <1>1 DEF Table
<1>3. after = [rows EXCEPT ![b] = new]
  BY DEF Handled
<1>4. /\ Moved(row, new)
      /\ new.status # "none" => e.kind = "agent_reg" \/ (row.status # "none" /\ e.kind # "agent_drg")
  <2>1. CASE e.kind = "agent_reg"
    <3>1. new = Upserted(row, "online")
      BY <2>1
    <3> HIDE DEF new
    <3> QED
      BY <1>2, <2>1, <3>1, RowWritten
  <2>2. CASE e.kind = "agent_drg"
    <3>1. new = NoRow
      BY <2>2
    <3> HIDE DEF new
    <3> QED
      BY <2>2, <3>1, RowLeaves, NoRowIs
  <2>3. CASE e.kind = "freeze" /\ row # NoRow
    <3>1. new = [row EXCEPT !.status = "offline"] /\ row.status # "none"
      BY <1>2, <2>3
    <3> HIDE DEF new
    <3> QED
      BY <1>2, <2>3, <3>1, RowOffline
  <2>4. CASE e.kind = "unfreeze" /\ row # NoRow
    <3>1. new = Upserted(row, "online") /\ row.status # "none"
      BY <1>2, <2>4
    <3> HIDE DEF new
    <3> QED
      BY <1>2, <2>4, <3>1, RowWritten
  <2>5. CASE e.kind \in {"freeze", "unfreeze"} /\ row = NoRow
    <3>1. new = row
      BY <2>5
    <3> HIDE DEF new
    <3> QED
      BY <1>2, <2>5, <3>1, RowStays, NoRowIs
  <2> QED
    BY <1>1, <2>1, <2>2, <2>3, <2>4, <2>5 DEF Kinds
<1> HIDE DEF new, after
<1>5. new \in Rows /\ (new.status = "none" => new = NoRow)
  BY <1>4 DEF Moved
<1>6. /\ after \in [FleetAgents -> Rows] /\ after[b] = new
      /\ \A a \in FleetAgents : a # b => after[a] = rows[a]
  BY <1>1, <1>2, <1>3, <1>5
<1>7. after \in Table
  BY <1>5, <1>6 DEF Table
<1>8. ASSUME NEW a \in FleetAgents
      PROVE  /\ Moved(rows[a], after[a])
             /\ after[a].status # "none" =>
                  Is(e, "agent_reg", a) \/ (rows[a].status # "none" /\ ~Is(e, "agent_drg", a))
  <2>1. CASE a = b
    BY <1>4, <1>6, <2>1 DEF Is
  <2>2. CASE a # b
    <3>1. rows[a] \in Rows /\ (rows[a].status = "none" => rows[a] = NoRow) /\ after[a] = rows[a]
      BY <1>6, <2>2 DEF Table
    <3> QED
      BY <2>2, <3>1, RowStays DEF Is
  <2> QED
    BY <2>1, <2>2
<1> QED
  BY <1>7, <1>8 DEF after

\* Why an agent may be in the table after the first n events of a batch: it registered and
\* did not leave since, or was there and did not leave.
Came(batch, n, a) ==
  \E j \in 1 .. n : Is(batch[j], "agent_reg", a) /\ \A k \in 1 .. n : k > j => ~Is(batch[k], "agent_drg", a)
NeverLeft(batch, n, a) == \A k \in 1 .. n : ~Is(batch[k], "agent_drg", a)

LEMMA WrittenFacts ==
  ASSUME FleetAssumption, SyncAssumption, FleetIInv, NEW batch \in Seq(ChainEvents)
  PROVE  /\ Written(batch) \in [FleetAgents -> Rows]
         /\ \A a \in FleetAgents :
              /\ Moved(agentRow[a], Written(batch)[a])
              /\ Written(batch)[a].status # "none" =>
                   Came(batch, Len(batch), a) \/ (agentRow[a].status # "none" /\ NeverLeft(batch, Len(batch), a))
         /\ Len(batch) = 0 => Written(batch) = agentRow
<1> DEFINE n == Len(batch)
           step == [i \in 1 .. n |-> [x \in Table |-> Handled(x, batch[i])]]
           start == agentRow
<1>1. n \in Nat /\ \A i \in 1 .. n : batch[i] \in ChainEvents
  BY SeqFacts
<1>a. PICK last \in Nat : last = n
  BY <1>1
<1>2. start \in Table /\ fleetTime \in 0 .. FleetEnd
  BY DEF Table, FleetIInv, FleetTyped, RowsStand
<1>3. \A i \in 1 .. n : \A x \in Table : step[i][x] = Handled(x, batch[i])
  OBVIOUS
<1>4. \A i \in 1 .. n : \A x \in Table : step[i][x] \in Table
  BY <1>1, <1>2, <1>3, OneHandled
<1> HIDE DEF n, step, start
<1>5. PICK it : Rounds(it, start, n, step) /\ StaysIn(it, n, Table)
  <2>1. PICK X, a, m, s : X = Table /\ a = start /\ m = n /\ s = step
    OBVIOUS
  <2>2. a \in X /\ m \in Nat /\ \A i \in 1 .. m : \A x \in X : s[i][x] \in X
    BY <1>1, <1>2, <1>4, <2>1
  <2>3. \E it : Rounds(it, a, m, s) /\ StaysIn(it, m, X)
    BY <2>2, LoopExists
  <2> QED
    BY <2>1, <2>3
<1> DEFINE rows == CHOOSE w : w = [i \in 0 .. n |-> IF i = 0 THEN agentRow ELSE Handled(w[i - 1], batch[i])]
<1>6. rows = [i \in 0 .. n |-> IF i = 0 THEN agentRow ELSE Handled(rows[i - 1], batch[i])]
  <2> DEFINE same == [i \in 0 .. n |-> IF i = 0 THEN agentRow ELSE Handled(it[i - 1], batch[i])]
  <2>1. \A i \in 0 .. n : it[i] = same[i]
    <3> SUFFICES ASSUME NEW i \in 0 .. n PROVE it[i] = same[i]
      OBVIOUS
    <3>1. it[i] = IF i = 0 THEN agentRow ELSE step[i][it[i - 1]]
      BY <1>5 DEF Rounds, start
    <3>2. CASE i = 0
      BY <3>1, <3>2
    <3>3. CASE i # 0
      <4>1. i \in 1 .. n /\ i - 1 \in 0 .. n
        <5>1. last \in Nat /\ i \in 0 .. last
          BY <1>a
        <5>2. i \in 1 .. last /\ i - 1 \in 0 .. last
          BY <3>3, <5>1
        <5> QED
          BY <1>a, <5>2
      <4>2. it[i - 1] \in Table
        BY <1>5, <4>1 DEF StaysIn
      <4> QED
        BY <1>3, <3>1, <3>3, <4>1, <4>2
    <3> QED
      BY <3>2, <3>3
  <2>2. it = same
    BY <1>5, <2>1 DEF Rounds
  <2>3. \E w : w = [i \in 0 .. n |-> IF i = 0 THEN agentRow ELSE Handled(w[i - 1], batch[i])]
    BY <2>2
  <2> QED
    BY <2>3
<1>7. Written(batch) = rows[n]
  BY DEF Written, n
<1> HIDE DEF rows
<1>8. /\ rows[0] = agentRow
      /\ \A i \in 1 .. n : rows[i] = Handled(rows[i - 1], batch[i])
  <2>1. 0 \in 0 .. n /\ \A i \in 1 .. n : i \in 0 .. n /\ i # 0
    BY <1>1
  <2> QED
    BY <1>6, <2>1
<1> DEFINE Fits(i) == /\ rows[i] \in Table
                      /\ \A a \in FleetAgents :
                           /\ Moved(agentRow[a], rows[i][a])
                           /\ rows[i][a].status # "none" =>
                                Came(batch, i, a) \/ (agentRow[a].status # "none" /\ NeverLeft(batch, i, a))
           G == {i \in Nat : i <= n => Fits(i)}
<1>9. 0 \in G
  <2>1. ASSUME NEW a \in FleetAgents PROVE Moved(agentRow[a], agentRow[a]) /\ NeverLeft(batch, 0, a)
    BY RowsAre, RowStays, SMTT(30) DEF NeverLeft
  <2> QED
    BY <1>2, <1>8, <2>1 DEF start
<1>10. ASSUME NEW i \in Nat, i \in G PROVE i + 1 \in G
  <2> SUFFICES ASSUME i + 1 <= n PROVE Fits(i + 1)
    OBVIOUS
  <2> HIDE DEF Fits, G
  <2>1. i + 1 \in 1 .. n /\ (i + 1) - 1 = i /\ i <= n
    <3>1. i + 1 <= last
      BY <1>a
    <3>2. i + 1 \in 1 .. last /\ (i + 1) - 1 = i /\ i <= last
      BY <3>1
    <3> QED
      BY <1>a, <3>2
  <2>2. Fits(i)
    BY <1>10, <2>1 DEF G
  <2>3. PICK old, e, new : old = rows[i] /\ e = batch[i + 1] /\ new = rows[i + 1] /\ new = Handled(old, e)
    BY <1>8, <2>1
  <2>4. old \in Table /\ e \in ChainEvents
    BY <1>1, <2>1, <2>2, <2>3 DEF Fits
  <2>5. /\ new \in Table
        /\ \A a \in FleetAgents :
             /\ Moved(old[a], new[a])
             /\ new[a].status # "none" =>
                  Is(e, "agent_reg", a) \/ (old[a].status # "none" /\ ~Is(e, "agent_drg", a))
    BY <1>2, <2>3, <2>4, OneHandled
  <2>6. \A j \in 1 .. i + 1 : j \in 1 .. i \/ j = i + 1
    OBVIOUS
  <2>7. ASSUME NEW a \in FleetAgents PROVE Moved(agentRow[a], new[a])
    <3>1. agentRow[a] \in Rows /\ Moved(agentRow[a], old[a]) /\ Moved(old[a], new[a])
      BY <2>2, <2>3, <2>5, RowsAre DEF Fits
    <3> QED
      BY <3>1, MovesCompose
  <2>8. ASSUME NEW a \in FleetAgents, new[a].status # "none"
        PROVE  Came(batch, i + 1, a) \/ (agentRow[a].status # "none" /\ NeverLeft(batch, i + 1, a))
    <3>1. CASE Is(e, "agent_reg", a)
      <4>1. i + 1 \in 1 .. i + 1 /\ \A k \in 1 .. i + 1 : ~(k > i + 1)
        OBVIOUS
      <4> QED
        BY <2>3, <3>1, <4>1 DEF Came
    <3>2. CASE old[a].status # "none" /\ ~Is(e, "agent_drg", a)
      <4>1. Came(batch, i, a) \/ (agentRow[a].status # "none" /\ NeverLeft(batch, i, a))
        BY <2>2, <2>3, <3>2 DEF Fits
      <4>2. ASSUME Came(batch, i, a) PROVE Came(batch, i + 1, a)
        <5>1. PICK j \in 1 .. i : Is(batch[j], "agent_reg", a) /\ \A k \in 1 .. i : k > j => ~Is(batch[k], "agent_drg", a)
          BY <4>2 DEF Came
        <5>2. j \in 1 .. i + 1
          BY SMTT(30)
        <5>3. \A k \in 1 .. i + 1 : k > j => ~Is(batch[k], "agent_drg", a)
          BY <2>3, <2>6, <3>2, <5>1
        <5> QED
          BY <5>1, <5>2, <5>3 DEF Came
      <4>3. NeverLeft(batch, i, a) => NeverLeft(batch, i + 1, a)
        BY <2>3, <2>6, <3>2 DEF NeverLeft
      <4> QED
        BY <4>1, <4>2, <4>3
    <3> QED
      BY <2>5, <2>8, <3>1, <3>2
  <2> QED
    BY <2>3, <2>5, <2>7, <2>8 DEF Fits
<1> HIDE DEF G
<1>11. n \in G
  BY <1>1, <1>9, <1>10, NatSetInduction
<1>12. Fits(n)
  <2>1. last <= last /\ last \in G
    BY <1>a, <1>11
  <2> HIDE DEF Fits
  <2>2. last <= n => Fits(last)
    BY <2>1 DEF G
  <2> QED
    BY <1>a, <2>1, <2>2
<1>13. rows[n] \in [FleetAgents -> Rows]
  BY <1>12 DEF Table
<1>14. n = 0 => rows[n] = agentRow
  BY <1>8
<1> QED
  BY <1>7, <1>12, <1>13, <1>14 DEF n

-----------------------------------------------------------------------------
(* A batch is applied.                                                     *)

LEMMA KeepsApplyFleet ==
  ASSUME FleetAssumption, SyncAssumption, SyncIInv, NEW w \in Polls, ApplyEvents(w)
  PROVE  FleetIInv' /\ ProofsIInv'
<1> DEFINE p == polls[w]
<1>1. /\ p \in PollRecords /\ FleetIInv /\ ProofsIInv
  BY PollsAre DEF SyncIInv
<1>2. p.batch \in Seq(ChainEvents)
  BY <1>1 DEF PollRecords
<1>3. /\ agentRow' = Written(p.batch) /\ listing' = (IF p.batch = <<>> THEN listing ELSE NotCached) /\ Touching
      /\ UNCHANGED <<serving, lastPass, swept, alerts, fleetTime, proofVars>>
  BY DEF ApplyEvents
<1> HIDE DEF p
<1>4. /\ agentRow' \in [FleetAgents -> Rows] /\ \A a \in FleetAgents : Moved(agentRow[a], agentRow'[a])
      /\ Len(p.batch) = 0 => agentRow' = agentRow
  BY <1>1, <1>2, <1>3, WrittenFacts
<1>5. ListedAreEnlisted' /\ listing' \in [agents : SUBSET FleetAgents, until : Int]
  <2>1. CASE p.batch = <<>>
    <3>1. Len(p.batch) = 0
      BY <2>1, EmptySeq
    <3>2. agentRow' = agentRow /\ listing' = listing /\ swept \subseteq swept' /\ FleetTyped /\ ListedAreEnlisted
      BY <1>1, <1>3, <1>4, <2>1, <3>1 DEF FleetIInv
    <3> QED
      BY <3>2, ListingStays
  <2>2. CASE p.batch # <<>>
    BY <1>3, <2>2, ListingDropped
  <2> QED
    BY <2>1, <2>2
<1>6. FleetTyped /\ serving' \in BOOLEAN /\ swept' \subseteq FleetAgents /\ fleetTime' = fleetTime /\ fleetTime \in Nat
  <2>1. FleetTyped
    BY <1>1 DEF FleetIInv
  <2>2. swept \subseteq FleetAgents /\ serving \in BOOLEAN
    BY <2>1 DEF FleetTyped
  <2>3. fleetTime \in Nat
    BY <2>1 DEF FleetTyped
  <2>4. serving' = serving /\ swept' = swept /\ fleetTime' = fleetTime
    BY <1>3
  <2> QED
    BY <2>1, <2>2, <2>3, <2>4
<1>7. FleetIInv'
  BY <1>1, <1>3, <1>4, <1>5, <1>6, TableStep
<1>8. ProofsIInv'
  BY <1>1, <1>3, <1>6, ProofsKept
<1> QED
  BY <1>7, <1>8

\* What a poll brings that ends up behind the cursor is in the table.
LEMMA KeepsApplyEvents ==
  ASSUME FleetAssumption, SyncAssumption, SyncIInv, NEW w \in Polls, ApplyEvents(w)
  PROVE  SyncIInv'
<1>1. FleetIInv' /\ ProofsIInv'
  BY KeepsApplyFleet
<1>2. /\ ChainTyped /\ LedgersStand /\ HistoryStands /\ TableLags /\ FleetIInv
      /\ \A v \in Polls : PollStands(polls[v])
  BY DEF SyncIInv
<1>3. PICK p : p = polls[w] /\ p \in PollRecords /\ PollStands(p) /\ p.step = "fetched"
  BY <1>2, PollsAre DEF ApplyEvents
<1> DEFINE left == {e.agent : e \in {f \in ToSet(p.batch) : f.kind = "agent_drg"}}
<1>4. /\ agentRow' = Written(p.batch) /\ joined' = joined \ left /\ cursor' = p.tip
      /\ skipped' = (skipped \/ cursor < p.from \/ ledgerEnds[p.tip] - EventsBefore(p.from) > EventLimit)
      /\ polls' = [polls EXCEPT ![w] = NoPoll]
      /\ UNCHANGED <<chain, ledgerEnds, onChain>>
  BY <1>3 DEF ApplyEvents, Reached
<1>5. PICK f \in Nat, g \in Nat, b \in Nat, z \in Nat :
         f = p.from /\ g = p.tip /\ b = EventsBefore(p.from) /\ z = Len(p.batch)
  <2>1. p.from \in Nat /\ p.tip \in Nat /\ p.batch \in Seq(ChainEvents)
    BY <1>3 DEF PollRecords
  <2>2. p.from <= Len(ledgerEnds) + 1
    <3>1. PICK l \in Nat : l = Len(ledgerEnds)
      BY <1>2, SeqFacts DEF ChainTyped
    <3>2. PICK h \in Nat, i \in Nat : h = p.from /\ i = p.tip
      BY <2>1
    <3>3. h < i /\ i <= l
      BY <1>3, <3>1, <3>2 DEF PollStands
    <3>4. h <= l + 1
      BY <3>3
    <3> QED
      BY <3>1, <3>2, <3>4
  <2>3. EventsBefore(p.from) \in Nat
    BY <1>2, <2>1, <2>2, EventsBeforeType
  <2>4. Len(p.batch) \in Nat
    BY <2>1, SeqFacts
  <2> QED
    BY <2>1, <2>3, <2>4
<1>6. PICK t \in Nat, n \in Nat : t = Len(ledgerEnds) /\ n = Len(chain)
  BY <1>2, SeqFacts DEF ChainTyped
<1>7. 1 <= f /\ f < g /\ g <= t
  BY <1>3, <1>5, <1>6 DEF PollStands
<1>8. g \in 1 .. t /\ f \in 1 .. t /\ g \in 0 .. t /\ ~(t <= 1) /\ ~(g <= 1)
  BY <1>7
<1>9. PICK E \in Nat : E = ledgerEnds[g] /\ E <= n
  <2>1. ledgerEnds[g] \in Nat
    BY <1>2, <1>6, <1>8, SeqFacts DEF ChainTyped
  <2> QED
    BY <1>2, <1>6, <1>8, <2>1 DEF LedgersStand
<1>10. /\ b + z <= n /\ (z = EventLimit \/ b + z >= E)
       /\ \A k \in 1 .. z : p.batch[k] = chain[b + k]
  BY <1>3, <1>5, <1>6, <1>9 DEF PollStands
<1>11. b + z <= n /\ (z = EventLimit \/ b + z >= E)
  BY <1>10
<1>12. /\ p.batch \in Seq(ChainEvents)
       /\ \A a \in FleetAgents : agentRow'[a].status # "none" =>
            Came(p.batch, z, a) \/ (agentRow[a].status # "none" /\ NeverLeft(p.batch, z, a))
  <2>1. p.batch \in Seq(ChainEvents)
    BY <1>3 DEF PollRecords
  <2> QED
    BY <1>2, <1>4, <1>5, <2>1, WrittenFacts
<1>13. ASSUME NEW a \in ChainAgents, NeverLeft(p.batch, z, a) PROVE a \notin left
  <2>1. ToSet(p.batch) = {p.batch[k] : k \in 1 .. z}
    <3>1. DOMAIN p.batch = 1 .. z
      BY <1>5, <1>12, SeqFacts
    <3> QED
      BY <3>1 DEF ToSet
  <2> QED
    BY <1>13, <2>1 DEF NeverLeft, Is
<1> HIDE DEF left
<1>14. ChainTyped'
  <2>1. polls' \in [Polls -> PollRecords]
    BY <1>2, <1>4, IdleStands DEF ChainTyped
  <2>2. cursor' \in 0 .. Len(ledgerEnds')
    BY <1>4, <1>5, <1>6, <1>8
  <2>3. skipped' \in BOOLEAN /\ joined' \subseteq FleetAgents
    BY <1>2, <1>4 DEF ChainTyped
  <2> QED
    BY <1>2, <1>4, <2>1, <2>2, <2>3 DEF ChainTyped
<1>15. LedgersStand' /\ HistoryStands'
  BY <1>2, <1>4 DEF LedgersStand, HistoryStands, History, Leaves
<1>16. ASSUME NEW v \in Polls PROVE PollStands(polls[v])'
  <2>1. PollStands(polls'[v])
    <3>1. polls'[v] = IF v = w THEN NoPoll ELSE polls[v]
      BY <1>2, <1>4 DEF ChainTyped
    <3> QED
      BY <1>2, <3>1, IdleStands
  <2>2. chain' = chain /\ ledgerEnds' = ledgerEnds
    BY <1>4
  <2> HIDE DEF left
  <2> QED
    BY <2>1, <2>2 DEF PollStands, EventsBefore
<1>17. ReadTo' = E
  BY <1>4, <1>5, <1>8, <1>9 DEF ReadTo
<1>18. ASSUME ~skipped', NEW a \in ChainAgents \ joined', agentRow'[a].status # "none", onChain[a] = "absent"
       PROVE  Leaves(chain, a, E)
  <2>1. ~skipped /\ ~(cursor < f) /\ ~(E - b > EventLimit)
    BY <1>4, <1>5, <1>9, <1>18
  <2>2. EventLimit \in Nat
    BY DEF SyncAssumption
  <2>3. E <= b + z
    BY <1>11, <2>1, <2>2
  <2>4. a \in FleetAgents
    BY DEF SyncAssumption
  <2>5. CASE Came(p.batch, z, a)
    <3>1. PICK j \in 1 .. z : Is(p.batch[j], "agent_reg", a) /\ \A k \in 1 .. z : k > j => ~Is(p.batch[k], "agent_drg", a)
      BY <2>5 DEF Came
    <3>2. b + j \in 1 .. n
      BY <1>11
    <3>3. Is(chain[b + j], "agent_reg", a)
      BY <1>10, <3>1
    <3>4. Leaves(chain, a, b + j)
      BY <1>2, <1>6, <1>18, <3>2, <3>3 DEF HistoryStands, History
    <3>5. PICK k \in 1 .. n : k > b + j /\ Is(chain[k], "agent_drg", a)
      BY <1>6, <3>4 DEF Leaves
    <3>6. k > b + z
      <4>1. SUFFICES ASSUME ~(k > b + z) PROVE FALSE
        OBVIOUS
      <4>2. PICK i \in 1 .. z : b + i = k /\ i > j
        <5>1. k - b \in 1 .. z /\ b + (k - b) = k /\ k - b > j
          BY <3>5, <4>1
        <5> QED
          BY <5>1
      <4>3. p.batch[i] = chain[k]
        BY <1>10, <4>2
      <4> QED
        BY <3>1, <3>5, <4>2, <4>3
    <3>7. k > E
      BY <2>3, <3>6
    <3> QED
      BY <1>6, <3>5, <3>7 DEF Leaves
  <2>6. CASE agentRow[a].status # "none" /\ NeverLeft(p.batch, z, a)
    <3>1. a \notin joined
      BY <1>4, <1>13, <1>18, <2>6
    <3>2. Leaves(chain, a, ReadTo)
      BY <1>2, <1>18, <2>1, <2>6, <3>1 DEF TableLags
    <3>3. PICK k \in 1 .. n : k > ReadTo /\ Is(chain[k], "agent_drg", a)
      BY <1>6, <3>2 DEF Leaves
    <3>4. k > b
      <4>1. cursor \in 0 .. t
        BY <1>2, <1>6 DEF ChainTyped
      <4>2. CASE f <= 1
        BY <1>5, <4>2 DEF EventsBefore
      <4>3. CASE ~(f <= 1)
        <5>1. /\ f - 1 \in 1 .. t /\ cursor \in 1 .. t /\ f - 1 <= cursor /\ ~(cursor <= 1)
          BY <1>8, <2>1, <4>1, <4>3
        <5>2. b = ledgerEnds[f - 1]
          BY <1>5, <4>3 DEF EventsBefore
        <5>3. ReadTo = ledgerEnds[cursor] /\ ledgerEnds[f - 1] <= ledgerEnds[cursor]
          BY <1>2, <1>6, <5>1 DEF ReadTo, LedgersStand
        <5>4. ledgerEnds[cursor] \in Nat
          BY <1>2, <1>6, <5>1, SeqFacts DEF ChainTyped
        <5> QED
          BY <3>3, <5>2, <5>3, <5>4
      <4> QED
        BY <4>2, <4>3
    <3>5. k > b + z
      <4>1. SUFFICES ASSUME ~(k > b + z) PROVE FALSE
        OBVIOUS
      <4>2. PICK i \in 1 .. z : b + i = k
        <5>1. k - b \in 1 .. z /\ b + (k - b) = k
          BY <3>4, <4>1
        <5> QED
          BY <5>1
      <4>3. p.batch[i] = chain[k]
        BY <1>10, <4>2
      <4> QED
        BY <2>6, <3>3, <4>2, <4>3 DEF NeverLeft
    <3>6. k > E
      BY <2>3, <3>5
    <3> QED
      BY <1>6, <3>3, <3>6 DEF Leaves
  <2> QED
    BY <1>12, <1>18, <2>4, <2>5, <2>6
<1>19. TableLags'
  <2>1. ~(Len(ledgerEnds') <= 1)
    BY <1>4, <1>6, <1>8
  <2>2. UNCHANGED <<chain, onChain>>
    BY <1>4
  <2> QED
    BY <1>17, <1>18, <2>1, <2>2 DEF TableLags, Leaves
<1> QED
  BY <1>1, <1>14, <1>15, <1>16, <1>19 DEF SyncIInv

-----------------------------------------------------------------------------
(* The server's other work.                                                *)

\* Beside the poller only a registration brings an agent into the table.
LEMMA NewcomersRegister ==
  ASSUME FleetAssumption, FleetIInv, FleetNext, NEW a \in FleetAgents,
         agentRow[a].status = "none", agentRow'[a].status # "none"
  PROVE  RegisterAgent(a)
<1>1. agentRow \in [FleetAgents -> Rows] /\ agentRow[a] = NoRow /\ a \notin Enlisted(agentRow)
  BY RowsAre DEF FleetIInv, FleetTyped, Enlisted
<1>2. NoRow.status = "none" /\ NoRow.stale = NoClock
  BY NoRowIs
<1>3. TakenOffline(NoRow) = NoRow
  BY <1>2 DEF TakenOffline
<1>4. Judged(Quarantined(NoRow)) = NoRow
  BY <1>2 DEF Quarantined, Judged, ClockRuns
<1>5. CASE \E b \in FleetAgents : RegisterAgent(b) \/ Heartbeat(b) \/ DeregisterAgent(b) \/ SetAgentEnabled(b)
  <2> PICK b \in FleetAgents : RegisterAgent(b) \/ Heartbeat(b) \/ DeregisterAgent(b) \/ SetAgentEnabled(b)
    BY <1>5
  <2>1. a # b => agentRow'[a] = agentRow[a]
    BY <1>1 DEF RegisterAgent, Heartbeat, DeregisterAgent, SetAgentEnabled
  <2>2. a = b
    BY <2>1
  <2> QED
    BY <1>1, <2>2 DEF Heartbeat, DeregisterAgent, SetAgentEnabled
<1>6. CASE ReadListing \/ StartWalk \/ WalkPage \/ FleetTick
  BY <1>6 DEF ReadListing, StartWalk, WalkPage, FleetTick
<1>7. CASE WatchdogPass
  BY <1>1, <1>2, <1>4, <1>7 DEF WatchdogPass
<1>8. CASE CleanupTick
  BY <1>1, <1>2, <1>3, <1>8 DEF CleanupTick
<1>9. CASE ServerStarts
  BY <1>1, <1>2, <1>3, <1>9 DEF ServerStarts
<1>10. CASE DeleteOffline
  BY <1>1, <1>2, <1>10 DEF DeleteOffline
<1>11. CASE ServerEnds
  BY <1>1, <1>2, <1>11 DEF ServerEnds, AllOffline
<1> QED
  BY <1>5, <1>6, <1>7, <1>8, <1>9, <1>10, <1>11 DEF FleetNext, AgentsRouter

LEMMA KeepsFleetStep ==
  ASSUME FleetAssumption, SyncAssumption, SyncIInv, FleetStep
  PROVE  SyncIInv'
<1>1. /\ FleetNext /\ joined' = joined \cup {a \in FleetAgents : RegisterAgent(a)}
      /\ UNCHANGED <<chain, ledgerEnds, onChain, skipped>>
      /\ \/ cursor' = cursor /\ polls' = polls
         \/ cursor' = 0 /\ polls' = [w \in Polls |-> NoPoll]
  BY DEF FleetStep
<1>2. /\ FleetIInv /\ ProofsIInv /\ ChainTyped /\ LedgersStand /\ HistoryStands /\ TableLags
      /\ \A w \in Polls : PollStands(polls[w])
  BY DEF SyncIInv
<1>3. FleetIInv' /\ ProofsIInv'
  BY <1>1, <1>2, KeepsFleet
<1>4. ChainTyped'
  <2>1. polls' \in [Polls -> PollRecords]
    BY <1>1, <1>2, IdleStands DEF ChainTyped
  <2>2. Len(ledgerEnds) \in Nat
    BY <1>2, SeqFacts DEF ChainTyped
  <2>3. cursor' \in 0 .. Len(ledgerEnds)
    BY <1>1, <1>2, <2>2, SMTT(30) DEF ChainTyped
  <2> QED
    BY <1>1, <1>2, <2>1, <2>3 DEF ChainTyped
<1>5. LedgersStand' /\ HistoryStands'
  BY <1>1, <1>2 DEF LedgersStand, HistoryStands, History, Leaves
<1>6. ASSUME NEW w \in Polls PROVE PollStands(polls[w])'
  <2>1. PollStands(polls'[w])
    BY <1>1, <1>2, IdleStands
  <2> QED
    BY <1>1, <2>1 DEF PollStands, EventsBefore
<1>7. ASSUME NEW a \in ChainAgents \ joined', agentRow'[a].status # "none"
      PROVE  a \in ChainAgents \ joined /\ agentRow[a].status # "none"
  <2>1. a \in FleetAgents /\ ~RegisterAgent(a)
    BY <1>1 DEF SyncAssumption
  <2>2. a \in ChainAgents \ joined
    BY <1>1
  <2> QED
    BY <1>1, <1>2, <1>7, <2>1, <2>2, NewcomersRegister
<1>8. ASSUME NEW a \in ChainAgents, Leaves(chain, a, ReadTo) PROVE Leaves(chain, a, ReadTo')
  <2>1. CASE cursor' = cursor
    <3>1. ReadTo' = ReadTo
      BY <1>1, <2>1 DEF ReadTo
    <3> QED
      BY <1>8, <3>1
  <2>2. CASE cursor' = 0
    <3>1. ReadTo' = 0
      BY <2>2 DEF ReadTo
    <3>2. \A k \in 1 .. Len(chain) : k > 0
      BY SMTT(30)
    <3> QED
      BY <1>8, <3>1, <3>2 DEF Leaves
  <2> QED
    BY <1>1, <2>1, <2>2
<1>9. TableLags'
  <2>1. ASSUME ~skipped', NEW a \in ChainAgents \ joined', agentRow'[a].status # "none"
        PROVE  onChain'[a] # "absent" \/ Leaves(chain', a, ReadTo')
    <3>1. onChain[a] # "absent" \/ Leaves(chain, a, ReadTo)
      BY <1>1, <1>2, <1>7, <2>1 DEF TableLags
    <3> QED
      BY <1>1, <1>8, <3>1
  <2>2. ASSUME Len(ledgerEnds') <= 1, NEW a \in ChainAgents \ joined' PROVE agentRow'[a].status = "none"
    BY <1>1, <1>2, <1>7, <2>2 DEF TableLags
  <2> QED
    BY <2>1, <2>2 DEF TableLags
<1> QED
  BY <1>3, <1>4, <1>5, <1>6, <1>9 DEF SyncIInv

-----------------------------------------------------------------------------
LEMMA SyncStands ==
  ASSUME SyncIInv, UNCHANGED chainVars, FleetIInv', ProofsIInv', UNCHANGED agentRow
  PROVE  SyncIInv'
<1>1. UNCHANGED <<chain, ledgerEnds, onChain, cursor, polls, joined, skipped>>
  BY DEF chainVars
<1>2. \A w \in Polls : PollStands(polls[w])'
  BY <1>1 DEF SyncIInv, PollStands, EventsBefore
<1>3. ChainTyped' /\ LedgersStand' /\ HistoryStands' /\ TableLags'
  BY <1>1 DEF SyncIInv, ChainTyped, LedgersStand, HistoryStands, History, Leaves, TableLags, ReadTo
<1> QED
  BY <1>2, <1>3 DEF SyncIInv

LEMMA SyncStarts ==
  ASSUME FleetAssumption, SyncAssumption, SyncInit
  PROVE  SyncIInv
<1>1. /\ chain = <<>> /\ ledgerEnds = <<>> /\ onChain = [a \in ChainAgents |-> "absent"]
      /\ cursor = 0 /\ polls = [w \in Polls |-> NoPoll] /\ joined = {} /\ skipped = FALSE
      /\ FleetIInv /\ ProofsIInv
  BY FleetStarts DEF SyncInit
<1>2. /\ \A S : <<>> \in Seq(S) /\ Len(<<>>) = 0
      /\ MaxLedgers \in Nat /\ ChainAgents \subseteq FleetAgents
  BY EmptySeq DEF SyncAssumption
<1>3. Len(chain) = 0 /\ Len(ledgerEnds) = 0 /\ chain \in Seq(ChainEvents) /\ ledgerEnds \in Seq(Nat)
  BY <1>1, <1>2
<1>4. ChainTyped
  <2>1. onChain \in [ChainAgents -> ChainStates]
    BY <1>1 DEF ChainStates
  <2>2. polls \in [Polls -> PollRecords]
    BY <1>1, IdleStands
  <2>3. PICK t \in Nat : t = Len(ledgerEnds) /\ t = 0
    BY <1>3
  <2>4. t <= MaxLedgers
    BY <1>2, <2>3
  <2>5. 0 \in 0 .. t
    BY <2>3
  <2>6. cursor \in 0 .. Len(ledgerEnds) /\ Len(ledgerEnds) <= MaxLedgers
    BY <1>1, <2>3, <2>4, <2>5
  <2>7. joined \subseteq FleetAgents /\ skipped \in BOOLEAN
    BY <1>1
  <2> QED
    BY <1>3, <2>1, <2>2, <2>6, <2>7 DEF ChainTyped
<1>5. LedgersStand /\ HistoryStands
  BY <1>3 DEF LedgersStand, HistoryStands, History
<1>6. TableLags
  <2>1. \A a \in ChainAgents : onChain[a] = "absent" /\ agentRow[a].status = "none"
    BY <1>1, <1>2, NoRowIs DEF SyncInit, FleetInit
  <2> QED
    BY <2>1 DEF TableLags
<1>7. \A w \in Polls : PollStands(polls[w])
  BY <1>1, IdleStands
<1> QED
  BY <1>1, <1>4, <1>5, <1>6, <1>7 DEF SyncIInv

LEMMA SyncIsSound ==
  ASSUME FleetAssumption, SyncAssumption, SyncIInv
  PROVE  SyncInv
<1>1. FleetInv
  BY FleetIsSound DEF SyncIInv
<1>2. SyncTypeOK
  <2>1. PICK t \in Nat : t = Len(ledgerEnds)
    BY SeqFacts DEF SyncIInv, ChainTyped
  <2>2. t <= MaxLedgers /\ cursor \in 0 .. t /\ MaxLedgers \in Nat
    BY <2>1 DEF SyncIInv, ChainTyped, SyncAssumption
  <2>3. cursor \in 0 .. MaxLedgers
    BY <2>2
  <2> QED
    BY <1>1, <2>1, <2>2, <2>3 DEF SyncIInv, ChainTyped, SyncTypeOK, FleetInv, Tip, PollRecords, ChainStates
<1>3. DeregisteredLeave
  <2> SUFFICES ASSUME CaughtUp, ~skipped, NEW a \in ChainAgents, onChain[a] = "absent", a \notin joined,
                      agentRow[a].status # "none"
               PROVE  FALSE
    BY DEF DeregisteredLeave, Enlisted
  <2>1. PICK t \in Nat : t = Len(ledgerEnds)
    BY SeqFacts DEF SyncIInv, ChainTyped
  <2>2. cursor = t /\ t > 0 /\ ~(t <= 1)
    BY <2>1 DEF CaughtUp, Tip, SyncIInv, TableLags
  <2>3. ReadTo = Len(chain)
    <3>1. t \in 1 .. t
      BY <2>2
    <3>2. ledgerEnds[t] = Len(chain)
      BY <2>1, <3>1 DEF SyncIInv, LedgersStand
    <3> QED
      BY <2>2, <3>2 DEF ReadTo
  <2>4. Leaves(chain, a, Len(chain))
    BY <2>3 DEF SyncIInv, TableLags
  <2>5. Len(chain) \in Nat
    BY SeqFacts DEF SyncIInv, ChainTyped
  <2> QED
    BY <2>4, <2>5 DEF Leaves
<1> QED
  BY <1>1, <1>2, <1>3 DEF SyncInv

\* The poller may write the table beside the server, late, out of order and over a cursor that
\* others move: the fleet's invariant holds, and once it has caught up no agent that left
\* the contract is in the table, but for what the cursor has skipped (registry/sync.ts).
THEOREM SyncHolds ==
  SyncInit /\ [][SyncNext \/ (ChallengeStep /\ UNCHANGED chainVars)]_<<fleetVars, chainVars>> => []SyncInv
<1> DEFINE Step == SyncNext \/ (ChallengeStep /\ UNCHANGED chainVars)
<1>1. SyncInit => SyncIInv
  BY FleetAssumption, SyncAssumption, SyncStarts
<1>2. SyncIInv /\ [Step]_<<fleetVars, chainVars>> => SyncIInv'
  <2> SUFFICES ASSUME SyncIInv, [Step]_<<fleetVars, chainVars>> PROVE SyncIInv'
    OBVIOUS
  <2>1. CASE CloseLedger
    BY <2>1, FleetAssumption, SyncAssumption, KeepsCloseLedger
  <2>2. ASSUME NEW w \in Polls,
               \/ BeginPoll(w) \/ Bootstrap(w) \/ LearnTip(w) \/ AnswerEvents(w) \/ ApplyEvents(w) \/ PollFails(w)
        PROVE  SyncIInv'
    BY <2>2, FleetAssumption, SyncAssumption, KeepsBeginPoll, KeepsBootstrap, KeepsLearnTip, KeepsAnswerEvents,
       KeepsApplyEvents, KeepsPollFails
  <2>3. CASE FleetStep
    BY <2>3, FleetAssumption, SyncAssumption, KeepsFleetStep
  <2>4. CASE ChallengeStep /\ UNCHANGED chainVars
    <3>1. FleetIInv' /\ ProofsIInv' /\ UNCHANGED FleetVarsNow
      BY <2>4, FleetAssumption, KeepsChallenges DEF SyncIInv
    <3>2. UNCHANGED agentRow
      BY <3>1 DEF FleetVarsNow
    <3> QED
      BY <2>4, <3>1, <3>2, SyncStands
  <2>5. CASE UNCHANGED <<fleetVars, chainVars>>
    <3>1. UNCHANGED FleetVarsNow /\ UNCHANGED proofVars /\ UNCHANGED chainVars
      BY <2>5 DEF fleetVars, FleetVarsNow
    <3>2. fleetTime' \in Nat /\ fleetTime <= fleetTime' /\ FleetTyped /\ UNCHANGED agentRow
      BY <3>1 DEF FleetVarsNow, SyncIInv, FleetIInv, FleetTyped
    <3>3. FleetIInv' /\ ProofsIInv'
      BY <3>1, <3>2, FleetStands, ProofsKept DEF SyncIInv
    <3> QED
      BY <3>1, <3>2, <3>3, SyncStands
  <2> QED
    BY <2>1, <2>2, <2>3, <2>4, <2>5 DEF SyncNext
<1>3. SyncIInv => SyncInv
  BY FleetAssumption, SyncAssumption, SyncIsSound
<1> QED
  BY <1>1, <1>2, <1>3, PTL
=============================================================================
