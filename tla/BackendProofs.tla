--------------------------- MODULE BackendProofs ----------------------------
(***************************************************************************)
(* Proofs about the services of the backend, and about what operators change*)
(* while it runs, for any number of processes, jobs, requests, calls, nodes,*)
(* sessions, events, watchers, flags and addresses.                        *)
(***************************************************************************)
EXTENDS JobSubmission, TaskAdmission, CircuitBreaker, BudgetLedger,
        SessionRotation, TaskEvents, OperatorDesk, DataTheorems

-----------------------------------------------------------------------------
(***************************************************************************)
(* The operators' desk: flags.                                             *)
(***************************************************************************)
\* A record of every flag of a partial function.
FlagRecords(fn) == /\ DOMAIN fn \subseteq Flags /\ fn = [f \in DOMAIN fn |-> fn[f]]
                   /\ \A f \in DOMAIN fn : fn[f] \in Record

\* Of the last author of a flag: what it holds is what the table holds.
HeldAlike(f, table, held) ==
  /\ f \in DOMAIN table <=> f \in DOMAIN held
  /\ f \in DOMAIN table => table[f] = held[f]

FlagsKept ==
  /\ FlagRecords(flagTable) /\ overrides = [s \in Servers |-> overrides[s]]
  /\ \A s \in Servers : FlagRecords(overrides[s])
  /\ DOMAIN author \subseteq Flags
  /\ \A f \in DOMAIN author : author[f] \in Servers /\ HeldAlike(f, flagTable, overrides[author[f]])

LEMMA FlagsKeptAtFirst == DeskInit => FlagsKept
BY DEF DeskInit, FlagsKept, FlagRecords

LEMMA WithFacts ==
  ASSUME NEW fn, FlagRecords(fn), NEW f \in Flags, NEW rec \in Record
  PROVE  /\ FlagRecords(With(fn, f, rec)) /\ DOMAIN With(fn, f, rec) = DOMAIN fn \cup {f}
         /\ With(fn, f, rec)[f] = rec
         /\ \A g \in DOMAIN fn : g # f => With(fn, f, rec)[g] = fn[g]
BY DEF FlagRecords, With

LEMMA WithoutFacts ==
  ASSUME NEW fn, FlagRecords(fn), NEW f
  PROVE  /\ FlagRecords(Without(fn, f)) /\ DOMAIN Without(fn, f) = DOMAIN fn \ {f}
         /\ \A g \in DOMAIN fn : g # f => Without(fn, f)[g] = fn[g]
BY DEF FlagRecords, Without

LEMMA MergedIsRecord ==
  ASSUME FlagsKept, NEW s \in Servers, NEW f \in Flags, NEW patch \in Patches
  PROVE  Merged(s, f, patch) \in Record
<1> DEFINE was == IF f \in DOMAIN overrides[s] THEN overrides[s][f]
                  ELSE [enabled |-> TRUE, percent |-> 100, wallets |-> {}]
           percent == IF patch.percent = NoPatch THEN was.percent ELSE Max(patch.percent)
           wallets == IF patch.wallets = NoPatch THEN was.wallets ELSE UNION patch.wallets
<1>1. was \in Record
  BY DEF FlagsKept, FlagRecords, Record
<1>2. was.percent \in Percents \cup {100} /\ was.wallets \in SUBSET FlagWallets
  BY <1>1 DEF Record
<1>3. /\ patch.enabled \in BOOLEAN
      /\ patch.percent # NoPatch => \E p \in Percents : patch.percent = {p}
      /\ patch.wallets # NoPatch => \E W \in SUBSET FlagWallets : patch.wallets = {W}
  BY DEF Patches, NoPatch
<1>4. percent \in Percents \cup {100}
  <2>1. ASSUME NEW p \in Percents, patch.percent = {p} PROVE Max(patch.percent) = p
    <3>1. \A x \in {p} : x = p
      OBVIOUS
    <3>2. p \in Int
      BY DeskAssumption DEF DeskAssumption
    <3>3. p >= p
      BY <3>2
    <3> QED
      BY <2>1, <3>1, <3>3 DEF Max
  <2> QED
    BY <1>2, <1>3, <2>1
<1>5. wallets \in SUBSET FlagWallets
  BY <1>2, <1>3
<1>6. Merged(s, f, patch) = [enabled |-> patch.enabled, percent |-> percent, wallets |-> wallets]
  BY DEF Merged
<1> HIDE DEF percent, wallets
<1> QED
  BY <1>3, <1>4, <1>5, <1>6 DEF Record

\* A step that changes one flag of one server and of the table alike.
FlagMoves(s, f) ==
  /\ FlagRecords(flagTable') /\ FlagRecords(overrides'[s])
  /\ HeldAlike(f, flagTable', overrides'[s])
  /\ \A g \in Flags : g # f => /\ g \in DOMAIN flagTable' <=> g \in DOMAIN flagTable
                               /\ g \in DOMAIN flagTable => flagTable'[g] = flagTable[g]
                               /\ g \in DOMAIN overrides'[s] <=> g \in DOMAIN overrides[s]
                               /\ g \in DOMAIN overrides[s] => overrides'[s][g] = overrides[s][g]
  /\ \A r \in Servers : r # s => overrides'[r] = overrides[r]
  /\ overrides' = [r \in Servers |-> overrides'[r]]
  /\ author' = With(author, f, s)

LEMMA FlagMovesKept ==
  ASSUME FlagsKept, NEW s \in Servers, NEW f \in Flags, FlagMoves(s, f)
  PROVE  FlagsKept'
<1>1. DOMAIN author' = DOMAIN author \cup {f} /\ author'[f] = s
      /\ \A g \in DOMAIN author : g # f => author'[g] = author[g]
  BY DEF FlagMoves, With
<1>2. \A r \in Servers : FlagRecords(overrides'[r])
  BY DEF FlagMoves, FlagsKept
<1>3. ASSUME NEW g \in DOMAIN author' PROVE author'[g] \in Servers /\ HeldAlike(g, flagTable', overrides'[author'[g]])
  <2>1. CASE g = f
    BY <1>1, <2>1 DEF HeldAlike, FlagMoves
  <2>2. CASE g # f
    <3>1. g \in DOMAIN author /\ author'[g] = author[g] /\ g \in Flags
      BY <1>1, <2>2 DEF FlagsKept
    <3>2. author[g] \in Servers /\ HeldAlike(g, flagTable, overrides[author[g]])
      BY <3>1 DEF FlagsKept
    <3>3. CASE author[g] = s
      BY <2>2, <3>1, <3>2, <3>3 DEF HeldAlike, FlagMoves
    <3>4. CASE author[g] # s
      BY <2>2, <3>1, <3>2, <3>4 DEF HeldAlike, FlagMoves
    <3> QED
      BY <3>3, <3>4
  <2> QED
    BY <2>1, <2>2
<1>4. DOMAIN author' \subseteq Flags
  BY <1>1 DEF FlagsKept
<1> QED
  BY <1>2, <1>3, <1>4 DEF FlagsKept, FlagMoves

LEMMA FlagStepKept == FlagsKept /\ FlagStep => FlagsKept'
<1>1. ASSUME FlagsKept, NEW s \in Servers, NEW f \in Flags, ClearFlag(s, f) PROVE FlagsKept'
  <2>1. /\ FlagRecords(flagTable) /\ FlagRecords(overrides[s]) /\ overrides = [r \in Servers |-> overrides[r]]
    BY <1>1 DEF FlagsKept
  <2>2. /\ flagTable' = Without(flagTable, f) /\ author' = With(author, f, s)
        /\ overrides' = [overrides EXCEPT ![s] = Without(overrides[s], f)]
    BY <1>1 DEF ClearFlag
  <2>3. /\ overrides'[s] = Without(overrides[s], f) /\ overrides' = [r \in Servers |-> overrides'[r]]
        /\ \A r \in Servers : r # s => overrides'[r] = overrides[r]
    BY <2>1, <2>2
  <2>4. /\ FlagRecords(flagTable') /\ DOMAIN flagTable' = DOMAIN flagTable \ {f}
        /\ \A g \in DOMAIN flagTable : g # f => flagTable'[g] = flagTable[g]
    <3> DEFINE old == flagTable
               new == flagTable'
    <3>1. FlagRecords(old) /\ new = Without(old, f)
      BY <2>1, <2>2
    <3> HIDE DEF old, new
    <3>2. FlagRecords(new) /\ DOMAIN new = DOMAIN old \ {f} /\ \A g \in DOMAIN old : g # f => new[g] = old[g]
      BY <3>1, WithoutFacts
    <3> QED
      BY <3>2 DEF old, new
  <2>5. /\ FlagRecords(overrides'[s]) /\ DOMAIN overrides'[s] = DOMAIN overrides[s] \ {f}
        /\ \A g \in DOMAIN overrides[s] : g # f => overrides'[s][g] = overrides[s][g]
    <3> DEFINE old == overrides[s]
               new == overrides'[s]
    <3>1. FlagRecords(old) /\ new = Without(old, f)
      BY <2>1, <2>3
    <3> HIDE DEF old, new
    <3>2. FlagRecords(new) /\ DOMAIN new = DOMAIN old \ {f} /\ \A g \in DOMAIN old : g # f => new[g] = old[g]
      BY <3>1, WithoutFacts
    <3> QED
      BY <3>2 DEF old, new
  <2>6. FlagMoves(s, f)
    BY <2>2, <2>3, <2>4, <2>5 DEF FlagMoves, HeldAlike
  <2> QED
    BY <1>1, <2>6, FlagMovesKept
<1>2. ASSUME FlagsKept, NEW s \in Servers, NEW f \in Flags, NEW patch \in Patches, NEW ok \in BOOLEAN,
             PutFlag(s, f, patch, ok) PROVE FlagsKept'
  <2> DEFINE rec == Merged(s, f, patch)
  <2>1. /\ FlagRecords(flagTable) /\ FlagRecords(overrides[s]) /\ overrides = [r \in Servers |-> overrides[r]]
    BY <1>2 DEF FlagsKept
  <2>2. rec \in Record
    BY <1>2, MergedIsRecord
  <2>3. CASE ok
    <3>1. /\ flagTable' = With(flagTable, f, rec) /\ author' = With(author, f, s)
          /\ overrides' = [overrides EXCEPT ![s] = With(overrides[s], f, rec)]
      BY <1>2, <2>3 DEF PutFlag, InMemory
    <3> HIDE DEF rec
    <3>2. /\ overrides'[s] = With(overrides[s], f, rec) /\ overrides' = [r \in Servers |-> overrides'[r]]
          /\ \A r \in Servers : r # s => overrides'[r] = overrides[r]
      BY <2>1, <3>1
    <3>3. /\ FlagRecords(flagTable') /\ DOMAIN flagTable' = DOMAIN flagTable \cup {f} /\ flagTable'[f] = rec
          /\ \A g \in DOMAIN flagTable : g # f => flagTable'[g] = flagTable[g]
      <4> DEFINE old == flagTable
                 new == flagTable'
      <4>1. FlagRecords(old) /\ new = With(old, f, rec)
        BY <2>1, <3>1
      <4> HIDE DEF old, new
      <4>2. /\ FlagRecords(new) /\ DOMAIN new = DOMAIN old \cup {f} /\ new[f] = rec
            /\ \A g \in DOMAIN old : g # f => new[g] = old[g]
        BY <2>2, <4>1, WithFacts
      <4> QED
        BY <4>2 DEF old, new
    <3>4. /\ FlagRecords(overrides'[s]) /\ DOMAIN overrides'[s] = DOMAIN overrides[s] \cup {f}
          /\ overrides'[s][f] = rec
          /\ \A g \in DOMAIN overrides[s] : g # f => overrides'[s][g] = overrides[s][g]
      <4> DEFINE old == overrides[s]
                 new == overrides'[s]
      <4>1. FlagRecords(old) /\ new = With(old, f, rec)
        BY <2>1, <3>2
      <4> HIDE DEF old, new
      <4>2. /\ FlagRecords(new) /\ DOMAIN new = DOMAIN old \cup {f} /\ new[f] = rec
            /\ \A g \in DOMAIN old : g # f => new[g] = old[g]
        BY <2>2, <4>1, WithFacts
      <4> QED
        BY <4>2 DEF old, new
    <3>5. FlagMoves(s, f)
      BY <3>1, <3>2, <3>3, <3>4 DEF FlagMoves, HeldAlike
    <3> QED
      BY <1>2, <3>5, FlagMovesKept
  <2>4. CASE ~ok
    <3>1. flagTable' = flagTable /\ overrides' = overrides /\ author' = author
      BY <1>2, <2>4 DEF PutFlag, InMemory
    <3> QED
      BY <1>2, <3>1 DEF FlagsKept, FlagRecords, HeldAlike
  <2> QED
    BY <2>3, <2>4
<1>3. ASSUME FlagsKept, NEW s \in Servers, RestartServer(s) PROVE FlagsKept'
  <2>1. flagTable' = flagTable /\ author' = author /\ overrides' = [overrides EXCEPT ![s] = flagTable]
    BY <1>3 DEF RestartServer
  <2>2. /\ overrides'[s] = flagTable /\ overrides' = [r \in Servers |-> overrides'[r]]
        /\ \A r \in Servers : r # s => overrides'[r] = overrides[r]
    BY <1>3, <2>1 DEF FlagsKept
  <2>3. \A r \in Servers : FlagRecords(overrides'[r])
    BY <1>3, <2>2 DEF FlagsKept
  <2>4. ASSUME NEW f \in DOMAIN author PROVE author[f] \in Servers /\ HeldAlike(f, flagTable', overrides'[author[f]])
    <3>1. author[f] \in Servers /\ HeldAlike(f, flagTable, overrides[author[f]])
      BY <1>3, <2>4 DEF FlagsKept
    <3>2. CASE author[f] = s
      BY <2>1, <2>2, <3>1, <3>2 DEF HeldAlike
    <3>3. CASE author[f] # s
      BY <2>1, <2>2, <3>1, <3>3 DEF HeldAlike
    <3> QED
      BY <3>2, <3>3
  <2> QED
    BY <1>3, <2>1, <2>2, <2>3, <2>4 DEF FlagsKept
<1> QED
  BY <1>1, <1>2, <1>3 DEF FlagStep

LEMMA FlagsKeptShows == FlagsKept => FlagsOutliveRestarts /\ RolloutsGrow
<1> SUFFICES ASSUME FlagsKept PROVE FlagsOutliveRestarts /\ RolloutsGrow
  OBVIOUS
<1>1. FlagsOutliveRestarts
  BY DeskAssumption DEF FlagsKept, FlagsOutliveRestarts, HeldAlike, IsEnabled
<1>2. ASSUME NEW f \in DOMAIN flagTable, NEW who \in {{}} \cup {{w} : w \in FlagWallets}, NEW p \in Percents
      PROVE  /\ Evaluate(flagTable[f], f, who) /\ p >= flagTable[f].percent
                  => Evaluate([flagTable[f] EXCEPT !.percent = p], f, who)
             /\ who \cap flagTable[f].wallets # {} => Evaluate([flagTable[f] EXCEPT !.percent = p], f, who)
  <2> DEFINE rec == flagTable[f]
             up == [rec EXCEPT !.percent = p]
  <2>1. rec \in Record /\ f \in Flags
    BY DEF FlagsKept, FlagRecords
  <2>2. /\ up.percent = p /\ up.enabled = rec.enabled /\ up.wallets = rec.wallets
        /\ rec.percent \in Percents \cup {100}
    BY <2>1 DEF Record
  <2>3. p \in Int /\ rec.percent \in Int /\ 100 \in Int
    BY <2>2, DeskAssumption DEF DeskAssumption
  <2>4. \A w \in who : Bucket[f][w] \in Int
    BY <2>1, DeskAssumption DEF DeskAssumption
  <2> DEFINE q == rec.percent
  <2>5. p >= q => (q >= 100 => p >= 100) /\ \A w \in who : Bucket[f][w] < q => Bucket[f][w] < p
    <3>0. q = rec.percent
      OBVIOUS
    <3> HIDE DEF q, rec
    <3>1. q \in Int
      BY <2>3, <3>0
    <3> QED
      BY <2>3, <2>4, <3>1
  <2> HIDE DEF rec, up
  <2>6. Evaluate(rec, f, who) /\ p >= rec.percent => Evaluate(up, f, who)
    BY <2>2, <2>5 DEF Evaluate, q
  <2>7. who \cap rec.wallets # {} => Evaluate(up, f, who)
    BY <2>2 DEF Evaluate
  <2> QED
    BY <2>6, <2>7 DEF rec, up
<1>3. RolloutsGrow
  BY <1>2 DEF RolloutsGrow
<1> QED
  BY <1>1, <1>3

-----------------------------------------------------------------------------
(***************************************************************************)
(* The operators' desk: restoring.                                         *)
(***************************************************************************)
\* While the operator is asked, the file is what it was seen as, or gone.
RestoreKept ==
  /\ shelf \in [Snapshots -> Kinds]
  /\ restore # AtEase => /\ restore.file \in Snapshots
                         /\ restore.sealed => shelf[restore.file] \in {"sealed", "gone"}
                         /\ ~restore.sealed => shelf[restore.file] \in {"stub", "raw", "gone"}
  /\ target = "debris" => \E f \in Snapshots : shelf[f] \in {"stub", "gone"}

LEMMA RestoreKeptAtFirst == DeskInit => RestoreKept
BY DEF DeskInit, RestoreKept, Kinds

LEMMA RestoringStepKept == RestoreKept /\ RestoringStep => RestoreKept'
<1>1. ASSUME RestoreKept, NEW f \in Snapshots, FileGoes(f) PROVE RestoreKept'
  <2>1. /\ target' = target /\ restore' = restore /\ shelf' = [shelf EXCEPT ![f] = "gone"]
    BY <1>1 DEF FileGoes
  <2>2. shelf' \in [Snapshots -> Kinds] /\ shelf'[f] = "gone" /\ \A g \in Snapshots : g # f => shelf'[g] = shelf[g]
    BY <1>1, <2>1 DEF RestoreKept, Kinds
  <2> QED
    BY <1>1, <2>1, <2>2 DEF RestoreKept
<1>2. ASSUME RestoreKept, NEW f \in Snapshots, NEW force \in BOOLEAN, AskRestore(f, force) PROVE RestoreKept'
  <2>1. /\ target' = target /\ shelf' = shelf /\ shelf[f] # "gone" /\ (Encrypted(f) => Decrypts(f))
        /\ restore' = [file |-> f, sealed |-> Encrypted(f), force |-> force]
    BY <1>2 DEF AskRestore
  <2>2. restore'.file = f /\ restore'.sealed = Encrypted(f)
    BY <2>1
  <2>3. Encrypted(f) => shelf[f] = "sealed"
    BY <2>1 DEF Decrypts
  <2>4. ~Encrypted(f) => shelf[f] \in {"stub", "raw"}
    BY <1>2, <2>1 DEF Encrypted, RestoreKept, Kinds
  <2> QED
    BY <1>2, <2>1, <2>2, <2>3, <2>4 DEF RestoreKept
<1>3. ASSUME RestoreKept, NEW yes \in BOOLEAN, AnswerRestore(yes) PROVE RestoreKept'
  <2>1. restore # AtEase /\ restore' = AtEase /\ shelf' = shelf /\ target' = IF yes THEN Restored ELSE target
    BY <1>3 DEF AnswerRestore
  <2>2. Restored = "debris" => target = "debris" \/ shelf[restore.file] = "stub"
    BY <1>3, <2>1 DEF Restored, RestoreKept
  <2> QED
    BY <1>3, <2>1, <2>2 DEF RestoreKept
<1>4. ASSUME RestoreKept, ServerOpens PROVE RestoreKept'
  BY <1>4 DEF ServerOpens, RestoreKept
<1> QED
  BY <1>1, <1>2, <1>3, <1>4 DEF RestoringStep

LEMMA RestoreKeptShows == RestoreKept => RestoredIsWhole
BY DEF RestoreKept, RestoredIsWhole, VerifiesOK, Encrypted, Decrypts, Restored

-----------------------------------------------------------------------------
(***************************************************************************)
(* The operators' desk: parked jobs.                                       *)
(***************************************************************************)
TrailRow == [op : {"retry", "replay", "purge"}, by : {"handler", "middleware"}, n : Nat]
CountsOf(rows) == [k \in DOMAIN rows |-> rows[k].n]
CountOf(rows) == SumFunctionOnSet(CountsOf(rows), DOMAIN rows)

JobsKept ==
  /\ parked \in [DeskJobs -> NoTime .. DeskEnd] /\ deskTime \in 0 .. DeskEnd
  /\ trail \in Seq(TrailRow) /\ dequeued \in Nat /\ CountOf(trail) = dequeued

LEMMA JobsKeptAtFirst == DeskInit => JobsKept
<1> SUFFICES ASSUME DeskInit PROVE JobsKept
  OBVIOUS
<1>1. trail = <<>> /\ dequeued = 0 /\ deskTime = 0 /\ parked = [j \in DeskJobs |-> 0]
  BY DEF DeskInit
<1>2. CountOf(trail) = 0
  <2>1. DOMAIN trail = {}
    BY <1>1
  <2> QED
    BY <2>1, SumEmpty DEF CountOf
<1>3. 0 \in 0 .. DeskEnd /\ 0 \in NoTime .. DeskEnd
  BY DeskAssumption DEF DeskAssumption, NoTime
<1> QED
  BY <1>1, <1>2, <1>3 DEF JobsKept

LEMMA CountAppended ==
  ASSUME NEW rows \in Seq(TrailRow), NEW row \in TrailRow
  PROVE  /\ Append(rows, row) \in Seq(TrailRow) /\ CountOf(rows) \in Int
         /\ CountOf(Append(rows, row)) = CountOf(rows) + row.n
<1> DEFINE more == Append(rows, row)
           m == Len(rows)
<1>1. /\ m \in Nat /\ DOMAIN rows = 1 .. m /\ DOMAIN more = 1 .. m + 1 /\ more \in Seq(TrailRow)
      /\ more[m + 1] = row /\ \A k \in 1 .. m : more[k] = rows[k]
  BY DEF TrailRow
<1>2. (\A k \in 1 .. m : rows[k].n \in Int) /\ row.n \in Int
  <2>1. \A r \in TrailRow : r.n \in Int
    BY DEF TrailRow
  <2>2. \A k \in 1 .. m : rows[k] \in TrailRow
    BY SeqFacts
  <2> QED
    BY <2>1, <2>2
<1> HIDE DEF more, m
<1>3. 1 .. m = (1 .. m + 1) \ {m + 1} /\ m + 1 \in 1 .. m + 1
  BY <1>1
<1>4. /\ \A k \in 1 .. m : CountsOf(rows)[k] = rows[k].n /\ CountsOf(more)[k] = rows[k].n
      /\ CountsOf(more)[m + 1] = row.n
  BY <1>1, <1>3 DEF CountsOf
<1>5. \A k \in 1 .. m + 1 : CountsOf(more)[k] \in Int
  BY <1>1, <1>2, <1>4
<1>6. IsFiniteSet(1 .. m + 1) /\ IsFiniteSet(1 .. m)
  BY <1>1, FS_Interval
<1>7. SumFunctionOnSet(CountsOf(more), 1 .. m + 1)
        = CountsOf(more)[m + 1] + SumFunctionOnSet(CountsOf(more), (1 .. m + 1) \ {m + 1})
  <2> DEFINE g == CountsOf(more)
             S == 1 .. m + 1
             x == m + 1
  <2>1. IsFiniteSet(S) /\ x \in S /\ \A k \in S : g[k] \in Int
    BY <1>3, <1>5, <1>6
  <2> HIDE DEF g, S, x
  <2>2. SumFunctionOnSet(g, S) = g[x] + SumFunctionOnSet(g, S \ {x})
    BY <2>1, SumTake
  <2> QED
    BY <2>2 DEF g, S, x
<1>8. SumFunctionOnSet(CountsOf(more), 1 .. m) = SumFunctionOnSet(CountsOf(rows), 1 .. m)
  <2>1. \A k \in 1 .. m : CountsOf(more)[k] = CountsOf(rows)[k]
    BY <1>4
  <2> QED
    BY <1>6, <2>1, SumSame
<1>9. SumFunctionOnSet(CountsOf(rows), 1 .. m) \in Int
  BY <1>2, <1>4, <1>6, SumType
<1>10. CountOf(rows) = SumFunctionOnSet(CountsOf(rows), 1 .. m)
  BY <1>1 DEF CountOf
<1>11. CountOf(more) = SumFunctionOnSet(CountsOf(more), 1 .. m + 1)
  BY <1>1 DEF CountOf
<1>12. CountOf(more) = row.n + CountOf(rows)
  BY <1>3, <1>4, <1>7, <1>8, <1>10, <1>11
<1>13. CountOf(rows) \in Int /\ more \in Seq(TrailRow)
  BY <1>1, <1>9, <1>10
<1> QED
  BY <1>2, <1>12, <1>13 DEF more

\* The rows of an operation count what it took, and nothing for a retry.
LEMMA RowsCount ==
  ASSUME JobsKept, NEW op \in {"retry", "replay", "purge"}, NEW via, NEW n \in Nat
  PROVE  /\ Rows(op, via, n) \in Seq(TrailRow)
         /\ CountOf(Rows(op, via, n)) = dequeued + IF op = "retry" THEN 0 ELSE n
<1> DEFINE own == [op |-> op, by |-> "handler", n |-> n]
           mid == [op |-> op, by |-> "middleware", n |-> 0]
           silent == op = "retry" \/ (op = "replay" /\ n = 0 /\ via # "cli")
           handled == IF silent THEN trail ELSE Append(trail, own)
           took == IF op = "retry" THEN 0 ELSE n
<1>1. own \in TrailRow /\ mid \in TrailRow /\ own.n = n /\ mid.n = 0
  BY DEF TrailRow
<1>2. trail \in Seq(TrailRow) /\ CountOf(trail) = dequeued /\ dequeued \in Nat
  BY DEF JobsKept
<1>3. Rows(op, via, n) = IF via = "admin" THEN Append(handled, mid) ELSE handled
  BY DEF Rows
<1>4. handled \in Seq(TrailRow) /\ CountOf(handled) = dequeued + took
  <2>1. CASE silent
    BY <1>2, <2>1
  <2>2. CASE ~silent
    <3>1. Append(trail, own) \in Seq(TrailRow) /\ CountOf(Append(trail, own)) = dequeued + own.n
      BY <1>1, <1>2, CountAppended
    <3> QED
      BY <1>1, <2>2, <3>1
  <2> QED
    BY <2>1, <2>2
<1>5. took \in Nat
  OBVIOUS
<1> HIDE DEF handled, mid, took
<1>6. Append(handled, mid) \in Seq(TrailRow) /\ CountOf(Append(handled, mid)) = dequeued + took
  <2>1. Append(handled, mid) \in Seq(TrailRow) /\ CountOf(Append(handled, mid)) = (dequeued + took) + 0
    BY <1>1, <1>4, CountAppended
  <2> QED
    BY <1>2, <1>5, <2>1
<1> QED
  BY <1>3, <1>4, <1>6 DEF took

LEMMA PurgeAgedKept ==
  ASSUME JobsKept, NEW age, NEW via, PurgeAged(age, via)
  PROVE  JobsKept'
<1>1. /\ parked' = [j \in DeskJobs |-> IF j \in Aged(age) THEN NoTime ELSE parked[j]]
      /\ dequeued' = dequeued + Cardinality(Aged(age)) /\ deskTime' = deskTime
      /\ trail' = Rows("purge", via, Cardinality(Aged(age)))
  BY DEF PurgeAged, PurgedJobs
<1>2. Aged(age) \subseteq DeskJobs
  BY DEF Aged
<1>3. Cardinality(Aged(age)) \in Nat
  BY <1>2, FS_Subset, FS_CardinalityType, DeskAssumption DEF DeskAssumption
<1>4. parked' \in [DeskJobs -> NoTime .. DeskEnd]
  <2>1. NoTime \in NoTime .. DeskEnd
    BY DeskAssumption DEF DeskAssumption, NoTime
  <2> QED
    BY <1>1, <2>1 DEF JobsKept
<1>5. trail' \in Seq(TrailRow) /\ CountOf(trail') = dequeued + Cardinality(Aged(age))
  BY <1>1, <1>3, RowsCount
<1>6. dequeued' \in Nat
  BY <1>1, <1>3 DEF JobsKept
<1> QED
  BY <1>1, <1>4, <1>5, <1>6 DEF JobsKept

LEMMA ReplayKept ==
  ASSUME JobsKept, NEW j \in DeskJobs, NEW op \in {"retry", "replay"}, NEW via, Replay(j, op, via)
  PROVE  JobsKept'
<1> DEFINE n == IF parked[j] # NoTime THEN 1 ELSE 0
<1>1. /\ parked' = [parked EXCEPT ![j] = NoTime] /\ deskTime' = deskTime
      /\ dequeued' = dequeued + (IF op = "retry" THEN 0 ELSE n) /\ trail' = Rows(op, via, n)
  BY DEF Replay
<1>2. n \in Nat
  OBVIOUS
<1> HIDE DEF n
<1>3. trail' \in Seq(TrailRow) /\ CountOf(trail') = dequeued'
  BY <1>1, <1>2, RowsCount
<1>4. dequeued' \in Nat
  BY <1>1, <1>2 DEF JobsKept
<1>5. NoTime \in NoTime .. DeskEnd
  BY DeskAssumption DEF DeskAssumption, NoTime
<1> QED
  BY <1>1, <1>3, <1>4, <1>5 DEF JobsKept

LEMMA JobStepKept == JobsKept /\ JobStep => JobsKept'
<1>1. ASSUME JobsKept, NEW j \in DeskJobs, Park(j) PROVE JobsKept'
  <2>1. parked' = [parked EXCEPT ![j] = deskTime] /\ UNCHANGED <<trail, dequeued, deskTime>>
    BY <1>1 DEF Park
  <2>2. deskTime \in NoTime .. DeskEnd
    BY <1>1, DeskAssumption DEF JobsKept, NoTime, DeskAssumption
  <2> QED
    BY <1>1, <2>1, <2>2 DEF JobsKept
<1>2. ASSUME JobsKept, NEW age \in Ages, AskPurge(age) PROVE JobsKept'
  BY <1>2 DEF AskPurge, JobsKept
<1>3. ASSUME JobsKept, NEW age \in Ages, NEW via, PurgeNow(age, via) PROVE JobsKept'
  BY <1>3, PurgeAgedKept DEF PurgeNow
<1>4. ASSUME JobsKept, NEW yes \in BOOLEAN, AnswerPurge(yes) PROVE JobsKept'
  <2>1. CASE yes
    <3>1. PurgeAged(asking.age, "cli")
      BY <1>4, <2>1 DEF AnswerPurge
    <3> QED
      BY <1>4, <3>1, PurgeAgedKept
  <2>2. CASE ~yes
    BY <1>4, <2>2 DEF AnswerPurge, JobsKept
  <2> QED
    BY <2>1, <2>2
<1>5. ASSUME JobsKept, DeskTick PROVE JobsKept'
  <2>1. deskTime < DeskEnd /\ deskTime' = deskTime + 1 /\ UNCHANGED <<parked, trail, dequeued>>
    BY <1>5 DEF DeskTick, jobVars
  <2>2. deskTime' \in 0 .. DeskEnd
    <3>1. deskTime \in 0 .. DeskEnd
      BY <1>5 DEF JobsKept
    <3>2. DeskEnd \in Nat
      BY DeskAssumption DEF DeskAssumption
    <3> QED
      BY <2>1, <3>1, <3>2
  <2> QED
    BY <1>5, <2>1, <2>2 DEF JobsKept
<1>6. ASSUME JobsKept, NEW j \in DeskJobs, RetryParked(j) \/ ReplayParked(j) PROVE JobsKept'
  BY <1>6, ReplayKept DEF RetryParked, ReplayParked
<1> QED
  BY <1>1, <1>2, <1>3, <1>4, <1>5, <1>6 DEF JobStep

LEMMA JobsKeptShows == JobsKept => TrailCounts
BY DEF JobsKept, TrailCounts, CountOf, CountsOf

-----------------------------------------------------------------------------
(***************************************************************************)
(* The operators' desk: the token bucket.                                  *)
(***************************************************************************)
Full == MaxRequests * Window

\* What a span up to the last use drew, and what is left, is at most what the bucket holds
\* and what flowed in meanwhile.
SpanPaid(k) == (Len(drawn) - k + 1) * Window + bucket.level <= Full + (bucket.at - drawn[k]) * MaxRequests

BucketKept ==
  /\ bucket.level \in Nat /\ bucket.level <= Full /\ bucket.at \in Int /\ bucket.at <= deskTime /\ deskTime \in Nat
  /\ drawn \in Seq(Nat) /\ (bucket.at = NoTime => drawn = <<>>)
  /\ \A k \in 1 .. Len(drawn) : drawn[k] <= bucket.at /\ SpanPaid(k)
  /\ BucketHolds

LEMMA FullNat == Full \in Nat /\ MaxRequests \in Nat /\ Window \in Nat /\ Window >= 1 /\ MaxRequests >= 1 /\ Full >= Window
<1>1. MaxRequests \in Nat \ {0} /\ Window \in Nat \ {0}
  BY DeskAssumption DEF DeskAssumption
<1> QED
  BY <1>1 DEF Full

LEMMA BucketKeptAtFirst == DeskInit => BucketKept
<1> SUFFICES ASSUME DeskInit PROVE BucketKept
  OBVIOUS
<1>1. bucket = NoBucket /\ drawn = <<>> /\ deskTime = 0
  BY DEF DeskInit
<1>2. bucket.level = 0 /\ bucket.at = -1 /\ Len(drawn) = 0
  BY <1>1 DEF NoBucket, NoTime
<1> QED
  BY <1>1, <1>2, FullNat DEF BucketKept, BucketHolds

\* The arithmetic of a refill.
LEMMA RefillFlows ==
  ASSUME NEW M \in Nat, NEW W \in Nat, NEW at \in Int, NEW now \in Int, NEW d \in Int,
         NEW level \in Nat, NEW full \in Nat, NEW drew \in Int,
         at <= now, drew + level <= full + (at - d) * M
  PROVE  /\ drew + (level + (now - at) * M) <= full + (now - d) * M
         /\ (now - at >= W /\ full = M * W) => drew + full <= full + (now - d) * M
<1> DEFINE a == (at - d) * M
           b == (now - at) * M
<1>1. a \in Int /\ b \in Int /\ (now - d) * M = a + b
  OBVIOUS
<1>2. ASSUME now - at >= W, full = M * W PROVE b >= full
  BY <1>2
<1> HIDE DEF a, b
<1>3. drew + level <= full + a
  BY DEF a
<1>4. drew + (level + b) <= full + (a + b)
  BY <1>1, <1>3
<1>5. ASSUME b >= full PROVE drew + full <= full + (a + b)
  BY <1>1, <1>3, <1>5
<1> QED
  BY <1>1, <1>2, <1>4, <1>5 DEF b

LEMMA RefilledFacts ==
  ASSUME BucketKept
  PROVE  /\ Refilled \in Nat /\ Refilled <= Full
         /\ \A k \in 1 .. Len(drawn) :
              (Len(drawn) - k + 1) * Window + Refilled <= Full + (deskTime - drawn[k]) * MaxRequests
<1> DEFINE flow == (deskTime - bucket.at) * MaxRequests
           level == bucket.level + flow
<1>1. /\ bucket.level \in Nat /\ bucket.level <= Full /\ bucket.at \in Int
      /\ bucket.at <= deskTime /\ deskTime \in Nat
  BY DEF BucketKept
<1>2. flow \in Nat
  <2>1. deskTime - bucket.at \in Nat
    BY <1>1
  <2> QED
    BY <2>1, FullNat
<1>3. Refilled = IF bucket.at = NoTime \/ deskTime - bucket.at >= Window THEN Full
                 ELSE IF level > Full THEN Full ELSE level
  BY DEF Refilled, Full
<1>4. level \in Nat /\ level = bucket.level + flow
  BY <1>1, <1>2
<1> HIDE DEF level, flow
<1>5. Refilled \in Nat /\ Refilled <= Full /\ (Refilled = Full \/ Refilled <= level)
  BY <1>3, <1>4, FullNat
<1>6. ASSUME NEW k \in 1 .. Len(drawn)
      PROVE  (Len(drawn) - k + 1) * Window + Refilled <= Full + (deskTime - drawn[k]) * MaxRequests
  <2> DEFINE drew == (Len(drawn) - k + 1) * Window
             d == drawn[k]
             due == (deskTime - d) * MaxRequests
  <2>1. drew \in Int /\ d \in Int /\ due \in Int /\ bucket.at # NoTime
    <3>1. Len(drawn) \in Nat /\ k \in Int /\ d \in Nat
      BY SeqFacts DEF BucketKept
    <3>2. bucket.at # NoTime
      BY <3>1 DEF BucketKept
    <3> QED
      BY <1>1, <3>1, <3>2, FullNat
  <2>2. drew + bucket.level <= Full + (bucket.at - d) * MaxRequests
    BY DEF BucketKept, SpanPaid
  <2> HIDE DEF drew, d
  <2>3. /\ drew + (bucket.level + flow) <= Full + (deskTime - d) * MaxRequests
        /\ (deskTime - bucket.at >= Window /\ Full = MaxRequests * Window)
             => drew + Full <= Full + (deskTime - d) * MaxRequests
    <3> DEFINE at == bucket.at
               held == bucket.level
    <3>1. at \in Int /\ held \in Nat /\ at <= deskTime /\ drew + held <= Full + (at - d) * MaxRequests
          /\ deskTime \in Int
      BY <1>1, <2>2
    <3>2. flow = (deskTime - at) * MaxRequests
      BY DEF flow
    <3>3. Full \in Nat /\ MaxRequests \in Nat /\ Window \in Nat /\ drew \in Int /\ d \in Int
      BY <2>1, FullNat
    <3> HIDE DEF at, held
    <3>4. /\ drew + (held + (deskTime - at) * MaxRequests) <= Full + (deskTime - d) * MaxRequests
          /\ (deskTime - at >= Window /\ Full = MaxRequests * Window)
               => drew + Full <= Full + (deskTime - d) * MaxRequests
      BY <3>1, <3>3, RefillFlows
    <3> QED
      BY <3>2, <3>4 DEF at, held
  <2>4. due = (deskTime - d) * MaxRequests
    OBVIOUS
  <2> HIDE DEF due
  <2>5. drew + level <= Full + due
    BY <1>4, <2>3, <2>4
  <2>6. deskTime - bucket.at >= Window => drew + Full <= Full + due
    BY <2>3, <2>4 DEF Full
  <2>7. drew + Refilled <= Full + due
    <3>1. CASE Refilled <= level
      BY <1>4, <1>5, <2>1, <2>5, <3>1, FullNat
    <3>2. CASE Refilled = Full /\ ~(Refilled <= level)
      <4>1. deskTime - bucket.at >= Window
        BY <1>3, <1>4, <1>5, <2>1, <3>2, FullNat
      <4> QED
        BY <2>6, <3>2, <4>1
    <3> QED
      BY <1>5, <3>1, <3>2
  <2> QED
    BY <2>4, <2>7 DEF drew, d
<1> QED
  BY <1>5, <1>6

LEMMA BucketStepKept == BucketKept /\ BucketStep => BucketKept'
<1>1. ASSUME BucketKept, DeskTick PROVE BucketKept'
  <2>1. deskTime' = deskTime + 1 /\ bucket' = bucket /\ drawn' = drawn
    BY <1>1 DEF DeskTick, bucketVars
  <2>2. bucket.at \in Int /\ bucket.at <= deskTime /\ deskTime \in Nat
    BY <1>1 DEF BucketKept
  <2>3. bucket'.at <= deskTime' /\ deskTime' \in Nat
    BY <2>1, <2>2
  <2> QED
    BY <1>1, <2>1, <2>3 DEF BucketKept, SpanPaid, BucketHolds
<1>2. ASSUME BucketKept, DrawToken PROVE BucketKept'
  <2> DEFINE r == Refilled
             n == Len(drawn)
             now == deskTime
  <2>1. /\ bucket' = [level |-> IF r >= Window THEN r - Window ELSE r, at |-> deskTime]
        /\ drawn' = (IF r >= Window THEN Append(drawn, deskTime) ELSE drawn)
        /\ deskTime' = deskTime
    BY <1>2 DEF DrawToken
  <2>2. /\ r \in Nat /\ r <= Full
        /\ \A k \in 1 .. n : (n - k + 1) * Window + r <= Full + (now - drawn[k]) * MaxRequests
    BY <1>2, RefilledFacts
  <2>3. /\ now \in Nat /\ n \in Nat /\ drawn \in Seq(Nat)
        /\ \A k \in 1 .. n : drawn[k] \in Nat /\ drawn[k] <= now
    <3>1. bucket.at \in Int /\ bucket.at <= deskTime /\ deskTime \in Nat
      BY <1>2 DEF BucketKept
    <3>2. drawn \in Seq(Nat) /\ n \in Nat /\ \A k \in 1 .. n : drawn[k] \in Nat
      BY <1>2, SeqFacts DEF BucketKept
    <3>3. \A k \in 1 .. n : drawn[k] <= bucket.at
      BY <1>2 DEF BucketKept
    <3> QED
      BY <3>1, <3>2, <3>3
  <2>4. bucket'.at = now /\ bucket'.level = IF r >= Window THEN r - Window ELSE r
    BY <2>1
  <2> HIDE DEF r, now
  <2>5. bucket'.level \in Nat /\ bucket'.level <= Full
    BY <2>2, <2>4, FullNat
  <2>6. now # NoTime
    BY <2>3 DEF NoTime
  <2>7. CASE ~(r >= Window)
    <3>1. drawn' = drawn /\ bucket'.level = r /\ bucket'.at = now /\ deskTime' = now
      BY <2>1, <2>4, <2>7 DEF now
    <3>2. \A k \in 1 .. n : SpanPaid(k)'
      BY <2>2, <3>1 DEF SpanPaid
    <3>3. BucketHolds'
      BY <1>2, <3>1 DEF BucketKept, BucketHolds
    <3> QED
      BY <2>3, <2>5, <2>6, <3>1, <3>2, <3>3 DEF BucketKept
  <2>8. CASE r >= Window
    <3>1. /\ bucket'.level = r - Window /\ bucket'.at = now /\ deskTime' = now
          /\ drawn' = Append(drawn, now)
      BY <2>1, <2>4, <2>8 DEF now
    <3>2. /\ drawn' \in Seq(Nat) /\ Len(drawn') = n + 1 /\ drawn'[n + 1] = now
          /\ \A k \in 1 .. n : drawn'[k] = drawn[k]
      BY <2>3, <3>1
    <3>22. \A k \in 1 .. n + 1 : k \in 1 .. n \/ k = n + 1
      BY <2>3
    <3>3. ASSUME NEW k \in 1 .. n + 1 PROVE SpanPaid(k)' /\ drawn'[k] <= now /\ drawn'[k] \in Nat
      <4>1. CASE k = n + 1
        <5>1. ((n + 1) - k + 1) * Window + (r - Window) <= Full + (now - now) * MaxRequests
          BY <2>2, <2>3, <2>8, <4>1, FullNat
        <5> QED
          BY <2>3, <3>1, <3>2, <4>1, <5>1 DEF SpanPaid
      <4>2. CASE k \in 1 .. n
        <5> DEFINE d == drawn[k]
                   a == (n - k + 1) * Window
                   c == (now - d) * MaxRequests
        <5>1. a + r <= Full + c /\ d \in Nat
          BY <2>2, <2>3, <4>2
        <5>2. ((n + 1) - k + 1) * Window = a + Window /\ a \in Int /\ c \in Int
          <6> DEFINE b == n - k + 1
          <6>1. b \in Int /\ (n + 1) - k + 1 = b + 1 /\ now - d \in Int
            BY <2>3, <4>2, <5>1
          <6>2. a = b * Window
            OBVIOUS
          <6> HIDE DEF b
          <6>3. (b + 1) * Window = b * Window + Window /\ b * Window \in Int
            BY <6>1, FullNat
          <6>4. c \in Int
            <7> HIDE DEF d
            <7> QED
              BY <6>1, FullNat
          <6> QED
            BY <6>1, <6>2, <6>3, <6>4
        <5> HIDE DEF a, c
        <5>3. (a + Window) + (r - Window) <= Full + c
          BY <2>2, <5>1, <5>2, FullNat
        <5> QED
          BY <2>3, <3>1, <3>2, <4>2, <5>2, <5>3 DEF SpanPaid, c
      <4> QED
        BY <3>22, <4>1, <4>2
    <3>4. ASSUME NEW i \in 1 .. n + 1, NEW j \in 1 .. n + 1, i <= j
          PROVE  (j - i + 1) * Window <= MaxRequests * Window + (drawn'[j] - drawn'[i]) * MaxRequests
      <4>1. CASE j = n + 1
        <5> DEFINE a == ((n + 1) - i + 1) * Window
                   c == (now - drawn'[i]) * MaxRequests
        <5>1. a + (r - Window) <= Full + c
          BY <3>1, <3>2, <3>3 DEF SpanPaid
        <5>2. a \in Int /\ c \in Int
          BY <2>3, <3>3, FullNat
        <5>3. c = (drawn'[j] - drawn'[i]) * MaxRequests /\ a = (j - i + 1) * Window
          BY <3>2, <4>1
        <5> HIDE DEF a, c
        <5>4. a <= Full + c
          BY <2>2, <2>8, <5>1, <5>2, FullNat
        <5> QED
          BY <5>3, <5>4 DEF Full
      <4>2. CASE j \in 1 .. n
        <5>1. i \in 1 .. n
          BY <2>3, <3>4, <4>2
        <5> QED
          BY <1>2, <3>2, <3>4, <4>2, <5>1 DEF BucketKept, BucketHolds
      <4> QED
        BY <3>22, <4>1, <4>2
    <3>5. BucketHolds'
      BY <3>2, <3>4 DEF BucketHolds
    <3> QED
      BY <2>3, <2>5, <2>6, <3>1, <3>2, <3>3, <3>5 DEF BucketKept
  <2> QED
    BY <2>7, <2>8
<1> QED
  BY <1>1, <1>2 DEF BucketStep

-----------------------------------------------------------------------------
(***************************************************************************)
(* The operators' desk: failed ownership proofs.                           *)
(***************************************************************************)
FailingKept(i) ==
  /\ failed[i] \in Seq(Nat) /\ failures[i].held \subseteq DOMAIN failed[i] /\ failures[i].set \in Int
  /\ failures[i].set <= deskTime
  /\ \A n \in DOMAIN failed[i] : /\ failed[i][n] <= failures[i].set
                                 /\ failed[i][n] > deskTime - FailWindow => n \in failures[i].held

FailuresHeld ==
  /\ deskTime \in Nat /\ failures = [i \in Ips |-> failures[i]] /\ failed = [i \in Ips |-> failed[i]]
  /\ \A i \in Ips : FailingKept(i)
  /\ verdict # "wrong"

LEMMA FailuresHeldAtFirst == DeskInit => FailuresHeld
BY DEF DeskInit, FailuresHeld, FailingKept, NoTime

\* An entry that expired held nothing recent, when it outlives the window.
LEMMA ExpiredIsOld ==
  ASSUME FailuresHeld, FailWindow <= FailTtl, NEW i \in Ips
  PROVE  /\ Failures(i) \subseteq DOMAIN failed[i]
         /\ \A n \in DOMAIN failed[i] : failed[i][n] > deskTime - FailWindow => n \in Failures(i)
<1>1. FailWindow \in Nat /\ FailTtl \in Nat /\ deskTime \in Nat /\ FailingKept(i)
  BY DeskAssumption DEF DeskAssumption, FailuresHeld
<1>2. \A n \in DOMAIN failed[i] : failed[i][n] \in Nat /\ failed[i][n] <= failures[i].set
  BY <1>1, SeqFacts DEF FailingKept
<1>3. CASE deskTime - failures[i].set >= FailTtl
  <2>1. Failures(i) = {}
    BY <1>3 DEF Failures
  <2>2. ASSUME NEW n \in DOMAIN failed[i] PROVE ~(failed[i][n] > deskTime - FailWindow)
    <3> DEFINE x == failed[i][n]
               z == failures[i].set
    <3>1. x \in Nat /\ x <= z /\ z \in Int
      BY <1>1, <1>2 DEF FailingKept
    <3>2. deskTime - z >= FailTtl
      BY <1>3
    <3> HIDE DEF x, z
    <3>3. ~(x > deskTime - FailWindow)
      BY <1>1, <3>1, <3>2
    <3> QED
      BY <3>3 DEF x
  <2> QED
    BY <2>1, <2>2
<1>4. CASE ~(deskTime - failures[i].set >= FailTtl)
  BY <1>1, <1>4 DEF Failures, FailingKept
<1> QED
  BY <1>3, <1>4

\* No failure is later than the clock.
LEMMA NeverAhead ==
  ASSUME FailuresHeld, NEW i \in Ips, NEW n \in DOMAIN failed[i]
  PROVE  failed[i][n] <= deskTime
<1>1. failures[i].set \in Int /\ failures[i].set <= deskTime /\ deskTime \in Nat
  BY DEF FailuresHeld, FailingKept
<1>2. failed[i][n] \in Nat /\ failed[i][n] <= failures[i].set
  BY SeqFacts DEF FailuresHeld, FailingKept
<1> QED
  BY <1>1, <1>2

LEMMA GuardStepKept ==
  ASSUME FailWindow <= FailTtl, FailuresHeld, GuardStep
  PROVE  FailuresHeld'
<1>0. FailWindow \in Nat /\ deskTime \in Nat
  BY DeskAssumption DEF DeskAssumption, FailuresHeld
<1>1. CASE DeskTick
  <2>1. deskTime' = deskTime + 1 /\ failures' = failures /\ failed' = failed /\ verdict' = "none"
    BY <1>1 DEF DeskTick
  <2>2. ASSUME NEW i \in Ips PROVE FailingKept(i)'
    <3>1. FailingKept(i)
      BY DEF FailuresHeld
    <3>2. \A n \in DOMAIN failed[i] : failed[i][n] \in Nat
      BY <3>1, SeqFacts DEF FailingKept
    <3>3. \A n \in DOMAIN failed[i] : failed[i][n] > deskTime' - FailWindow => failed[i][n] > deskTime - FailWindow
      BY <1>0, <2>1, <3>2
    <3>4. failures[i].set <= deskTime'
      BY <1>0, <2>1, <3>1 DEF FailingKept
    <3> QED
      BY <2>1, <3>1, <3>3, <3>4 DEF FailingKept
  <2> QED
    BY <1>0, <2>1, <2>2 DEF FailuresHeld
<1>2. ASSUME NEW i \in Ips, RecordFailure(i) PROVE FailuresHeld'
  <2> DEFINE m == Len(failed[i])
             kept == Failures(i) \cup {m + 1}
  <2>1. /\ failures' = [failures EXCEPT ![i] = [held |-> kept, set |-> deskTime]]
        /\ failed' = [failed EXCEPT ![i] = Append(failed[i], deskTime)]
        /\ verdict' = "none" /\ deskTime' = deskTime
    BY <1>2 DEF RecordFailure
  <2>2. /\ failures' = [j \in Ips |-> failures'[j]] /\ failed' = [j \in Ips |-> failed'[j]]
        /\ failures'[i] = [held |-> kept, set |-> deskTime] /\ failed'[i] = Append(failed[i], deskTime)
        /\ \A j \in Ips : j # i => failures'[j] = failures[j] /\ failed'[j] = failed[j]
    BY <2>1 DEF FailuresHeld
  <2>3. FailingKept(i) /\ failed[i] \in Seq(Nat) /\ m \in Nat
    BY DEF FailuresHeld, FailingKept
  <2>4. /\ failed'[i] \in Seq(Nat) /\ DOMAIN failed'[i] = (DOMAIN failed[i]) \cup {m + 1}
        /\ failed'[i][m + 1] = deskTime
        /\ \A n \in DOMAIN failed[i] : failed'[i][n] = failed[i][n]
    <3> DEFINE old == failed[i]
    <3>1. /\ Append(old, deskTime) \in Seq(Nat) /\ DOMAIN Append(old, deskTime) = 1 .. m + 1 /\ DOMAIN old = 1 .. m
          /\ Append(old, deskTime)[m + 1] = deskTime
          /\ \A n \in 1 .. m : Append(old, deskTime)[n] = old[n]
      BY <1>0, <2>3
    <3>2. 1 .. m + 1 = (1 .. m) \cup {m + 1}
      BY <2>3
    <3> QED
      BY <2>2, <3>1, <3>2
  <2>5. failures'[i].held = kept /\ failures'[i].set = deskTime
    BY <2>2
  <2>6. \A n \in DOMAIN failed[i] : failed[i][n] <= deskTime
    BY <1>0, NeverAhead
  <2>7. FailingKept(i)'
    <3>1. /\ Failures(i) \subseteq DOMAIN failed[i]
          /\ \A n \in DOMAIN failed[i] : failed[i][n] > deskTime - FailWindow => n \in Failures(i)
      BY ExpiredIsOld
    <3>2. kept \subseteq DOMAIN failed'[i]
      BY <2>4, <3>1
    <3>3. \A n \in DOMAIN failed'[i] : failed'[i][n] <= deskTime
      BY <1>0, <2>4, <2>6
    <3>4. \A n \in DOMAIN failed'[i] : failed'[i][n] > deskTime - FailWindow => n \in kept
      BY <2>4, <3>1
    <3> QED
      BY <1>0, <2>1, <2>4, <2>5, <3>2, <3>3, <3>4 DEF FailingKept
  <2>8. ASSUME NEW j \in Ips, j # i PROVE FailingKept(j)'
    BY <2>1, <2>2, <2>8 DEF FailuresHeld, FailingKept
  <2> QED
    BY <1>0, <2>1, <2>2, <2>7, <2>8 DEF FailuresHeld
<1>3. ASSUME NEW i \in Ips, Guard(i) PROVE FailuresHeld'
  <2> DEFINE recent == Within(Failures(i), failed[i], FailWindow)
             all == Within(DOMAIN failed[i], failed[i], FailWindow)
  <2>1. /\ failures' = [failures EXCEPT ![i] = [held |-> recent, set |-> deskTime]]
        /\ failed' = failed /\ deskTime' = deskTime
        /\ verdict' = IF (Cardinality(recent) >= MaxFailures) <=> (Cardinality(all) >= MaxFailures)
                      THEN "right" ELSE "wrong"
    BY <1>3 DEF Guard
  <2>2. /\ failures' = [j \in Ips |-> failures'[j]]
        /\ failures'[i] = [held |-> recent, set |-> deskTime]
        /\ \A j \in Ips : j # i => failures'[j] = failures[j]
    BY <2>1 DEF FailuresHeld
  <2>3. recent = all
    BY ExpiredIsOld DEF Within
  <2>4. verdict' # "wrong"
    BY <2>1, <2>3
  <2>5. failures'[i].held = recent /\ failures'[i].set = deskTime
    BY <2>2
  <2>6. \A n \in DOMAIN failed[i] : failed[i][n] <= deskTime
    BY <1>0, NeverAhead
  <2>7. FailingKept(i)'
    <3>1. /\ recent \subseteq DOMAIN failed[i] /\ failed[i] \in Seq(Nat)
          /\ \A n \in DOMAIN failed[i] : failed[i][n] > deskTime - FailWindow => n \in recent
      BY <2>3 DEF FailuresHeld, FailingKept, Within
    <3> QED
      BY <1>0, <2>1, <2>5, <2>6, <3>1 DEF FailingKept
  <2>8. ASSUME NEW j \in Ips, j # i PROVE FailingKept(j)'
    BY <2>1, <2>2, <2>8 DEF FailuresHeld, FailingKept
  <2> QED
    BY <1>0, <2>1, <2>2, <2>4, <2>7, <2>8 DEF FailuresHeld
<1> QED
  BY <1>1, <1>2, <1>3 DEF GuardStep

-----------------------------------------------------------------------------
(***************************************************************************)
(* The operators' desk: the windows of addresses.                          *)
(***************************************************************************)
InOrder(i, by) == \E k \in DOMAIN by : by[k] = i

\* Of an address: the limiter knows what is recent, if it has not forgotten the address.
AddressKept(i) ==
  /\ admitted[i] \in Seq(Nat) /\ windows[i] \subseteq DOMAIN admitted[i]
  /\ Cardinality(windows[i]) <= MaxRequests
  /\ windows[i] # {} => InOrder(i, order)
  /\ \A n \in DOMAIN admitted[i] : /\ admitted[i][n] <= deskTime
                                   /\ i \notin evicted /\ admitted[i][n] > deskTime - Window => n \in windows[i]
  /\ i \notin evicted => \A t \in 0 .. DeskEnd : CountIn(admitted[i], t, t + Window - 1) <= MaxRequests

WindowsKept ==
  /\ deskTime \in Nat /\ order \in Seq(Ips) /\ Len(order) <= MaxEntries
  /\ windows = [i \in Ips |-> windows[i]] /\ admitted = [i \in Ips |-> admitted[i]]
  /\ \A i \in Ips : AddressKept(i)

LEMMA LimitNumbers ==
  /\ MaxRequests \in Nat /\ MaxRequests >= 1 /\ Window \in Nat /\ Window >= 1
  /\ MaxEntries \in Nat /\ MaxEntries >= 1
<1>1. MaxRequests \in Nat \ {0} /\ Window \in Nat \ {0} /\ MaxEntries \in Nat \ {0}
  BY DeskAssumption DEF DeskAssumption
<1> QED
  BY <1>1

LEMMA WindowsKeptAtFirst == DeskInit => WindowsKept
<1> SUFFICES ASSUME DeskInit PROVE WindowsKept
  OBVIOUS
<1>1. /\ windows = [i \in Ips |-> {}] /\ order = <<>> /\ admitted = [i \in Ips |-> <<>>] /\ deskTime = 0
  BY DEF DeskInit
<1>2. Len(order) <= MaxEntries /\ order \in Seq(Ips)
  BY <1>1, LimitNumbers
<1>3. ASSUME NEW i \in Ips PROVE AddressKept(i)
  <2>1. windows[i] = {} /\ admitted[i] = <<>> /\ admitted[i] \in Seq(Nat) /\ DOMAIN admitted[i] = {} /\ Len(admitted[i]) = 0
    BY <1>1
  <2>2. Cardinality({}) = 0
    BY FS_EmptySet
  <2>3. \A t \in 0 .. DeskEnd : CountIn(admitted[i], t, t + Window - 1) = 0
    <3>1. 1 .. 0 = {}
      OBVIOUS
    <3>2. ASSUME NEW t PROVE {k \in {} : t <= admitted[i][k] /\ admitted[i][k] <= t + Window - 1} = {}
      OBVIOUS
    <3> QED
      BY <2>1, <2>2, <3>1, <3>2 DEF CountIn
  <2> QED
    BY <2>1, <2>2, <2>3, LimitNumbers DEF AddressKept
<1> QED
  BY <1>1, <1>2, <1>3 DEF WindowsKept

\* The use of an address forgets no other, and brings in at most this one.
LEMMA UsedFacts ==
  ASSUME order \in Seq(Ips), NEW i \in Ips
  PROVE  /\ Used(i) \in Seq(Ips) /\ InOrder(i, Used(i))
         /\ \A j \in Ips : InOrder(j, order) => InOrder(j, Used(i))
         /\ InOrder(i, order) => Len(Used(i)) = Len(order)
         /\ ~InOrder(i, order) => Used(i) = Append(order, i) /\ Len(Used(i)) = Len(order) + 1
<1> DEFINE n == Len(order)
<1>1. n \in Nat /\ DOMAIN order = 1 .. n /\ \A k \in 1 .. n : order[k] \in Ips
  BY SeqFacts
<1>2. CASE ~InOrder(i, order)
  <2>1. Used(i) = Append(order, i)
    BY <1>2 DEF Used, InOrder
  <2>2. /\ Append(order, i) \in Seq(Ips) /\ Len(Append(order, i)) = n + 1
        /\ DOMAIN Append(order, i) = 1 .. n + 1
        /\ Append(order, i)[n + 1] = i /\ \A k \in 1 .. n : Append(order, i)[k] = order[k]
    OBVIOUS
  <2>3. n + 1 \in 1 .. n + 1 /\ \A k \in 1 .. n : k \in 1 .. n + 1
    BY <1>1
  <2> HIDE DEF n
  <2> QED
    BY <1>1, <1>2, <2>1, <2>2, <2>3 DEF InOrder, n
<1>3. CASE InOrder(i, order)
  <2> DEFINE p == CHOOSE k \in DOMAIN order : order[k] = i
             r == RemoveAt(order, p)
             u == Append(r, i)
  <2>1. Used(i) = u
    BY <1>3 DEF Used, InOrder
  <2>2. p \in 1 .. n /\ order[p] = i
    BY <1>1, <1>3 DEF InOrder
  <2> HIDE DEF p
  <2>3. /\ r \in Seq(Ips) /\ Len(r) = n - 1
        /\ \A j \in 1 .. n - 1 : r[j] = IF j <= p - 1 THEN order[j] ELSE order[j + 1]
    BY <2>2, SpliceElements DEF RemoveAt
  <2> HIDE DEF r
  <2>4. /\ u \in Seq(Ips) /\ Len(u) = Len(r) + 1 /\ DOMAIN u = 1 .. Len(r) + 1
        /\ u[Len(r) + 1] = i /\ \A k \in 1 .. Len(r) : u[k] = r[k]
    BY <2>3
  <2>5. Len(u) = n /\ DOMAIN u = 1 .. n /\ u[n] = i /\ \A k \in 1 .. n - 1 : u[k] = r[k]
    <3>1. Len(r) + 1 = n
      BY <1>1, <2>3
    <3> QED
      BY <2>3, <2>4, <3>1
  <2> HIDE DEF u
  <2>6. InOrder(i, u)
    BY <1>1, <2>2, <2>5 DEF InOrder
  <2>7. ASSUME NEW j \in Ips, InOrder(j, order) PROVE InOrder(j, u)
    <3>1. PICK k \in 1 .. n : order[k] = j
      BY <1>1, <2>7 DEF InOrder
    <3>2. CASE k = p
      BY <2>2, <2>6, <3>1, <3>2
    <3>3. CASE k < p
      <4>1. k \in 1 .. n - 1 /\ k <= p - 1 /\ k \in 1 .. n
        BY <1>1, <2>2, <3>3
      <4>2. u[k] = j
        BY <2>3, <2>5, <3>1, <4>1
      <4> QED
        BY <2>5, <4>1, <4>2 DEF InOrder
    <3>4. CASE k > p
      <4>1. k - 1 \in 1 .. n - 1 /\ ~(k - 1 <= p - 1) /\ (k - 1) + 1 = k /\ k - 1 \in 1 .. n
        BY <1>1, <2>2, <3>4
      <4>2. u[k - 1] = j
        BY <2>3, <2>5, <3>1, <4>1
      <4> QED
        BY <2>5, <4>1, <4>2 DEF InOrder
    <3> QED
      BY <1>1, <2>2, <3>2, <3>3, <3>4
  <2> QED
    BY <1>3, <2>1, <2>4, <2>5, <2>6, <2>7
<1> QED
  BY <1>2, <1>3

\* What is recent of an address, and no more, is in a window that ends now.
LEMMA WithinFacts ==
  ASSUME WindowsKept, NEW i \in Ips
  PROVE  LET win == Within(windows[i], admitted[i], Window) IN
         /\ win \subseteq windows[i] /\ win \subseteq DOMAIN admitted[i] /\ IsFiniteSet(win)
         /\ Cardinality(win) \in Nat /\ Cardinality(win) <= MaxRequests
         /\ i \notin evicted => \A n \in DOMAIN admitted[i] : admitted[i][n] > deskTime - Window => n \in win
<1> DEFINE win == Within(windows[i], admitted[i], Window)
<1>1. win \subseteq windows[i] /\ windows[i] \subseteq DOMAIN admitted[i] /\ admitted[i] \in Seq(Nat)
      /\ Cardinality(windows[i]) <= MaxRequests
  BY DEF Within, WindowsKept, AddressKept
<1>2. IsFiniteSet(windows[i])
  <2>1. DOMAIN admitted[i] = 1 .. Len(admitted[i]) /\ Len(admitted[i]) \in Nat
    BY <1>1, SeqFacts
  <2> DEFINE len == Len(admitted[i])
  <2>2. len \in Nat /\ windows[i] \subseteq 1 .. len
    BY <1>1, <2>1
  <2> HIDE DEF len
  <2>3. IsFiniteSet(1 .. len)
    BY <2>2, FS_Interval
  <2> QED
    BY <2>2, <2>3, FS_Subset
<1>3. IsFiniteSet(win) /\ Cardinality(win) <= Cardinality(windows[i])
  BY <1>1, <1>2, FS_Subset
<1>4. Cardinality(win) \in Nat /\ Cardinality(windows[i]) \in Nat
  BY <1>2, <1>3, FS_CardinalityType
<1>5. i \notin evicted => \A n \in DOMAIN admitted[i] : admitted[i][n] > deskTime - Window => n \in win
  BY DEF Within, WindowsKept, AddressKept
<1> HIDE DEF win
<1>6. Cardinality(win) <= MaxRequests
  BY <1>1, <1>3, <1>4, LimitNumbers
<1> QED
  BY <1>1, <1>3, <1>4, <1>5, <1>6 DEF win

LEMMA OneMoreAtMost ==
  ASSUME NEW S, IsFiniteSet(S), NEW x
  PROVE  /\ IsFiniteSet(S \cup {x}) /\ Cardinality(S \cup {x}) \in Nat
         /\ Cardinality(S \cup {x}) <= Cardinality(S) + 1
<1>1. IsFiniteSet(S \cup {x}) /\ Cardinality(S \cup {x}) = IF x \in S THEN Cardinality(S) ELSE Cardinality(S) + 1
  BY FS_AddElement
<1>2. Cardinality(S) \in Nat
  BY FS_CardinalityType
<1> QED
  BY <1>1, <1>2

\* An admission adds one to each window that it falls into, and those had room.
LEMMA AdmittedCounts ==
  ASSUME NEW times \in Seq(Nat), NEW now \in Nat, NEW win, IsFiniteSet(win), NEW max \in Nat,
         Cardinality(win) < max, NEW width \in Nat,
         \A n \in DOMAIN times : times[n] <= now /\ (times[n] > now - width => n \in win),
         NEW t \in Nat, CountIn(times, t, t + width - 1) <= max
  PROVE  CountIn(Append(times, now), t, t + width - 1) <= max
<1> DEFINE m == Len(times)
           more == Append(times, now)
           last == t + width - 1
           was == {k \in 1 .. m : t <= times[k] /\ times[k] <= last}
           is == {k \in 1 .. m + 1 : t <= more[k] /\ more[k] <= last}
<1>1. /\ m \in Nat /\ DOMAIN times = 1 .. m /\ Len(more) = m + 1 /\ more[m + 1] = now
      /\ \A k \in 1 .. m : more[k] = times[k] /\ times[k] \in Nat
  <2> HIDE DEF was, is, last
  <2>1. m \in Nat /\ DOMAIN times = 1 .. m /\ \A k \in 1 .. m : times[k] \in Nat
    BY SeqFacts
  <2>2. Len(more) = m + 1 /\ more[m + 1] = now /\ \A k \in 1 .. m : more[k] = times[k]
    OBVIOUS
  <2> QED
    BY <2>1, <2>2
<1>2. CountIn(times, t, last) = Cardinality(was) /\ CountIn(more, t, last) = Cardinality(is)
  BY <1>1 DEF CountIn
<1>3. last \in Int
  OBVIOUS
<1> HIDE DEF m, more
<1>4. \A k \in 1 .. m + 1 : k \in 1 .. m \/ k = m + 1
  BY <1>1
<1>5. CASE t <= now /\ now <= last
  <2>1. was \subseteq win
    <3>1. ASSUME NEW k \in 1 .. m, t <= times[k] PROVE times[k] > now - width
      BY <1>1, <1>3, <1>5, <3>1
    <3> QED
      BY <1>1, <3>1
  <2>2. is \subseteq was \cup {m + 1}
    <3> SUFFICES ASSUME NEW k \in is, k # m + 1 PROVE k \in was
      OBVIOUS
    <3>1. k \in 1 .. m /\ more[k] = times[k]
      BY <1>1, <1>4
    <3> QED
      BY <3>1
  <2>3. IsFiniteSet(was) /\ Cardinality(was) <= Cardinality(win)
    BY <2>1, FS_Subset
  <2>4. IsFiniteSet(was \cup {m + 1}) /\ Cardinality(was \cup {m + 1}) <= Cardinality(was) + 1
    BY <2>3, OneMoreAtMost
  <2>5. IsFiniteSet(is) /\ Cardinality(is) <= Cardinality(was \cup {m + 1})
    BY <2>2, <2>4, FS_Subset
  <2>6. {Cardinality(is), Cardinality(was), Cardinality(win), Cardinality(was \cup {m + 1})} \subseteq Nat
    BY <2>3, <2>4, <2>5, FS_CardinalityType
  <2>7. Cardinality(is) <= max
    <3> HIDE DEF is, was
    <3> QED
      BY <2>3, <2>4, <2>5, <2>6
  <2> QED
    BY <1>2, <2>7 DEF more
<1>6. CASE ~(t <= now /\ now <= last)
  <2>1. is \subseteq was
    <3> SUFFICES ASSUME NEW k \in is PROVE k \in was
      OBVIOUS
    <3>1. k # m + 1
      BY <1>1, <1>6
    <3>2. k \in 1 .. m /\ more[k] = times[k]
      BY <1>1, <1>4, <3>1
    <3> QED
      BY <3>2
  <2>2. was \subseteq is
    <3> SUFFICES ASSUME NEW k \in was PROVE k \in is
      OBVIOUS
    <3>1. k \in 1 .. m + 1 /\ more[k] = times[k]
      BY <1>1
    <3> QED
      BY <3>1
  <2>3. is = was
    BY <2>1, <2>2
  <2> HIDE DEF is, was
  <2> QED
    BY <1>2, <2>3 DEF more
<1> QED
  BY <1>5, <1>6

\* Another address is as it was, or was forgotten.
LEMMA OthersKept ==
  ASSUME WindowsKept, NEW j \in Ips, deskTime' = deskTime, admitted'[j] = admitted[j],
         windows'[j] = windows[j] \/ (windows'[j] = {} /\ j \in evicted'),
         evicted \subseteq evicted', InOrder(j, order) /\ windows'[j] # {} => InOrder(j, order')
  PROVE  AddressKept(j)'
<1>1. AddressKept(j)
  BY DEF WindowsKept
<1>2. CASE windows'[j] = windows[j]
  BY <1>1, <1>2 DEF AddressKept
<1>3. CASE windows'[j] = {} /\ j \in evicted'
  <2>1. Cardinality({}) = 0
    BY FS_EmptySet
  <2> QED
    BY <1>1, <1>3, <2>1, LimitNumbers DEF AddressKept
<1> QED
  BY <1>2, <1>3

LEMMA TooManyKept ==
  ASSUME WindowsKept, NEW i \in Ips, TooMany(i)
  PROVE  WindowsKept'
<1> DEFINE win == Within(windows[i], admitted[i], Window)
<1>1. /\ Cardinality(win) >= MaxRequests /\ order' = Used(i) /\ windows' = [windows EXCEPT ![i] = win]
      /\ UNCHANGED <<admitted, evicted, deskTime>>
  BY DEF TooMany
<1>2. /\ win \subseteq windows[i] /\ win \subseteq DOMAIN admitted[i]
      /\ Cardinality(win) \in Nat /\ Cardinality(win) <= MaxRequests
      /\ i \notin evicted => \A n \in DOMAIN admitted[i] : admitted[i][n] > deskTime - Window => n \in win
  BY WithinFacts
<1> HIDE DEF win
<1>3. windows[i] # {}
  <2>1. win # {}
    <3> DEFINE c == Cardinality(win)
    <3>1. c \in Nat /\ c >= MaxRequests
      BY <1>1, <1>2
    <3> HIDE DEF c
    <3>2. c # 0
      BY <3>1, LimitNumbers
    <3>3. Cardinality({}) = 0
      BY FS_EmptySet
    <3> QED
      BY <3>2, <3>3 DEF c
  <2> QED
    BY <1>2, <2>1
<1>4. AddressKept(i) /\ InOrder(i, order) /\ order \in Seq(Ips)
  BY <1>3 DEF WindowsKept, AddressKept
<1>5. /\ order' \in Seq(Ips) /\ InOrder(i, order') /\ Len(order') = Len(order)
      /\ \A j \in Ips : InOrder(j, order) => InOrder(j, order')
  BY <1>1, <1>4, UsedFacts
<1>6. /\ windows' = [j \in Ips |-> windows'[j]] /\ windows'[i] = win
      /\ \A j \in Ips : j # i => windows'[j] = windows[j]
  BY <1>1 DEF WindowsKept
<1>7. AddressKept(i)'
  BY <1>1, <1>2, <1>4, <1>5, <1>6 DEF AddressKept
<1>8. ASSUME NEW j \in Ips, j # i PROVE AddressKept(j)'
  BY <1>1, <1>5, <1>6, <1>8, OthersKept
<1>9. \A j \in Ips : AddressKept(j)'
  BY <1>7, <1>8
<1> QED
  BY <1>1, <1>5, <1>6, <1>9 DEF WindowsKept

LEMMA AdmitKept ==
  ASSUME WindowsKept, NEW i \in Ips, Admit(i)
  PROVE  WindowsKept'
<1> DEFINE win == Within(windows[i], admitted[i], Window)
           used == Used(i)
           gone == IF Len(used) > MaxEntries THEN Head(used) ELSE i
           m == Len(admitted[i])
<1>1. /\ Cardinality(win) < MaxRequests
      /\ order' = IF gone # i THEN Tail(used) ELSE used
      /\ windows' = [windows EXCEPT ![gone] = {}, ![i] = win \cup {m + 1}]
      /\ evicted' = IF gone # i THEN evicted \cup {gone} ELSE evicted
      /\ admitted' = [admitted EXCEPT ![i] = Append(admitted[i], deskTime)] /\ deskTime' = deskTime
  BY DEF Admit
<1>2. /\ win \subseteq DOMAIN admitted[i] /\ IsFiniteSet(win) /\ Cardinality(win) \in Nat
      /\ i \notin evicted => \A n \in DOMAIN admitted[i] : admitted[i][n] > deskTime - Window => n \in win
  BY WithinFacts
<1>3. /\ AddressKept(i) /\ order \in Seq(Ips) /\ Len(order) \in Nat /\ Len(order) <= MaxEntries /\ deskTime \in Nat
      /\ admitted[i] \in Seq(Nat) /\ \A n \in DOMAIN admitted[i] : admitted[i][n] <= deskTime
  BY SeqFacts DEF WindowsKept, AddressKept
<1>4. /\ used \in Seq(Ips) /\ InOrder(i, used) /\ \A j \in Ips : InOrder(j, order) => InOrder(j, used)
      /\ InOrder(i, order) => Len(used) = Len(order)
      /\ ~InOrder(i, order) => used = Append(order, i) /\ Len(used) = Len(order) + 1
  BY <1>3, UsedFacts
<1> HIDE DEF win, used
\* Who is forgotten, if the table is full, is the least recent, and not who is admitted.
<1>5. /\ gone \in Ips /\ order' \in Seq(Ips) /\ Len(order') <= MaxEntries
      /\ \A j \in Ips : InOrder(j, used) /\ j # gone => InOrder(j, order')
      /\ InOrder(i, order')
  <2>1. CASE Len(used) <= MaxEntries
    <3>1. gone = i
      BY <1>3, <1>4, <2>1, LimitNumbers
    <3> QED
      BY <1>1, <1>4, <2>1, <3>1
  <2>2. CASE ~(Len(used) <= MaxEntries)
    <3>1. ~InOrder(i, order) /\ used = Append(order, i) /\ Len(used) = Len(order) + 1 /\ Len(order) = MaxEntries
      BY <1>3, <1>4, <2>2, LimitNumbers
    <3>2. Len(used) \in Nat /\ Len(used) > MaxEntries
      BY <2>2, <3>1, LimitNumbers
    <3>3. gone = Head(used) /\ used # <<>> /\ Head(used) = used[1]
      BY <1>4, <3>2, LimitNumbers
    <3>4. used[1] = order[1] /\ 1 \in DOMAIN order
      BY <1>3, <3>1, LimitNumbers
    <3>5. gone # i /\ gone \in Ips
      <4>1. order[1] # i
        BY <3>1, <3>4 DEF InOrder
      <4>2. order[1] \in Ips
        BY <1>3, <3>4, SeqFacts
      <4> QED
        BY <3>3, <3>4, <4>1, <4>2
    <3>6. /\ Tail(used) \in Seq(Ips) /\ Len(Tail(used)) = Len(used) - 1
          /\ \A k \in 1 .. Len(Tail(used)) : Tail(used)[k] = used[k + 1]
      BY <1>4, <3>3, HeadTailProperties
    <3>7. ASSUME NEW j \in Ips, InOrder(j, used), j # gone PROVE InOrder(j, Tail(used))
      <4>1. DOMAIN used = 1 .. Len(used) /\ DOMAIN Tail(used) = 1 .. Len(Tail(used))
        BY <1>4, <3>6, SeqFacts
      <4>2. PICK k \in 1 .. Len(used) : used[k] = j
        BY <3>7, <4>1 DEF InOrder
      <4>3. k # 1
        BY <3>3, <3>7, <4>2
      <4>4. k - 1 \in 1 .. Len(Tail(used)) /\ (k - 1) + 1 = k
        <5> DEFINE a == Len(used)
                   b == Len(Tail(used))
        <5>1. a \in Nat /\ b = a - 1 /\ k \in 1 .. a
          BY <3>2, <3>6, <4>2
        <5> HIDE DEF a, b
        <5>2. k - 1 \in 1 .. b /\ (k - 1) + 1 = k
          BY <4>3, <5>1
        <5> QED
          BY <5>2 DEF b
      <4>5. Tail(used)[k - 1] = j
        BY <3>6, <4>2, <4>4
      <4> QED
        BY <4>1, <4>4, <4>5 DEF InOrder
    <3>8. order' = Tail(used)
      BY <1>1, <3>5
    <3>9. Len(Tail(used)) <= MaxEntries
      BY <3>1, <3>6, LimitNumbers
    <3> HIDE DEF gone
    <3> QED
      BY <1>4, <3>5, <3>6, <3>7, <3>8, <3>9
  <2> QED
    BY <2>1, <2>2
<1> HIDE DEF gone
<1>6. /\ windows' = [j \in Ips |-> windows'[j]] /\ admitted' = [j \in Ips |-> admitted'[j]]
      /\ windows'[i] = win \cup {m + 1} /\ admitted'[i] = Append(admitted[i], deskTime)
  BY <1>1 DEF WindowsKept
<1>7. \A j \in Ips : j # i => /\ admitted'[j] = admitted[j]
                              /\ windows'[j] = IF j = gone THEN {} ELSE windows[j]
  BY <1>1 DEF WindowsKept
<1>8. evicted \subseteq evicted' /\ \A j \in Ips : j # i /\ j = gone => j \in evicted'
  BY <1>1
<1>9. ASSUME NEW j \in Ips, j # i PROVE AddressKept(j)'
  BY <1>1, <1>4, <1>5, <1>7, <1>8, <1>9, OthersKept
<1>10. AddressKept(i)'
  <2>1. /\ admitted'[i] \in Seq(Nat) /\ DOMAIN admitted'[i] = (DOMAIN admitted[i]) \cup {m + 1}
        /\ admitted'[i][m + 1] = deskTime
        /\ \A n \in DOMAIN admitted[i] : admitted'[i][n] = admitted[i][n]
    <3> DEFINE old == admitted[i]
    <3>1. /\ Append(old, deskTime) \in Seq(Nat) /\ DOMAIN Append(old, deskTime) = 1 .. m + 1 /\ DOMAIN old = 1 .. m
          /\ Append(old, deskTime)[m + 1] = deskTime /\ m \in Nat
          /\ \A n \in 1 .. m : Append(old, deskTime)[n] = old[n]
      BY <1>3
    <3>2. 1 .. m + 1 = (1 .. m) \cup {m + 1}
      BY <3>1
    <3> QED
      BY <1>6, <3>1, <3>2
  <2>2. Cardinality(win \cup {m + 1}) <= MaxRequests
    <3>1. Cardinality(win \cup {m + 1}) <= Cardinality(win) + 1 /\ Cardinality(win \cup {m + 1}) \in Nat
      BY <1>2, OneMoreAtMost
    <3> DEFINE c == Cardinality(win)
               d == Cardinality(win \cup {m + 1})
    <3>2. c \in Nat /\ d \in Nat /\ d <= c + 1 /\ c < MaxRequests
      BY <1>1, <1>2, <3>1
    <3> HIDE DEF c, d
    <3>3. d <= MaxRequests
      BY <3>2, LimitNumbers
    <3> QED
      BY <3>3 DEF d
  <2>3. ASSUME i \notin evicted', NEW t \in 0 .. DeskEnd
        PROVE  CountIn(admitted'[i], t, t + Window - 1) <= MaxRequests
    <3>1. i \notin evicted /\ t \in Nat
      BY <1>8, <2>3, DeskAssumption DEF DeskAssumption
    <3>2. CountIn(admitted[i], t, t + Window - 1) <= MaxRequests
      BY <1>3, <2>3, <3>1 DEF AddressKept
    <3>3. \A n \in DOMAIN admitted[i] : admitted[i][n] <= deskTime /\ (admitted[i][n] > deskTime - Window => n \in win)
      BY <1>2, <1>3, <3>1
    <3> QED
      BY <1>1, <1>2, <1>3, <1>6, <3>1, <3>2, <3>3, LimitNumbers, AdmittedCounts
  <2>4. \A n \in DOMAIN admitted'[i] :
           /\ admitted'[i][n] <= deskTime
           /\ i \notin evicted' /\ admitted'[i][n] > deskTime - Window => n \in windows'[i]
    BY <1>2, <1>3, <1>6, <1>8, <2>1
  <2>5. windows'[i] \subseteq DOMAIN admitted'[i]
    BY <1>2, <1>6, <2>1
  <2> QED
    BY <1>1, <1>5, <1>6, <2>1, <2>2, <2>3, <2>4, <2>5 DEF AddressKept
<1>11. \A j \in Ips : AddressKept(j)'
  BY <1>9, <1>10
<1> QED
  BY <1>1, <1>3, <1>5, <1>6, <1>11 DEF WindowsKept

LEMMA LimitStepKept == WindowsKept /\ LimitStep => WindowsKept'
<1>1. ASSUME WindowsKept, DeskTick PROVE WindowsKept'
  <2>1. deskTime' = deskTime + 1 /\ UNCHANGED <<windows, order, admitted, evicted>>
    BY <1>1 DEF DeskTick, windowVars
  <2>2. deskTime \in Nat /\ deskTime' \in Nat
    BY <1>1, <2>1 DEF WindowsKept
  <2>3. ASSUME NEW i \in Ips PROVE AddressKept(i)'
    <3>1. AddressKept(i)
      BY <1>1 DEF WindowsKept
    <3>2. \A n \in DOMAIN admitted[i] : admitted[i][n] \in Nat
      BY <3>1, SeqFacts DEF AddressKept
    <3>3. \A n \in DOMAIN admitted[i] :
            /\ admitted[i][n] <= deskTime => admitted[i][n] <= deskTime'
            /\ admitted[i][n] > deskTime' - Window => admitted[i][n] > deskTime - Window
      BY <2>1, <2>2, <3>2, LimitNumbers
    <3> QED
      BY <2>1, <3>1, <3>3 DEF AddressKept
  <2> QED
    BY <1>1, <2>1, <2>2, <2>3 DEF WindowsKept
<1> QED
  BY <1>1, AdmitKept, TooManyKept DEF LimitStep

-----------------------------------------------------------------------------
(***************************************************************************)
(* The operators' desk: all of it.                                         *)
(***************************************************************************)
DeskIInv == FlagsKept /\ WindowsKept /\ BucketKept /\ FailuresHeld /\ JobsKept /\ RestoreKept

LEMMA DeskIInvShows == DeskIInv => DeskInv
<1> SUFFICES ASSUME DeskIInv PROVE DeskInv
  OBVIOUS
<1>1. FlagsOutliveRestarts /\ RolloutsGrow /\ TrailCounts /\ RestoredIsWhole
  BY FlagsKeptShows, JobsKeptShows, RestoreKeptShows DEF DeskIInv
<1>2. WindowsHold /\ BucketHolds /\ GuardIsRight
  BY DEF DeskIInv, WindowsKept, AddressKept, WindowsHold, BucketKept, FailuresHeld, GuardIsRight
<1>3. DeskTypeOK
  <2>1. /\ DOMAIN flagTable \subseteq Flags /\ \A f \in DOMAIN flagTable : flagTable[f] \in Record
        /\ \A s \in Servers : DOMAIN overrides[s] \subseteq Flags
    BY DEF DeskIInv, FlagsKept, FlagRecords
  <2>2. (\A i \in Ips : Cardinality(windows[i]) <= MaxRequests) /\ Len(order) <= MaxEntries
    BY DEF DeskIInv, WindowsKept, AddressKept
  <2>3. bucket.level \in 0 .. MaxRequests * Window
    <3>1. bucket.level \in Nat /\ bucket.level <= Full
      BY DEF DeskIInv, BucketKept
    <3>2. bucket.level \in 0 .. Full
      BY <3>1, FullNat
    <3> QED
      BY <3>2 DEF Full
  <2>4. parked \in [DeskJobs -> NoTime .. DeskEnd] /\ deskTime \in 0 .. DeskEnd /\ shelf \in [Snapshots -> Kinds]
    BY DEF DeskIInv, JobsKept, RestoreKept
  <2> QED
    BY <2>1, <2>2, <2>3, <2>4 DEF DeskTypeOK
<1> QED
  BY <1>1, <1>2, <1>3 DEF DeskInv

\* What a step leaves alone is kept.
LEMMA FlagsStay == FlagsKept /\ UNCHANGED flagVars => FlagsKept'
BY DEF FlagsKept, FlagRecords, HeldAlike, flagVars
LEMMA WindowsStay == WindowsKept /\ UNCHANGED <<windowVars, deskTime>> => WindowsKept'
BY DEF WindowsKept, AddressKept, windowVars
LEMMA BucketStays == BucketKept /\ UNCHANGED <<bucketVars, deskTime>> => BucketKept'
BY DEF BucketKept, SpanPaid, BucketHolds, bucketVars
LEMMA FailuresStay == FailuresHeld /\ UNCHANGED <<failVars, deskTime>> => FailuresHeld'
BY DEF FailuresHeld, FailingKept, failVars
LEMMA JobsStay == JobsKept /\ UNCHANGED <<jobVars, deskTime>> => JobsKept'
BY DEF JobsKept, jobVars
LEMMA RestoreStays == RestoreKept /\ UNCHANGED restoreVars => RestoreKept'
BY DEF RestoreKept, restoreVars

\* A tick moves the clock alone, and clears the guard's last answer.
LEMMA TickKept == FailWindow <= FailTtl /\ DeskIInv /\ DeskTick => DeskIInv'
<1> SUFFICES ASSUME FailWindow <= FailTtl, DeskIInv, DeskTick PROVE DeskIInv'
  OBVIOUS
<1>1. LimitStep /\ BucketStep /\ GuardStep /\ JobStep /\ UNCHANGED flagVars /\ UNCHANGED restoreVars
  BY DEF LimitStep, BucketStep, GuardStep, JobStep, DeskTick
<1> QED
  BY <1>1, LimitStepKept, BucketStepKept, GuardStepKept, JobStepKept, FlagsStay, RestoreStays DEF DeskIInv

\* Whatever requests, restarts, failed writes, purges, replays and retention come between:
\* an answer to an operator outlives its server, no limit is passed while the limiter knows
\* the address, the bucket pays for what it admits, the guard answers as the failures do,
\* the trail counts what left the queue, and a restore is whole.  The table of failures must
\* not forget before the window ends (rateLimit.ts: failureWindows, LRU with a ttl).
THEOREM DeskHolds ==
  ASSUME FailWindow <= FailTtl
  PROVE  DeskSpec => []DeskInv
<1>1. DeskInit => DeskIInv
  BY FlagsKeptAtFirst, WindowsKeptAtFirst, BucketKeptAtFirst, FailuresHeldAtFirst, JobsKeptAtFirst, RestoreKeptAtFirst
  DEF DeskIInv
<1>2. DeskIInv /\ [DeskNext]_deskVars => DeskIInv'
  <2> SUFFICES ASSUME DeskIInv, [DeskNext]_deskVars PROVE DeskIInv'
    OBVIOUS
  <2>1. CASE FlagStep
    <3>1. UNCHANGED <<windowVars, bucketVars, failVars, jobVars, restoreVars, deskTime>>
      BY <2>1 DEF FlagStep, ClearFlag, PutFlag, RestartServer
    <3> QED
      BY <2>1, <3>1, FlagStepKept, WindowsStay, BucketStays, FailuresStay, JobsStay, RestoreStays DEF DeskIInv
  <2>2. CASE SwitchStep \/ UNCHANGED deskVars
    <3>1. UNCHANGED <<flagVars, windowVars, bucketVars, failVars, jobVars, restoreVars, deskTime>>
      BY <2>2 DEF SwitchStep, SetReadOnly, Mutate, deskVars
    <3> QED
      BY <3>1, FlagsStay, WindowsStay, BucketStays, FailuresStay, JobsStay, RestoreStays DEF DeskIInv
  <2>3. CASE DeskTick
    BY <2>3, TickKept
  <2>4. CASE LimitStep /\ ~DeskTick
    <3>1. UNCHANGED <<flagVars, bucketVars, failVars, jobVars, restoreVars, deskTime>>
      BY <2>4 DEF LimitStep, Admit, TooMany
    <3> QED
      BY <2>4, <3>1, FlagsStay, LimitStepKept, BucketStays, FailuresStay, JobsStay, RestoreStays DEF DeskIInv
  <2>5. CASE BucketStep /\ ~DeskTick
    <3>1. UNCHANGED <<flagVars, windowVars, failVars, jobVars, restoreVars, deskTime>>
      BY <2>5 DEF BucketStep, DrawToken
    <3> QED
      BY <2>5, <3>1, FlagsStay, WindowsStay, BucketStepKept, FailuresStay, JobsStay, RestoreStays DEF DeskIInv
  <2>6. CASE GuardStep /\ ~DeskTick
    <3>1. UNCHANGED <<flagVars, windowVars, bucketVars, jobVars, restoreVars, deskTime>>
      BY <2>6 DEF GuardStep, RecordFailure, Guard
    <3> QED
      BY <2>6, <3>1, FlagsStay, WindowsStay, BucketStays, GuardStepKept, JobsStay, RestoreStays DEF DeskIInv
  <2>7. CASE JobStep /\ ~DeskTick
    <3>1. UNCHANGED <<flagVars, windowVars, bucketVars, failVars, restoreVars, deskTime>>
      BY <2>7 DEF JobStep, Park, RetryParked, ReplayParked, Replay, AskPurge, PurgeNow, PurgeAged, AnswerPurge
    <3> QED
      BY <2>7, <3>1, FlagsStay, WindowsStay, BucketStays, FailuresStay, JobStepKept, RestoreStays DEF DeskIInv
  <2>8. CASE RestoringStep
    <3>1. UNCHANGED <<flagVars, windowVars, bucketVars, failVars, jobVars, deskTime>>
      BY <2>8 DEF RestoringStep, FileGoes, AskRestore, AnswerRestore, ServerOpens
    <3> QED
      BY <2>8, <3>1, FlagsStay, WindowsStay, BucketStays, FailuresStay, JobsStay, RestoringStepKept DEF DeskIInv
  <2> QED
    BY <2>1, <2>2, <2>3, <2>4, <2>5, <2>6, <2>7, <2>8 DEF DeskNext
<1> QED
  BY <1>1, <1>2, DeskIInvShows, PTL DEF DeskSpec

-----------------------------------------------------------------------------
\* A row of the job table; how far its attempts and times go does not matter here.
JobRow == [status : Statuses, priority : Nat, createdAt : Nat, attempts : Nat, nextRunIn : Nat,
           leaseOwner : Workers \cup {NoOwner}, leaseLeft : Int]

OpenStatuses == {"pending", "active", "failed"}

\* The callers that stand between the check of task t and its insert.
Inserting(t) == {c \in Callers : passed[c] = t}

SubmissionIInv ==
  /\ jobs \in [Jobs -> JobRow]
  /\ passed \in [Callers -> Tasks \cup {NoTask}]
  /\ \A t \in Tasks : /\ IsFiniteSet(OpenJobs(t))
                      /\ Cardinality(OpenJobs(t)) + Cardinality(Inserting(t)) <= Cardinality(Callers)

LEMMA OpenJobsAre ==
  \A t, j : j \in OpenJobs(t) <=> j \in Jobs /\ TaskOf[j] = t /\ jobs[j].status \in OpenStatuses
BY DEF OpenJobs, JobsOf, HasPendingJob, OpenStatuses

LEMMA OpenJobsWillBe ==
  \A t, j : j \in OpenJobs(t)' <=> j \in Jobs /\ TaskOf[j] = t /\ jobs'[j].status \in OpenStatuses
BY DEF OpenJobs, JobsOf, HasPendingJob, OpenStatuses

\* One row changes for another.
LEMMA OneJobChanges ==
  ASSUME jobs \in [Jobs -> JobRow], NEW i \in Jobs, NEW row \in JobRow, jobs' = [jobs EXCEPT ![i] = row]
  PROVE  /\ jobs' \in [Jobs -> JobRow] /\ jobs'[i] = row
         /\ \A j \in Jobs \ {i} : jobs'[j] = jobs[j]
OBVIOUS

\* No new job of a task is open and no caller has passed a check that had not: what the
\* bound is about has only shrunk.
LEMMA FewerOpen ==
  ASSUME SubmissionIInv, jobs' \in [Jobs -> JobRow], passed' = passed,
         \A j \in Jobs : jobs'[j].status \in OpenStatuses => jobs[j].status \in OpenStatuses
  PROVE  SubmissionIInv'
<1> SUFFICES ASSUME NEW t \in Tasks
             PROVE  /\ IsFiniteSet(OpenJobs(t)')
                    /\ Cardinality(OpenJobs(t)') + Cardinality(Inserting(t)') <= Cardinality(Callers)
  BY DEF SubmissionIInv
<1>1. OpenJobs(t)' \subseteq OpenJobs(t) /\ Inserting(t)' = Inserting(t)
  BY OpenJobsAre, OpenJobsWillBe DEF Inserting
<1>2. /\ IsFiniteSet(OpenJobs(t)) /\ IsFiniteSet(Inserting(t))
      /\ Cardinality(OpenJobs(t)) + Cardinality(Inserting(t)) <= Cardinality(Callers)
  BY SubmissionAssumption, FS_Subset DEF SubmissionIInv, Inserting
<1>3. PICK O : O = OpenJobs(t)'
  OBVIOUS
<1>4. IsFiniteSet(O) /\ Cardinality(O) <= Cardinality(OpenJobs(t))
  BY <1>1, <1>2, <1>3, FS_Subset
<1>5. /\ Cardinality(O) \in Nat /\ Cardinality(OpenJobs(t)) \in Nat
      /\ Cardinality(Inserting(t)) \in Nat /\ Cardinality(Callers) \in Nat
  BY <1>2, <1>4, SubmissionAssumption, FS_CardinalityType
<1> QED
  BY <1>1, <1>2, <1>3, <1>4, <1>5

LEMMA SubmissionStarts == SubmissionInit => SubmissionIInv
<1> SUFFICES ASSUME SubmissionInit PROVE SubmissionIInv
  OBVIOUS
<1>1. Blank \in JobRow /\ Blank.status \notin OpenStatuses
  BY DEF Blank, JobRow, Statuses, OpenStatuses
<1>2. jobs \in [Jobs -> JobRow] /\ \A j \in Jobs : jobs[j].status \notin OpenStatuses
  BY <1>1 DEF SubmissionInit, StoreInit
<1>3. ASSUME NEW t \in Tasks
      PROVE  /\ IsFiniteSet(OpenJobs(t))
             /\ Cardinality(OpenJobs(t)) + Cardinality(Inserting(t)) <= Cardinality(Callers)
  <2>1. OpenJobs(t) = {} /\ Inserting(t) = {}
    BY <1>2, OpenJobsAre, SubmissionAssumption DEF SubmissionInit, Inserting
  <2>2. Cardinality(Callers) \in Nat
    BY SubmissionAssumption, FS_CardinalityType
  <2> QED
    BY <2>1, <2>2, FS_EmptySet
<1> QED
  BY <1>2, <1>3 DEF SubmissionInit, SubmissionIInv

LEMMA CheckPendingKeeps ==
  ASSUME SubmissionIInv, NEW c \in Callers, NEW t \in Tasks, CheckPending(c, t)
  PROVE  SubmissionIInv'
<1>1. jobs' = jobs /\ passed' = [passed EXCEPT ![c] = t] /\ passed[c] = NoTask
  BY DEF CheckPending
<1>2. jobs' \in [Jobs -> JobRow] /\ passed' \in [Callers -> Tasks \cup {NoTask}]
  BY <1>1 DEF SubmissionIInv
<1>3. ASSUME NEW u \in Tasks
      PROVE  /\ IsFiniteSet(OpenJobs(u)')
             /\ Cardinality(OpenJobs(u)') + Cardinality(Inserting(u)') <= Cardinality(Callers)
  <2>1. OpenJobs(u)' = OpenJobs(u)
    BY <1>1 DEF OpenJobs, JobsOf, HasPendingJob
  <2>2. /\ IsFiniteSet(OpenJobs(u))
        /\ Cardinality(OpenJobs(u)) + Cardinality(Inserting(u)) <= Cardinality(Callers)
    BY DEF SubmissionIInv
  <2>3. CASE u = t
    <3>1. OpenJobs(u) = {}
      BY <2>3, OpenJobsAre DEF CheckPending, HasPendingJob, JobsOf, OpenStatuses
    <3>2. PICK I : I = Inserting(u)'
      OBVIOUS
    <3>3. I \subseteq Callers
      BY <3>2 DEF Inserting
    <3>4. Cardinality(I) \in Nat /\ Cardinality(I) <= Cardinality(Callers) /\ Cardinality(Callers) \in Nat
      BY <3>3, SubmissionAssumption, FS_Subset, FS_CardinalityType
    <3> QED
      BY <2>1, <3>1, <3>2, <3>4, FS_EmptySet
  <2>4. CASE u # t
    <3>1. Inserting(u)' = Inserting(u)
      BY <1>1, <2>4, SubmissionAssumption DEF Inserting, SubmissionIInv
    <3> QED
      BY <2>1, <2>2, <3>1
  <2> QED
    BY <2>3, <2>4
<1> QED
  BY <1>2, <1>3 DEF SubmissionIInv

LEMMA InsertJobKeeps ==
  ASSUME SubmissionIInv, NEW c \in Callers, NEW j \in Jobs, InsertJob(c, j)
  PROVE  SubmissionIInv'
<1>1. PICK p \in Priorities, at \in CreationTimes : jobs' = Inserted(j, p, at)
  BY DEF InsertJob
<1>2. PICK row : row = [status |-> "pending", priority |-> p, createdAt |-> at, attempts |-> 0,
                       nextRunIn |-> 0, leaseOwner |-> NoOwner, leaseLeft |-> -1]
  OBVIOUS
<1>3. row \in JobRow /\ row.status = "pending"
  BY <1>2, RowAssumption DEF JobRow, Statuses
<1>4. /\ jobs \in [Jobs -> JobRow] /\ jobs' = [jobs EXCEPT ![j] = row]
      /\ passed \in [Callers -> Tasks \cup {NoTask}] /\ passed' = [passed EXCEPT ![c] = NoTask]
      /\ passed[c] = TaskOf[j] /\ jobs[j].status = "unsubmitted"
  BY <1>1, <1>2 DEF Inserted, InsertJob, SubmissionIInv
<1>5. /\ jobs' \in [Jobs -> JobRow] /\ jobs'[j] = row
      /\ \A i \in Jobs \ {j} : jobs'[i] = jobs[i]
  BY <1>3, <1>4, OneJobChanges
<1>6. ASSUME NEW u \in Tasks
      PROVE  /\ IsFiniteSet(OpenJobs(u)')
             /\ Cardinality(OpenJobs(u)') + Cardinality(Inserting(u)') <= Cardinality(Callers)
  <2>1. /\ IsFiniteSet(OpenJobs(u)) /\ IsFiniteSet(Inserting(u))
        /\ Cardinality(OpenJobs(u)) + Cardinality(Inserting(u)) <= Cardinality(Callers)
    BY SubmissionAssumption, FS_Subset DEF SubmissionIInv, Inserting
  <2>2. CASE u = TaskOf[j]
    <3>1. OpenJobs(u)' = OpenJobs(u) \cup {j} /\ j \notin OpenJobs(u)
      BY <1>3, <1>4, <1>5, <2>2, OpenJobsAre, OpenJobsWillBe DEF OpenStatuses
    <3>2. Inserting(u)' = Inserting(u) \ {c} /\ c \in Inserting(u)
      BY <1>4, <2>2, SubmissionAssumption DEF Inserting
    <3>3. PICK O, I : O = OpenJobs(u) /\ I = Inserting(u)
      OBVIOUS
    <3>4. /\ IsFiniteSet(O \cup {j}) /\ Cardinality(O \cup {j}) = Cardinality(O) + 1
      BY <2>1, <3>1, <3>3, FS_AddElement
    <3>5. Cardinality(I \ {c}) = Cardinality(I) - 1
      BY <2>1, <3>2, <3>3, FS_RemoveElement
    <3>6. Cardinality(O) \in Nat /\ Cardinality(I) \in Nat /\ Cardinality(Callers) \in Nat
      BY <2>1, <3>3, SubmissionAssumption, FS_CardinalityType
    <3> QED
      BY <2>1, <3>1, <3>2, <3>3, <3>4, <3>5, <3>6
  <2>3. CASE u # TaskOf[j]
    <3>1. \A i \in JobsOf(u) : jobs'[i] = jobs[i]
      BY <1>5, <2>3 DEF JobsOf
    <3>3. OpenJobs(u)' = OpenJobs(u)
      BY <3>1 DEF OpenJobs, JobsOf, HasPendingJob
    <3>2. Inserting(u)' = Inserting(u)
      BY <1>4, <2>3, SubmissionAssumption DEF Inserting
    <3> QED
      BY <2>1, <3>2, <3>3
  <2> QED
    BY <2>2, <2>3
<1>7. passed' \in [Callers -> Tasks \cup {NoTask}]
  BY <1>4
<1> QED
  BY <1>5, <1>6, <1>7 DEF SubmissionIInv

LEMMA ClaimNextKeeps ==
  ASSUME SubmissionIInv, NEW w \in Workers, NEW j \in Jobs, ClaimNext(w, j)
  PROVE  SubmissionIInv'
<1>1. PICK row : row = [jobs[j] EXCEPT !.status = "active", !.leaseOwner = w, !.leaseLeft = LeaseTtl]
  OBVIOUS
<1>2. jobs \in [Jobs -> JobRow] /\ jobs' = [jobs EXCEPT ![j] = row] /\ passed' = passed
  BY <1>1 DEF ClaimNext, Claimed, SubmissionIInv
<1>3. row \in JobRow
  <2>1. jobs[j] \in JobRow /\ "active" \in Statuses /\ LeaseTtl \in Int
    BY <1>2, RowAssumption DEF Statuses
  <2> QED
    BY ONLY <1>1, <2>1, w \in Workers DEF JobRow
<1>4. jobs[j].status \in OpenStatuses
  BY DEF ClaimNext, NextPending, Runnable, Claimable, OpenStatuses
<1>5. /\ jobs' \in [Jobs -> JobRow] /\ \A i \in Jobs \ {j} : jobs'[i] = jobs[i]
  BY <1>2, <1>3, OneJobChanges
<1> QED
  BY <1>2, <1>4, <1>5, FewerOpen

LEMMA JobLeavesKeeps ==
  ASSUME SubmissionIInv, NEW j \in Jobs, NEW status \in Statuses, NEW attempts \in Nat,
         JobLeaves(j, status, attempts)
  PROVE  SubmissionIInv'
<1>1. PICK row : row = [jobs[j] EXCEPT !.status = status, !.attempts = attempts]
  OBVIOUS
<1>2. /\ jobs \in [Jobs -> JobRow] /\ jobs' = [jobs EXCEPT ![j] = row] /\ passed' = passed
      /\ jobs[j].status \in OpenStatuses
  BY <1>1 DEF JobLeaves, StatusUpdated, SubmissionIInv, OpenStatuses
<1>3. row \in JobRow
  BY <1>1, <1>2 DEF JobRow
<1>5. /\ jobs' \in [Jobs -> JobRow] /\ \A i \in Jobs \ {j} : jobs'[i] = jobs[i]
  BY <1>2, <1>3, OneJobChanges
<1> QED
  BY <1>2, <1>5, FewerOpen

LEMMA SubmissionSteps == SubmissionIInv /\ [SubmissionNext]_submissionVars => SubmissionIInv'
<1> SUFFICES ASSUME SubmissionIInv, [SubmissionNext]_submissionVars PROVE SubmissionIInv'
  OBVIOUS
<1>1. ASSUME NEW c \in Callers, NEW t \in Tasks, CheckPending(c, t) PROVE SubmissionIInv'
  BY <1>1, CheckPendingKeeps
<1>2. ASSUME NEW c \in Callers, NEW j \in Jobs, InsertJob(c, j) PROVE SubmissionIInv'
  BY <1>2, InsertJobKeeps
<1>3. ASSUME NEW w \in Workers, NEW j \in Jobs, ClaimNext(w, j) PROVE SubmissionIInv'
  BY <1>3, ClaimNextKeeps
<1>4. ASSUME NEW j \in Jobs, JobCompletes(j) \/ JobFails(j) PROVE SubmissionIInv'
  <2>1. jobs[j].attempts \in Nat
    BY DEF SubmissionIInv, JobRow
  <2>2. {"completed", "failed", "dead-letter"} \subseteq Statuses
    BY DEF Statuses
  <2>3. CASE JobCompletes(j)
    BY <2>1, <2>2, <2>3, JobLeavesKeeps DEF JobCompletes
  <2>4. CASE JobFails(j)
    <3>1. PICK status \in Statuses : JobLeaves(j, status, jobs[j].attempts + 1)
      BY <2>2, <2>4 DEF JobFails
    <3> QED
      BY <2>1, <3>1, JobLeavesKeeps
  <2> QED
    BY <1>4, <2>3, <2>4
<1>5. CASE UNCHANGED submissionVars
  BY <1>5, FewerOpen DEF submissionVars, SubmissionIInv
<1> QED
  BY <1>1, <1>2, <1>3, <1>4, <1>5 DEF SubmissionNext

\* However many jobs, tasks and workers there are, a task never has more jobs queued or
\* running than there are processes that submit it: enqueueUnique, whose check and insert
\* are two statements, lets through no more than one job of a task for each process.
THEOREM SubmissionHolds == SubmissionSpec => []OpenJobsPerCaller
<1>1. SubmissionInit => SubmissionIInv
  BY SubmissionStarts
<1>2. SubmissionIInv /\ [SubmissionNext]_submissionVars => SubmissionIInv'
  BY SubmissionSteps
<1>3. SubmissionIInv => OpenJobsPerCaller
  BY DEF SubmissionIInv, OpenJobsPerCaller, Inserting
<1> QED
  BY <1>1, <1>2, <1>3, PTL DEF SubmissionSpec

-----------------------------------------------------------------------------
Entry  == [status : {"none", "pending", "completed"}, id : Requests \cup {NoRequest},
           task : Requests \cup {NoRequest}]
Stages == {"new", "reserve", "look", "reclaim", "gate", "count", "consume", "daily",
           "create", "enqueue", "respond", "done"}

\* A request in one of these has its process to itself, and beyond "reserve" its key.
Running  == Stages \ {"new", "respond", "done"}
Handling == {"gate", "count", "consume", "daily", "create", "enqueue"}

RowsAreOwned ==
  \A k \in AdmissionKeys :
    /\ entry[k].status = "none" => entry[k] = NoEntry
    /\ entry[k].status # "none" => entry[k].id \in Requests
    /\ entry[k].status = "completed" => entry[k].task = entry[k].id

TurnsAreCounted ==
  \A r \in Requests : /\ stage[r] = "new" => attempt[r] = 0
                      /\ stage[r] = "reserve" => attempt[r] <= 2

OneAtATime ==
  \A r, q \in Requests :
    ProcessOf[r] = ProcessOf[q] /\ stage[r] \in Running /\ stage[q] \in Running => r = q

\* Who has been let through to the handler holds the key still, unless it ran without a
\* reservation or its row has expired.
Holds(r) == stage[r] \in Handling \/ answer[r] = "accepted"
KeysAreHeld ==
  \A r \in Requests : Holds(r) /\ r \notin outlived /\ r \notin bare => entry[KeyOf[r]].id = r

AdmissionIInv ==
  /\ AdmissionTypeOK /\ RowsAreOwned /\ TurnsAreCounted /\ OneAtATime /\ KeysAreHeld /\ QuotaOvershoot

-----------------------------------------------------------------------------
LEMMA AdmissionNumbers ==
  /\ TaskLimit \in Nat /\ DailyLimit \in Nat /\ MaxMishaps \in Nat /\ IsFiniteSet(Requests)
  /\ NoRequest \notin Requests /\ \A r \in Requests : KeyOf[r] \in AdmissionKeys /\ ProcessOf[r] \in Processes
BY AdmissionAssumption DEF AdmissionKeys, Processes

LEMMA ProcessesAreFinite == IsFiniteSet(Processes) /\ Cardinality(Processes) \in Nat
<1> DEFINE f == [r \in Requests |-> ProcessOf[r]]
<1>1. f \in Surjection(Requests, Processes)
  BY DEF Surjection, Processes
<1>2. IsFiniteSet(Processes)
  <2> HIDE DEF f
  <2> QED
    BY <1>1, AdmissionAssumption, FS_Surjection
<1> QED
  BY <1>2, FS_CardinalityType

\* Requests of which no two share a process are no more than the processes.
LEMMA OnePerProcess ==
  ASSUME NEW A \in SUBSET Requests, \A r, q \in A : ProcessOf[r] = ProcessOf[q] => r = q
  PROVE  IsFiniteSet(A) /\ Cardinality(A) <= Cardinality(Processes)
<1> DEFINE f == [r \in A |-> ProcessOf[r]]
<1>1. f \in Injection(A, Processes)
  BY DEF Injection, IsInjective, Processes
<1> HIDE DEF f
<1> QED
  BY <1>1, ProcessesAreFinite, FS_Injection

Past(S) == {r \in Requests : stage[r] \in S}

\* One request goes from one stage to another.
LEMMA StageMoves ==
  ASSUME stage \in [Requests -> Stages], NEW r \in Requests, NEW from \in Stages, NEW to \in Stages,
         Goes(r, from, to)
  PROVE  /\ stage' \in [Requests -> Stages] /\ stage[r] = from /\ stage'[r] = to
         /\ \A q \in Requests : q # r => stage'[q] = stage[q]
BY DEF Goes

\* A quota of which nothing more is spent and which no further request has passed.
LEMMA QuotaKept ==
  ASSUME AdmissionIInv, stage' \in [Requests -> Stages], spent' \subseteq spent, tasks' \subseteq tasks,
         \A r \in Requests : /\ stage'[r] = "consume" => stage[r] = "consume"
                             /\ stage'[r] = "create" => stage[r] = "create"
  PROVE  QuotaOvershoot'
<1>1. PICK e1, e2, f1, f2 : /\ e1 = Past({"consume"}) /\ e2 = Past({"create"})
                            /\ f1 = Past({"consume"})' /\ f2 = Past({"create"})'
  OBVIOUS
<1>2. /\ f1 \subseteq e1 /\ f2 \subseteq e2 /\ e1 \subseteq Requests /\ e2 \subseteq Requests
      /\ spent \subseteq Requests /\ tasks \subseteq Requests
  BY <1>1 DEF Past, AdmissionIInv, AdmissionTypeOK
<1>3. IsFiniteSet(e1) /\ IsFiniteSet(e2) /\ IsFiniteSet(spent) /\ IsFiniteSet(tasks)
  BY <1>2, AdmissionNumbers, FS_Subset
<1>4. ASSUME TaskLimit > 0
      PROVE  Cardinality(spent') + Cardinality(f1) <= TaskLimit + (Cardinality(Processes) - 1)
  <2>1. TaskLimit + (Cardinality(Processes) - 1) \in Nat
    BY <1>4, ProcessesAreFinite, AdmissionNumbers
  <2>2. Cardinality(spent) + Cardinality(e1) <= TaskLimit + (Cardinality(Processes) - 1)
    BY <1>1, <1>4 DEF AdmissionIInv, QuotaOvershoot, Past
  <2>3. PICK s2 : s2 = spent'
    OBVIOUS
  <2> QED
    BY <1>2, <1>3, <2>1, <2>2, <2>3, FewerOfBoth
<1>5. ASSUME DailyLimit > 0
      PROVE  Cardinality(tasks') + Cardinality(f2) <= DailyLimit + (Cardinality(Processes) - 1)
  <2>1. DailyLimit + (Cardinality(Processes) - 1) \in Nat
    BY <1>5, ProcessesAreFinite, AdmissionNumbers
  <2>2. Cardinality(tasks) + Cardinality(e2) <= DailyLimit + (Cardinality(Processes) - 1)
    BY <1>1, <1>5 DEF AdmissionIInv, QuotaOvershoot, Past
  <2>3. PICK s2 : s2 = tasks'
    OBVIOUS
  <2> QED
    BY <1>2, <1>3, <2>1, <2>2, <2>3, FewerOfBoth
<1> QED
  BY <1>1, <1>4, <1>5 DEF QuotaOvershoot, Past

LEMMA AdmissionStarts == AdmissionInit => AdmissionIInv
<1> SUFFICES ASSUME AdmissionInit PROVE AdmissionIInv
  OBVIOUS
<1>1. AdmissionTypeOK
  BY AdmissionNumbers DEF AdmissionInit, AdmissionTypeOK, NoEntry, Answers
<1>2. RowsAreOwned /\ TurnsAreCounted /\ OneAtATime /\ KeysAreHeld
  BY DEF AdmissionInit, RowsAreOwned, TurnsAreCounted, OneAtATime, KeysAreHeld, NoEntry, Holds, Running, Handling, Stages
<1>3. QuotaOvershoot
  <2>1. Past({"consume"}) = {} /\ Past({"create"}) = {} /\ spent = {} /\ tasks = {}
    BY DEF AdmissionInit, Past
  <2>2. Cardinality({}) = 0 /\ Cardinality(Processes) \in Nat
    BY FS_EmptySet, ProcessesAreFinite
  <2>3. /\ TaskLimit > 0 => 0 + 0 <= TaskLimit + (Cardinality(Processes) - 1)
        /\ DailyLimit > 0 => 0 + 0 <= DailyLimit + (Cardinality(Processes) - 1)
    BY <2>2, AdmissionNumbers
  <2> QED
    BY <2>1, <2>2, <2>3 DEF QuotaOvershoot, Past
<1> QED
  BY <1>1, <1>2, <1>3 DEF AdmissionIInv

-----------------------------------------------------------------------------
\* What a request that moves on leaves in place, whatever the step: the stages are typed,
\* each process has one request, and who was let through before is so still.
LEMMA MovesOn ==
  ASSUME AdmissionIInv, NEW r \in Requests, NEW from \in Stages, NEW to \in Stages, Goes(r, from, to),
         from = "new" => \A q \in Requests : ProcessOf[q] = ProcessOf[r] => stage[q] \in {"new", "respond", "done"},
         from \in {"respond", "done"} => to \in {"respond", "done"}
  PROVE  /\ stage' \in [Requests -> Stages] /\ stage[r] = from /\ stage'[r] = to
         /\ \A q \in Requests : q # r => stage'[q] = stage[q]
         /\ OneAtATime'
<1>1. /\ stage' \in [Requests -> Stages] /\ stage[r] = from /\ stage'[r] = to
      /\ \A q \in Requests : q # r => stage'[q] = stage[q]
  BY StageMoves DEF AdmissionIInv, AdmissionTypeOK, Stages
<1>2. OneAtATime'
  BY <1>1 DEF AdmissionIInv, OneAtATime, Running, Stages
<1> QED
  BY <1>1, <1>2

\* Nothing but one request's stage and answer: a request in the handler stays there or is
\* answered, and one outside of it is not accepted.
LEMMA PlainStep ==
  ASSUME AdmissionIInv, NEW r \in Requests, NEW from \in Stages, NEW to \in Stages, Goes(r, from, to),
         from # "new", from \notin {"respond", "done"}, to \notin {"new", "reserve"},
         UNCHANGED <<entry, attempt, outlived, bare>>,
         spent' \subseteq Requests, tasks' \subseteq Requests, mishaps' \in 0 .. MaxMishaps,
         NEW a \in Answers, answer' = answer \/ answer' = [answer EXCEPT ![r] = a],
         to \in Handling => from \in Handling,
         answer' # answer /\ a = "accepted" => from \in Handling,
         QuotaOvershoot'
  PROVE  AdmissionIInv'
<1>1. /\ stage' \in [Requests -> Stages] /\ stage[r] = from /\ stage'[r] = to
      /\ \A q \in Requests : q # r => stage'[q] = stage[q]
      /\ OneAtATime'
  BY MovesOn
<1>2. AdmissionTypeOK /\ RowsAreOwned /\ TurnsAreCounted /\ KeysAreHeld
  BY DEF AdmissionIInv
<1>3. AdmissionTypeOK'
  BY <1>1, <1>2 DEF AdmissionTypeOK, Stages
<1>4. RowsAreOwned' /\ TurnsAreCounted'
  BY <1>1, <1>2 DEF RowsAreOwned, TurnsAreCounted
<1>5. ASSUME NEW q \in Requests, Holds(q)' PROVE Holds(q)
  BY <1>1, <1>2, <1>5 DEF Holds, AdmissionTypeOK
<1>6. KeysAreHeld'
  BY <1>2, <1>5 DEF KeysAreHeld
<1> QED
  BY <1>1, <1>3, <1>4, <1>6 DEF AdmissionIInv

LEMMA AnswersAre == {"none", "accepted", "conflict", "error", "crashed"} \subseteq Answers /\ Requests \subseteq Answers
BY DEF Answers

\* The same, of a step that leaves the quotas as they are.
LEMMA QuietStep ==
  ASSUME AdmissionIInv, NEW r \in Requests, NEW from \in Stages, NEW to \in Stages, Goes(r, from, to),
         from # "new", from \notin {"respond", "done"}, to \notin {"new", "reserve", "consume", "create"},
         UNCHANGED <<entry, attempt, outlived>>, Quotas, mishaps' \in 0 .. MaxMishaps,
         NEW a \in Answers, answer' = answer \/ answer' = [answer EXCEPT ![r] = a],
         to \in Handling => from \in Handling,
         answer' # answer /\ a = "accepted" => from \in Handling
  PROVE  AdmissionIInv'
<1>1. QuotaOvershoot'
  <2>1. /\ stage' \in [Requests -> Stages] /\ stage'[r] = to
        /\ \A q \in Requests : q # r => stage'[q] = stage[q]
    BY MovesOn
  <2> QED
    BY <2>1, QuotaKept DEF Quotas
<1>2. /\ UNCHANGED bare /\ spent' \subseteq Requests /\ tasks' \subseteq Requests
  BY DEF Quotas, AdmissionIInv, AdmissionTypeOK
<1> QED
  BY <1>1, <1>2, PlainStep

-----------------------------------------------------------------------------
LEMMA StageNames ==
  /\ {"new", "reserve", "look", "reclaim", "gate", "count", "consume", "daily",
      "create", "enqueue", "respond", "done"} \subseteq Stages
  /\ Handling \subseteq Stages /\ "respond" \notin Handling /\ "done" \notin Handling
  /\ "new" \notin Handling /\ "reserve" \notin Handling /\ "look" \notin Handling /\ "reclaim" \notin Handling
BY DEF Stages, Handling

\* At most one request for each process stands between a check and its insert.
LEMMA FewBetween ==
  ASSUME OneAtATime, NEW x \in Running
  PROVE  /\ IsFiniteSet(Past({x})) /\ Cardinality(Past({x})) \in Nat
         /\ Cardinality(Past({x})) <= Cardinality(Processes)
<1>1. Past({x}) \in SUBSET Requests /\ \A r, q \in Past({x}) : ProcessOf[r] = ProcessOf[q] => r = q
  BY DEF Past, OneAtATime
<1>2. PICK A \in SUBSET Requests : A = Past({x})
  BY <1>1
<1>3. IsFiniteSet(A) /\ Cardinality(A) <= Cardinality(Processes)
  BY <1>1, <1>2, OnePerProcess
<1> QED
  BY <1>2, <1>3, FS_CardinalityType

LEMMA FewBetweenNext ==
  ASSUME OneAtATime', NEW x \in Running
  PROVE  /\ Cardinality(Past({x})') \in Nat /\ Cardinality(Past({x})') <= Cardinality(Processes)
<1>1. PICK A : A = Past({x})'
  OBVIOUS
<1>2. A \in SUBSET Requests /\ \A r, q \in A : ProcessOf[r] = ProcessOf[q] => r = q
  BY <1>1 DEF Past, OneAtATime
<1>3. IsFiniteSet(A) /\ Cardinality(A) <= Cardinality(Processes)
  BY <1>2, OnePerProcess
<1> QED
  BY <1>1, <1>3, FS_CardinalityType

LEMMA QuotaSets ==
  ASSUME AdmissionIInv
  PROVE  /\ IsFiniteSet(spent) /\ IsFiniteSet(tasks)
         /\ Cardinality(spent) \in Nat /\ Cardinality(tasks) \in Nat
         /\ TaskLimit > 0 => Cardinality(spent) + Cardinality(Past({"consume"})) <= TaskLimit + (Cardinality(Processes) - 1)
         /\ DailyLimit > 0 => Cardinality(tasks) + Cardinality(Past({"create"})) <= DailyLimit + (Cardinality(Processes) - 1)
<1>1. spent \subseteq Requests /\ tasks \subseteq Requests
  BY DEF AdmissionIInv, AdmissionTypeOK
<1>2. IsFiniteSet(spent) /\ IsFiniteSet(tasks)
  BY <1>1, AdmissionNumbers, FS_Subset
<1> QED
  BY <1>2, FS_CardinalityType DEF AdmissionIInv, QuotaOvershoot, Past

\* The sum stays within its bound when one more request gets past a check that found room,
\* and when a request past it goes into the count.
LEMMA CountEventsKeeps == ASSUME AdmissionIInv, NEW r \in Requests, CountEvents(r) PROVE AdmissionIInv'
<1>0. /\ "count" \in Stages /\ "consume" \in Stages /\ "respond" \in Stages
      /\ "count" \in Handling /\ "consume" \in Running /\ "create" \in Running /\ "error" \in Answers
  BY StageNames DEF Handling, Running, Stages, Answers
<1>1. CASE (TaskLimit = 0 \/ Cardinality(spent) < TaskLimit) /\ Goes(r, "count", "consume") /\ UNCHANGED answer
  <2>1. /\ stage' \in [Requests -> Stages] /\ stage'[r] = "consume" /\ stage[r] = "count"
        /\ \A q \in Requests : q # r => stage'[q] = stage[q]
        /\ OneAtATime'
    BY <1>0, <1>1, MovesOn
  <2>2. UNCHANGED <<entry, attempt, outlived, bare, spent, tasks, mishaps>>
    BY DEF CountEvents, Handler, Quotas
  <2>3. Past({"create"})' = Past({"create"})
    BY <2>1 DEF Past
  <2>4. TaskLimit > 0 => Cardinality(spent) + Cardinality(Past({"consume"})') <= TaskLimit + (Cardinality(Processes) - 1)
    BY <1>0, <1>1, <2>1, QuotaSets, FewBetweenNext, ProcessesAreFinite, AdmissionNumbers
  <2>5. QuotaOvershoot'
    BY <2>2, <2>3, <2>4, QuotaSets DEF QuotaOvershoot, Past
  <2>6. spent' \subseteq Requests /\ tasks' \subseteq Requests /\ mishaps' \in 0 .. MaxMishaps
    BY <2>2 DEF AdmissionIInv, AdmissionTypeOK
  <2> QED
    BY <1>0, <1>1, <2>2, <2>5, <2>6, PlainStep
<1>2. CASE Answered(r, "count", "error")
  <2>1. Goes(r, "count", "respond") /\ answer' = [answer EXCEPT ![r] = "error"]
    BY <1>2 DEF Answered
  <2>2. UNCHANGED <<entry, attempt, outlived>> /\ Quotas /\ mishaps' \in 0 .. MaxMishaps
    BY DEF CountEvents, Handler, AdmissionIInv, AdmissionTypeOK
  <2> QED
    BY <1>0, <2>1, <2>2, QuietStep, StageNames
<1> QED
  BY <1>1, <1>2 DEF CountEvents

LEMMA ConsumeQuotaKeeps == ASSUME AdmissionIInv, NEW r \in Requests, Consume(r) PROVE AdmissionIInv'
<1>0. /\ "consume" \in Stages /\ "daily" \in Stages /\ "consume" \in Handling /\ "daily" \in Handling /\ "none" \in Answers
      /\ "consume" \in Running
  BY StageNames DEF Handling, Answers, Running, Stages
<1>1. /\ Goes(r, "consume", "daily") /\ spent' = spent \cup {r}
      /\ UNCHANGED <<entry, attempt, outlived, answer, tasks, bare, mishaps>>
  BY DEF Consume, Handler
<1>2. /\ stage' \in [Requests -> Stages] /\ stage'[r] = "daily" /\ stage[r] = "consume"
      /\ \A q \in Requests : q # r => stage'[q] = stage[q]
  BY <1>0, <1>1, MovesOn
<1>3. Past({"consume"})' = Past({"consume"}) \ {r} /\ r \in Past({"consume"}) /\ Past({"create"})' = Past({"create"})
  BY <1>2 DEF Past
<1>4. PICK e1, s1 : e1 = Past({"consume"}) /\ s1 = spent
  OBVIOUS
<1>5. IsFiniteSet(e1) /\ Cardinality(e1) \in Nat
  BY <1>0, <1>4, FewBetween DEF AdmissionIInv
<1>6. Cardinality(e1 \ {r}) = Cardinality(e1) - 1
  BY <1>3, <1>4, <1>5, FS_RemoveElement
<1>7. /\ Cardinality(s1 \cup {r}) \in Nat /\ Cardinality(s1 \cup {r}) <= Cardinality(s1) + 1
  <2>1. IsFiniteSet(s1) /\ Cardinality(s1) \in Nat
    BY <1>4, QuotaSets
  <2>2. IsFiniteSet(s1 \cup {r}) /\ Cardinality(s1 \cup {r}) = (IF r \in s1 THEN Cardinality(s1) ELSE Cardinality(s1) + 1)
    BY <2>1, FS_AddElement
  <2>3. Cardinality(s1 \cup {r}) \in Nat
    BY <2>2, FS_CardinalityType
  <2> QED
    BY <2>1, <2>2, <2>3
<1>8. TaskLimit > 0 => Cardinality(spent') + Cardinality(Past({"consume"})') <= TaskLimit + (Cardinality(Processes) - 1)
  <2>1. TaskLimit > 0 => Cardinality(s1) + Cardinality(e1) <= TaskLimit + (Cardinality(Processes) - 1)
    BY <1>4, QuotaSets
  <2>2. Cardinality(s1) \in Nat
    BY <1>4, QuotaSets
  <2>3. Cardinality(spent') = Cardinality(s1 \cup {r}) /\ Cardinality(Past({"consume"})') = Cardinality(e1) - 1
    BY <1>1, <1>3, <1>4, <1>6
  <2> QED
    BY <1>5, <1>7, <2>1, <2>2, <2>3, ProcessesAreFinite, AdmissionNumbers
<1>9. QuotaOvershoot'
  BY <1>1, <1>3, <1>8, QuotaSets DEF QuotaOvershoot, Past
<1>10. spent' \subseteq Requests /\ tasks' \subseteq Requests /\ mishaps' \in 0 .. MaxMishaps
  BY <1>1 DEF AdmissionIInv, AdmissionTypeOK
<1> QED
  BY <1>0, <1>1, <1>9, <1>10, PlainStep

LEMMA DailyKeeps == ASSUME AdmissionIInv, NEW r \in Requests, DailyQuota(r) PROVE AdmissionIInv'
<1>0. /\ "daily" \in Stages /\ "create" \in Stages /\ "respond" \in Stages
      /\ "daily" \in Handling /\ "consume" \in Running /\ "create" \in Running /\ "error" \in Answers
  BY StageNames DEF Handling, Running, Stages, Answers
<1>1. CASE (DailyLimit = 0 \/ Cardinality(tasks) < DailyLimit) /\ Goes(r, "daily", "create") /\ UNCHANGED answer
  <2>1. /\ stage' \in [Requests -> Stages] /\ stage'[r] = "create" /\ stage[r] = "daily"
        /\ \A q \in Requests : q # r => stage'[q] = stage[q]
        /\ OneAtATime'
    BY <1>0, <1>1, MovesOn
  <2>2. UNCHANGED <<entry, attempt, outlived, bare, spent, tasks, mishaps>>
    BY DEF DailyQuota, Handler, Quotas
  <2>3. Past({"consume"})' = Past({"consume"})
    BY <2>1 DEF Past
  <2>4. DailyLimit > 0 => Cardinality(tasks) + Cardinality(Past({"create"})') <= DailyLimit + (Cardinality(Processes) - 1)
    BY <1>0, <1>1, <2>1, QuotaSets, FewBetweenNext, ProcessesAreFinite, AdmissionNumbers
  <2>5. QuotaOvershoot'
    BY <2>2, <2>3, <2>4, QuotaSets DEF QuotaOvershoot, Past
  <2>6. spent' \subseteq Requests /\ tasks' \subseteq Requests /\ mishaps' \in 0 .. MaxMishaps
    BY <2>2 DEF AdmissionIInv, AdmissionTypeOK
  <2> QED
    BY <1>0, <1>1, <2>2, <2>5, <2>6, PlainStep
<1>2. CASE Answered(r, "daily", "error")
  <2>1. Goes(r, "daily", "respond") /\ answer' = [answer EXCEPT ![r] = "error"]
    BY <1>2 DEF Answered
  <2>2. UNCHANGED <<entry, attempt, outlived>> /\ Quotas /\ mishaps' \in 0 .. MaxMishaps
    BY DEF DailyQuota, Handler, AdmissionIInv, AdmissionTypeOK
  <2> QED
    BY <1>0, <2>1, <2>2, QuietStep, StageNames
<1> QED
  BY <1>1, <1>2 DEF DailyQuota

LEMMA CreateTaskKeeps == ASSUME AdmissionIInv, NEW r \in Requests, CreateTask(r) PROVE AdmissionIInv'
<1>0. /\ "create" \in Stages /\ "enqueue" \in Stages /\ "create" \in Handling /\ "enqueue" \in Handling /\ "none" \in Answers
      /\ "create" \in Running
  BY StageNames DEF Handling, Answers, Running, Stages
<1>1. /\ Goes(r, "create", "enqueue") /\ tasks' = tasks \cup {r}
      /\ UNCHANGED <<entry, attempt, outlived, answer, spent, bare, mishaps>>
  BY DEF CreateTask, Handler
<1>2. /\ stage' \in [Requests -> Stages] /\ stage'[r] = "enqueue" /\ stage[r] = "create"
      /\ \A q \in Requests : q # r => stage'[q] = stage[q]
  BY <1>0, <1>1, MovesOn
<1>3. Past({"create"})' = Past({"create"}) \ {r} /\ r \in Past({"create"}) /\ Past({"consume"})' = Past({"consume"})
  BY <1>2 DEF Past
<1>4. PICK e1, s1 : e1 = Past({"create"}) /\ s1 = tasks
  OBVIOUS
<1>5. IsFiniteSet(e1) /\ Cardinality(e1) \in Nat
  BY <1>0, <1>4, FewBetween DEF AdmissionIInv
<1>6. Cardinality(e1 \ {r}) = Cardinality(e1) - 1
  BY <1>3, <1>4, <1>5, FS_RemoveElement
<1>7. /\ Cardinality(s1 \cup {r}) \in Nat /\ Cardinality(s1 \cup {r}) <= Cardinality(s1) + 1
  <2>1. IsFiniteSet(s1) /\ Cardinality(s1) \in Nat
    BY <1>4, QuotaSets
  <2>2. IsFiniteSet(s1 \cup {r}) /\ Cardinality(s1 \cup {r}) = (IF r \in s1 THEN Cardinality(s1) ELSE Cardinality(s1) + 1)
    BY <2>1, FS_AddElement
  <2>3. Cardinality(s1 \cup {r}) \in Nat
    BY <2>2, FS_CardinalityType
  <2> QED
    BY <2>1, <2>2, <2>3
<1>8. DailyLimit > 0 => Cardinality(tasks') + Cardinality(Past({"create"})') <= DailyLimit + (Cardinality(Processes) - 1)
  <2>1. DailyLimit > 0 => Cardinality(s1) + Cardinality(e1) <= DailyLimit + (Cardinality(Processes) - 1)
    BY <1>4, QuotaSets
  <2>2. Cardinality(s1) \in Nat
    BY <1>4, QuotaSets
  <2>3. Cardinality(tasks') = Cardinality(s1 \cup {r}) /\ Cardinality(Past({"create"})') = Cardinality(e1) - 1
    BY <1>1, <1>3, <1>4, <1>6
  <2> QED
    BY <1>5, <1>7, <2>1, <2>2, <2>3, ProcessesAreFinite, AdmissionNumbers
<1>9. QuotaOvershoot'
  BY <1>1, <1>3, <1>8, QuotaSets DEF QuotaOvershoot, Past
<1>10. spent' \subseteq Requests /\ tasks' \subseteq Requests /\ mishaps' \in 0 .. MaxMishaps
  BY <1>1 DEF AdmissionIInv, AdmissionTypeOK
<1> QED
  BY <1>0, <1>1, <1>9, <1>10, PlainStep

LEMMA MishapIs == ASSUME AdmissionIInv, Mishap \/ UNCHANGED mishaps PROVE mishaps' \in 0 .. MaxMishaps
BY AdmissionNumbers DEF Mishap, AdmissionIInv, AdmissionTypeOK

LEMMA GateRequestKeeps == ASSUME AdmissionIInv, NEW r \in Requests, Gate(r) PROVE AdmissionIInv'
<1>1. UNCHANGED <<entry, attempt, outlived>> /\ Quotas /\ mishaps' \in 0 .. MaxMishaps
  BY MishapIs DEF Gate, Handler
<1>2. PICK to \in {"count", "respond"} : Goes(r, "gate", to)
  BY DEF Gate, Answered
<1>3. answer' = answer \/ answer' = [answer EXCEPT ![r] = "error"]
  BY DEF Gate, Answered
<1>4. "gate" \in Handling /\ "gate" \in Stages /\ to \in Stages /\ "error" \in Answers
  BY StageNames, AnswersAre DEF Handling
<1> QED
  BY <1>1, <1>2, <1>3, <1>4, QuietStep

LEMMA EnqueueTaskKeeps == ASSUME AdmissionIInv, NEW r \in Requests, Enqueue(r) PROVE AdmissionIInv'
<1>1. UNCHANGED <<entry, attempt, outlived>> /\ Quotas /\ mishaps' \in 0 .. MaxMishaps
  BY MishapIs DEF Enqueue, Handler
<1>2. PICK a \in {"accepted", "error"} : Goes(r, "enqueue", "respond") /\ answer' = [answer EXCEPT ![r] = a]
  BY DEF Enqueue, Answered
<1>3. "enqueue" \in Handling /\ "enqueue" \in Stages /\ "respond" \in Stages /\ a \in Answers
  BY StageNames, AnswersAre DEF Handling
<1> QED
  BY <1>1, <1>2, <1>3, QuietStep

-----------------------------------------------------------------------------
(***************************************************************************)
(* The steps that write the idempotency rows or begin and end a request.   *)
(***************************************************************************)
\* The parts of the invariant, for a step whose parts are proved one by one.
LEMMA AdmissionPut ==
  ASSUME AdmissionTypeOK', RowsAreOwned', TurnsAreCounted', OneAtATime', KeysAreHeld', QuotaOvershoot'
  PROVE  AdmissionIInv'
BY DEF AdmissionIInv

LEMMA ArriveKeeps == ASSUME AdmissionIInv, NEW r \in Requests, Arrive(r) PROVE AdmissionIInv'
<1>0. AdmissionTypeOK /\ RowsAreOwned /\ TurnsAreCounted /\ KeysAreHeld
  BY DEF AdmissionIInv
<1>1. /\ Goes(r, "new", "reserve") /\ UNCHANGED <<entry, attempt, answer, outlived, mishaps, spent, tasks, bare>>
      /\ \A q \in Requests : ProcessOf[q] = ProcessOf[r] => stage[q] \in {"new", "respond", "done"}
  BY DEF Arrive, Quotas
<1>2. /\ stage' \in [Requests -> Stages] /\ stage[r] = "new" /\ stage'[r] = "reserve"
      /\ \A q \in Requests : q # r => stage'[q] = stage[q]
      /\ OneAtATime'
  BY <1>1, MovesOn, StageNames
<1>3. AdmissionTypeOK' /\ RowsAreOwned' /\ TurnsAreCounted'
  BY <1>0, <1>1, <1>2 DEF AdmissionTypeOK, RowsAreOwned, TurnsAreCounted, Stages
<1>4. KeysAreHeld'
  BY <1>0, <1>1, <1>2, StageNames DEF KeysAreHeld, Holds
<1>5. QuotaOvershoot'
  BY <1>1, <1>2, QuotaKept
<1> QED
  BY <1>2, <1>3, <1>4, <1>5, AdmissionPut

LEMMA ReserveFailsKeeps == ASSUME AdmissionIInv, NEW r \in Requests, ReserveFails(r) PROVE AdmissionIInv'
<1>0. AdmissionTypeOK /\ RowsAreOwned /\ TurnsAreCounted /\ KeysAreHeld
  BY DEF AdmissionIInv
<1>1. /\ Goes(r, "reserve", "gate") /\ UNCHANGED <<entry, attempt, answer, outlived, spent, tasks>>
      /\ bare' = bare \cup {r} /\ mishaps' \in 0 .. MaxMishaps
  BY MishapIs DEF ReserveFails
<1>2. /\ stage' \in [Requests -> Stages] /\ stage[r] = "reserve" /\ stage'[r] = "gate"
      /\ \A q \in Requests : q # r => stage'[q] = stage[q]
      /\ OneAtATime'
  BY <1>1, MovesOn, StageNames
<1>3. AdmissionTypeOK' /\ RowsAreOwned' /\ TurnsAreCounted'
  BY <1>0, <1>1, <1>2 DEF AdmissionTypeOK, RowsAreOwned, TurnsAreCounted, Stages
<1>4. KeysAreHeld'
  BY <1>0, <1>1, <1>2, StageNames DEF KeysAreHeld, Holds
<1>5. QuotaOvershoot'
  BY <1>1, <1>2, QuotaKept
<1> QED
  BY <1>2, <1>3, <1>4, <1>5, AdmissionPut

\* A row that is put in for a request has its key free before.
LEMMA ReserveInsertKeeps == ASSUME AdmissionIInv, NEW r \in Requests, ReserveInsert(r) PROVE AdmissionIInv'
<1>0. AdmissionTypeOK /\ RowsAreOwned /\ TurnsAreCounted /\ KeysAreHeld
  BY DEF AdmissionIInv
<1>1. /\ attempt' = [attempt EXCEPT ![r] = attempt[r] + 1]
      /\ UNCHANGED <<answer, outlived, mishaps, spent, tasks, bare>>
  BY DEF ReserveInsert, Quotas
<1>2. PICK to \in {"gate", "look"} : Goes(r, "reserve", to)
  BY DEF ReserveInsert
<1>3. /\ stage' \in [Requests -> Stages] /\ stage[r] = "reserve" /\ stage'[r] = to
      /\ \A q \in Requests : q # r => stage'[q] = stage[q]
      /\ OneAtATime'
  BY <1>2, MovesOn, StageNames
<1>4. attempt' \in [Requests -> 0 .. 3] /\ \A q \in Requests : q # r => attempt'[q] = attempt[q]
  <2>1. attempt[r] \in 0 .. 2 /\ attempt \in [Requests -> 0 .. 3]
    BY <1>0, <1>3 DEF TurnsAreCounted, AdmissionTypeOK
  <2> QED
    BY <1>1, <2>1
<1>5. TurnsAreCounted'
  BY <1>0, <1>2, <1>3, <1>4 DEF TurnsAreCounted
<1>6. QuotaOvershoot'
  BY <1>1, <1>2, <1>3, QuotaKept
<1>7. KeyOf[r] \in AdmissionKeys
  BY AdmissionNumbers
<1>8. CASE EntryOf(r) = NoEntry
  <2>1. PICK e : e = Pending(r)
    OBVIOUS
  <2>2. e \in Entry /\ e.id = r /\ e.status = "pending"
    BY <2>1 DEF Pending, Entry
  <2>3. entry' = [entry EXCEPT ![KeyOf[r]] = e] /\ entry \in [AdmissionKeys -> Entry]
    BY <1>0, <1>8, <2>1 DEF ReserveInsert, AdmissionTypeOK, Entry
  <2>4. /\ entry' \in [AdmissionKeys -> Entry] /\ entry'[KeyOf[r]] = e
        /\ \A k \in AdmissionKeys : k # KeyOf[r] => entry'[k] = entry[k]
    BY <1>7, <2>2, <2>3
  <2>5. AdmissionTypeOK'
    BY <1>0, <1>1, <1>3, <1>4, <2>4 DEF AdmissionTypeOK, Stages, Entry
  <2>6. RowsAreOwned'
    BY <1>0, <2>2, <2>4 DEF RowsAreOwned
  <2>7. KeysAreHeld'
    <3>1. ASSUME NEW q \in Requests, Holds(q)', q \notin outlived, q \notin bare
          PROVE  entry'[KeyOf[q]].id = q
      <4>1. CASE q = r
        BY <2>2, <2>4, <4>1
      <4>2. CASE q # r
        <5>1. entry[KeyOf[q]].id = q
          BY <1>0, <1>1, <1>3, <3>1, <4>2 DEF KeysAreHeld, Holds
        <5>2. KeyOf[q] # KeyOf[r]
          BY <1>8, <5>1, AdmissionNumbers DEF EntryOf, NoEntry
        <5> QED
          BY <2>4, <5>1, <5>2, AdmissionNumbers
      <4> QED
        BY <4>1, <4>2
    <3> QED
      BY <1>1, <3>1 DEF KeysAreHeld
  <2> QED
    BY <1>3, <1>5, <1>6, <2>5, <2>6, <2>7, AdmissionPut
<1>9. CASE EntryOf(r) # NoEntry
  <2>1. entry' = entry /\ to = "look"
    <3>1. Goes(r, "reserve", "look")
      BY <1>9 DEF ReserveInsert
    <3>2. stage' = [stage EXCEPT ![r] = "look"] /\ stage \in [Requests -> Stages]
      BY <1>0, <3>1 DEF Goes, AdmissionTypeOK, Stages
    <3> QED
      BY <1>3, <1>9, <3>2 DEF ReserveInsert
  <2>2. AdmissionTypeOK'
    BY <1>0, <1>1, <1>3, <1>4, <2>1 DEF AdmissionTypeOK, Stages
  <2>3. RowsAreOwned'
    BY <1>0, <2>1 DEF RowsAreOwned
  <2>4. KeysAreHeld'
    BY <1>0, <1>1, <1>3, <2>1, StageNames DEF KeysAreHeld, Holds
  <2> QED
    BY <1>3, <1>5, <1>6, <2>2, <2>3, <2>4, AdmissionPut
<1> QED
  BY <1>8, <1>9

\* The loop goes round or the request is refused.
LEMMA AttemptMoves ==
  ASSUME AdmissionIInv, NEW r \in Requests, NEW from \in {"look", "reclaim"}, NextAttempt(r, from),
         UNCHANGED <<attempt, outlived, mishaps>>, Quotas
  PROVE  /\ stage' \in [Requests -> Stages] /\ OneAtATime' /\ TurnsAreCounted' /\ QuotaOvershoot'
         /\ answer' \in [Requests -> Answers] /\ \A q \in Requests : Holds(q)' => Holds(q)
<1>0. AdmissionTypeOK /\ TurnsAreCounted
  BY DEF AdmissionIInv
<1>1. CASE attempt[r] < 3
  <2>1. Goes(r, from, "reserve") /\ answer' = answer
    BY <1>1 DEF NextAttempt
  <2>2. /\ stage' \in [Requests -> Stages] /\ stage[r] = from /\ stage'[r] = "reserve"
        /\ \A q \in Requests : q # r => stage'[q] = stage[q]
        /\ OneAtATime'
    BY <2>1, MovesOn, StageNames
  <2>3. TurnsAreCounted'
    BY <1>0, <1>1, <2>2 DEF TurnsAreCounted, AdmissionTypeOK
  <2>4. QuotaOvershoot'
    BY <2>2, QuotaKept DEF Quotas
  <2>5. answer' \in [Requests -> Answers] /\ \A q \in Requests : Holds(q)' => Holds(q)
    BY <1>0, <2>1, <2>2, StageNames DEF Holds, AdmissionTypeOK
  <2> QED
    BY <2>2, <2>3, <2>4, <2>5
<1>2. CASE ~(attempt[r] < 3)
  <2>1. Goes(r, from, "respond") /\ answer' = [answer EXCEPT ![r] = "conflict"]
    BY <1>2 DEF NextAttempt, Answered
  <2>2. /\ stage' \in [Requests -> Stages] /\ stage[r] = from /\ stage'[r] = "respond"
        /\ \A q \in Requests : q # r => stage'[q] = stage[q]
        /\ OneAtATime'
    BY <2>1, MovesOn, StageNames
  <2>3. TurnsAreCounted'
    BY <1>0, <2>2 DEF TurnsAreCounted
  <2>4. QuotaOvershoot'
    BY <2>2, QuotaKept DEF Quotas
  <2>5. answer' \in [Requests -> Answers] /\ \A q \in Requests : Holds(q)' => Holds(q)
    BY <1>0, <2>1, <2>2, StageNames, AnswersAre DEF Holds, AdmissionTypeOK
  <2> QED
    BY <2>2, <2>3, <2>4, <2>5
<1> QED
  BY <1>1, <1>2

\* Expired rows are taken out: none that somebody holds is among them.
LEMMA RowsGo ==
  ASSUME AdmissionIInv, outlived' = outlived, bare' = bare,
         entry' \in [AdmissionKeys -> Entry],
         \A k \in AdmissionKeys : entry'[k] = entry[k] \/ (entry'[k] = NoEntry /\ entry[k].id \in outlived),
         \A q \in Requests : Holds(q)' => Holds(q)
  PROVE  RowsAreOwned' /\ KeysAreHeld'
<1>1. RowsAreOwned'
  BY DEF AdmissionIInv, RowsAreOwned, NoEntry
<1>2. ASSUME NEW q \in Requests, Holds(q)', q \notin outlived, q \notin bare
      PROVE  entry'[KeyOf[q]].id = q
  <2>1. entry[KeyOf[q]].id = q /\ KeyOf[q] \in AdmissionKeys
    BY <1>2, AdmissionNumbers DEF AdmissionIInv, KeysAreHeld
  <2> QED
    BY <1>2, <2>1
<1> QED
  BY <1>1, <1>2 DEF KeysAreHeld

LEMMA ReclaimKeeps == ASSUME AdmissionIInv, NEW r \in Requests, ReserveReclaim(r) PROVE AdmissionIInv'
<1>0. AdmissionTypeOK
  BY DEF AdmissionIInv
<1>1. /\ NextAttempt(r, "reclaim") /\ UNCHANGED <<attempt, outlived, mishaps>> /\ Quotas
      /\ entry' = IF Expired(EntryOf(r)) THEN [entry EXCEPT ![KeyOf[r]] = NoEntry] ELSE entry
  BY DEF ReserveReclaim
<1>2. /\ stage' \in [Requests -> Stages] /\ OneAtATime' /\ TurnsAreCounted' /\ QuotaOvershoot'
      /\ answer' \in [Requests -> Answers] /\ \A q \in Requests : Holds(q)' => Holds(q)
  BY <1>1, AttemptMoves
<1>3. NoEntry \in Entry /\ entry \in [AdmissionKeys -> Entry]
  BY <1>0 DEF NoEntry, Entry, AdmissionTypeOK
<1>4. /\ entry' \in [AdmissionKeys -> Entry]
      /\ \A k \in AdmissionKeys : entry'[k] = entry[k] \/ (entry'[k] = NoEntry /\ entry[k].id \in outlived)
  BY <1>1, <1>3 DEF Expired, EntryOf
<1>5. RowsAreOwned' /\ KeysAreHeld'
  BY <1>1, <1>2, <1>4, RowsGo DEF Quotas
<1>6. AdmissionTypeOK'
  BY <1>0, <1>1, <1>2, <1>4 DEF AdmissionTypeOK, Quotas, Stages, Entry
<1> QED
  BY <1>2, <1>5, <1>6, AdmissionPut

LEMMA ReserveLookKeeps == ASSUME AdmissionIInv, NEW r \in Requests, ReserveLook(r) PROVE AdmissionIInv'
<1>0. AdmissionTypeOK /\ RowsAreOwned
  BY DEF AdmissionIInv
<1>1. UNCHANGED <<entry, attempt, outlived, mishaps>> /\ Quotas
  BY DEF ReserveLook
<1>2. entry \in [AdmissionKeys -> Entry] /\ EntryOf(r) = entry[KeyOf[r]] /\ KeyOf[r] \in AdmissionKeys
  BY <1>0, AdmissionNumbers DEF AdmissionTypeOK, Entry, EntryOf
<1>3. CASE NextAttempt(r, "look")
  <2>1. /\ stage' \in [Requests -> Stages] /\ OneAtATime' /\ TurnsAreCounted' /\ QuotaOvershoot'
        /\ answer' \in [Requests -> Answers] /\ \A q \in Requests : Holds(q)' => Holds(q)
    BY <1>1, <1>3, AttemptMoves
  <2>2. RowsAreOwned' /\ KeysAreHeld'
    BY <1>1, <1>2, <2>1, RowsGo DEF Quotas
  <2>3. AdmissionTypeOK'
    BY <1>0, <1>1, <2>1 DEF AdmissionTypeOK, Quotas, Stages
  <2> QED
    BY <2>1, <2>2, <2>3, AdmissionPut
<1>4. mishaps' \in 0 .. MaxMishaps
  BY <1>1, MishapIs
<1>5. CASE Goes(r, "look", "reclaim") /\ UNCHANGED answer
  <2>1. "look" \in Stages /\ "reclaim" \in Stages /\ "reclaim" \notin Handling /\ "none" \in Answers
    BY StageNames, AnswersAre
  <2> QED
    BY <1>1, <1>4, <1>5, <2>1, QuietStep
<1>6. ASSUME NEW a \in Answers, a # "accepted", Answered(r, "look", a) PROVE AdmissionIInv'
  <2>1. "look" \in Stages /\ "respond" \in Stages /\ "respond" \notin Handling
    BY StageNames
  <2>2. Goes(r, "look", "respond") /\ answer' = [answer EXCEPT ![r] = a]
    BY <1>6 DEF Answered
  <2> QED
    BY <1>1, <1>4, <1>6, <2>1, <2>2, QuietStep
<1>7. CASE EntryOf(r).status = "completed" /\ Answered(r, "look", EntryOf(r).task)
  <2>1. EntryOf(r).task \in Requests
    BY <1>0, <1>2, <1>7 DEF RowsAreOwned
  <2>2. PICK a : a = EntryOf(r).task
    OBVIOUS
  <2>3. a \in Answers /\ a # "accepted" /\ Answered(r, "look", a)
    BY <1>7, <2>1, <2>2, AdmissionAssumption, AnswersAre
  <2> QED
    BY <1>6, <2>3
<1>8. CASE Answered(r, "look", "conflict")
  BY <1>6, <1>8, AnswersAre
<1> QED
  BY <1>3, <1>5, <1>7, <1>8 DEF ReserveLook

-----------------------------------------------------------------------------
LEMMA FinishKeeps == ASSUME AdmissionIInv, NEW r \in Requests, Finish(r) \/ FinishLost(r) PROVE AdmissionIInv'
<1>0. AdmissionTypeOK /\ RowsAreOwned /\ TurnsAreCounted /\ KeysAreHeld
  BY DEF AdmissionIInv
<1>1. Goes(r, "respond", "done") /\ UNCHANGED <<attempt, answer, spent, tasks, bare>> /\ mishaps' \in 0 .. MaxMishaps
  BY MishapIs DEF Finish, FinishLost, Quotas
<1>2. /\ stage' \in [Requests -> Stages] /\ stage[r] = "respond" /\ stage'[r] = "done"
      /\ \A q \in Requests : q # r => stage'[q] = stage[q]
      /\ OneAtATime'
  BY <1>1, MovesOn, StageNames
<1>3. QuotaOvershoot' /\ TurnsAreCounted'
  BY <1>0, <1>1, <1>2, QuotaKept DEF TurnsAreCounted
<1>4. \A q \in Requests : Holds(q)' <=> Holds(q)
  BY <1>1, <1>2, StageNames DEF Holds
<1>5. /\ entry \in [AdmissionKeys -> Entry] /\ EntryOf(r) = entry[KeyOf[r]] /\ KeyOf[r] \in AdmissionKeys
      /\ NoEntry \in Entry
  BY <1>0, AdmissionNumbers DEF AdmissionTypeOK, Entry, EntryOf, NoEntry
<1>6. ASSUME entry' \in [AdmissionKeys -> Entry], outlived' \subseteq Requests, RowsAreOwned', KeysAreHeld'
      PROVE  AdmissionIInv'
  <2>1. AdmissionTypeOK'
    BY <1>0, <1>1, <1>2, <1>6 DEF AdmissionTypeOK, Stages, Entry
  <2> QED
    BY <1>2, <1>3, <1>6, <2>1, AdmissionPut
<1>7. CASE entry' = entry /\ outlived' = outlived
  <2>1. RowsAreOwned' /\ KeysAreHeld' /\ outlived' \subseteq Requests
    BY <1>0, <1>1, <1>4, <1>7 DEF RowsAreOwned, KeysAreHeld, AdmissionTypeOK
  <2> QED
    BY <1>5, <1>6, <1>7, <2>1
<1>8. CASE EntryOf(r) = Pending(r) /\ answer[r] = "accepted" /\ Finish(r)
  <2>1. PICK e : e = [entry[KeyOf[r]] EXCEPT !.status = "completed", !.task = r]
    OBVIOUS
  <2>2. entry[KeyOf[r]] \in Entry /\ entry[KeyOf[r]].id = r
    <3>1. entry[KeyOf[r]] \in Entry
      BY <1>5
    <3>2. entry[KeyOf[r]].id = r
      BY <1>5, <1>8 DEF Pending
    <3> QED
      BY <3>1, <3>2
  <2>3. e \in Entry /\ e.id = r /\ e.status = "completed" /\ e.task = r
    BY <2>1, <2>2 DEF Entry
  <2>4. Reserved(r)
    BY <1>8 DEF Reserved
  <2>5. entry' = Promoted(r) /\ outlived' = outlived \ {r}
    BY <1>8, <2>4 DEF Finish
  <2>6. entry' = [entry EXCEPT ![KeyOf[r]] = e]
    BY <1>5, <1>8, <2>1, <2>5 DEF Promoted
  <2>7. /\ entry' \in [AdmissionKeys -> Entry] /\ entry'[KeyOf[r]] = e
        /\ \A k \in AdmissionKeys : k # KeyOf[r] => entry'[k] = entry[k]
    BY <1>5, <2>3, <2>6
  <2>8. RowsAreOwned' /\ outlived' \subseteq Requests
    BY <1>0, <2>3, <2>5, <2>7 DEF RowsAreOwned, AdmissionTypeOK
  <2>9. ASSUME NEW q \in Requests, Holds(q)', q \notin outlived', q \notin bare'
        PROVE  entry'[KeyOf[q]].id = q
    <3>1. CASE q = r
      BY <2>3, <2>7, <3>1
    <3>2. CASE q # r
      <4>1. entry[KeyOf[q]].id = q
        BY <1>0, <1>1, <1>4, <2>5, <2>9, <3>2 DEF KeysAreHeld
      <4> QED
        BY <2>2, <2>7, <3>2, <4>1, AdmissionNumbers
    <3> QED
      BY <3>1, <3>2
  <2>10. KeysAreHeld'
    BY <2>9 DEF KeysAreHeld
  <2> QED
    BY <1>6, <2>7, <2>8, <2>10
<1>9. CASE EntryOf(r) = Pending(r) /\ answer[r] = "error" /\ Finish(r)
  <2>1. Reserved(r) /\ answer[r] # "accepted"
    BY <1>9 DEF Reserved
  <2>2. entry' = [entry EXCEPT ![KeyOf[r]] = NoEntry] /\ outlived' = outlived
    BY <1>9, <2>1 DEF Finish, Dropped
  <2>3. /\ entry' \in [AdmissionKeys -> Entry] /\ entry'[KeyOf[r]] = NoEntry
        /\ \A k \in AdmissionKeys : k # KeyOf[r] => entry'[k] = entry[k]
    BY <1>5, <2>2
  <2>4. RowsAreOwned' /\ outlived' \subseteq Requests
    BY <1>0, <2>2, <2>3 DEF RowsAreOwned, AdmissionTypeOK, NoEntry
  <2>5. ASSUME NEW q \in Requests, Holds(q)', q \notin outlived', q \notin bare'
        PROVE  entry'[KeyOf[q]].id = q
    <3>1. entry[KeyOf[q]].id = q /\ Holds(q)
      BY <1>0, <1>1, <1>4, <2>2, <2>5 DEF KeysAreHeld
    <3>2. q # r
      BY <1>2, <2>1, <3>1, StageNames DEF Holds
    <3>3. entry[KeyOf[r]].id = r
      BY <1>5, <1>9 DEF Pending
    <3> QED
      BY <2>3, <3>1, <3>2, <3>3, AdmissionNumbers
  <2>6. KeysAreHeld'
    BY <2>5 DEF KeysAreHeld
  <2> QED
    BY <1>6, <2>3, <2>4, <2>6
<1> QED
  BY <1>7, <1>8, <1>9 DEF Finish, FinishLost, Promoted, Dropped, Reserved

LEMMA WindowKeeps == ASSUME AdmissionIInv, NEW r \in Requests, LeaveWindow(r) PROVE AdmissionIInv'
<1>0. AdmissionTypeOK /\ RowsAreOwned /\ TurnsAreCounted /\ KeysAreHeld /\ OneAtATime
  BY DEF AdmissionIInv
<1>1. /\ UNCHANGED <<entry, stage, attempt, answer, outlived, bare, mishaps>>
      /\ spent' \subseteq spent /\ tasks' \subseteq tasks
  BY DEF LeaveWindow
<1>2. AdmissionTypeOK' /\ RowsAreOwned' /\ TurnsAreCounted' /\ OneAtATime' /\ KeysAreHeld'
  BY <1>0, <1>1 DEF AdmissionTypeOK, RowsAreOwned, TurnsAreCounted, OneAtATime, KeysAreHeld, Holds
<1>3. stage' \in [Requests -> Stages]
  BY <1>2 DEF AdmissionTypeOK, Stages
<1>4. QuotaOvershoot'
  BY <1>1, <1>3, QuotaKept
<1> QED
  BY <1>2, <1>4, AdmissionPut

LEMMA CrashKeeps == ASSUME AdmissionIInv, NEW p \in Processes, ProcessCrash(p) PROVE AdmissionIInv'
<1>0. AdmissionTypeOK /\ RowsAreOwned /\ TurnsAreCounted /\ KeysAreHeld /\ OneAtATime
  BY DEF AdmissionIInv
<1>1. PICK lost : lost = {r \in Requests : ProcessOf[r] = p /\ stage[r] \notin {"new", "done"}}
  OBVIOUS
<1>2. /\ stage' = [r \in Requests |-> IF r \in lost THEN "done" ELSE stage[r]]
      /\ answer' = [r \in Requests |-> IF r \in lost /\ answer[r] = "none" THEN "crashed" ELSE answer[r]]
      /\ UNCHANGED <<entry, attempt, outlived, spent, tasks, bare>> /\ mishaps' \in 0 .. MaxMishaps
  BY <1>1, MishapIs DEF ProcessCrash, Quotas
<1>3. /\ stage' \in [Requests -> Stages] /\ answer' \in [Requests -> Answers]
      /\ \A r \in Requests : stage'[r] = stage[r] \/ stage'[r] = "done"
  BY <1>0, <1>2, StageNames, AnswersAre DEF AdmissionTypeOK, Stages
<1>4. AdmissionTypeOK' /\ RowsAreOwned' /\ TurnsAreCounted' /\ OneAtATime'
  BY <1>0, <1>2, <1>3 DEF AdmissionTypeOK, RowsAreOwned, TurnsAreCounted, OneAtATime, Stages, Running
<1>5. \A q \in Requests : Holds(q)' => Holds(q)
  BY <1>2, <1>3, StageNames DEF Holds
<1>6. KeysAreHeld'
  BY <1>0, <1>2, <1>5 DEF KeysAreHeld
<1>7. QuotaOvershoot'
  BY <1>2, <1>3, QuotaKept
<1> QED
  BY <1>4, <1>6, <1>7, AdmissionPut

LEMMA ExpiryKeeps ==
  ASSUME AdmissionIInv, Cleanup \/ \E k \in AdmissionKeys : Expire(k)
  PROVE  AdmissionIInv'
<1>0. AdmissionTypeOK /\ RowsAreOwned /\ TurnsAreCounted /\ KeysAreHeld /\ OneAtATime
  BY DEF AdmissionIInv
<1>1. UNCHANGED <<stage, attempt, answer, mishaps, spent, tasks, bare>>
  BY DEF Cleanup, Expire, Quotas
<1>2. /\ stage' \in [Requests -> Stages] /\ TurnsAreCounted' /\ OneAtATime' /\ \A q \in Requests : Holds(q)' <=> Holds(q)
  BY <1>0, <1>1 DEF AdmissionTypeOK, Stages, TurnsAreCounted, OneAtATime, Holds
<1>3. QuotaOvershoot'
  BY <1>1, <1>2, QuotaKept
<1>4. NoEntry \in Entry /\ entry \in [AdmissionKeys -> Entry]
  BY <1>0 DEF NoEntry, Entry, AdmissionTypeOK
<1>5. CASE Cleanup
  <2>1. /\ entry' = [k \in AdmissionKeys |-> IF Expired(entry[k]) THEN NoEntry ELSE entry[k]]
        /\ outlived' = outlived
    BY <1>5 DEF Cleanup
  <2>2. /\ entry' \in [AdmissionKeys -> Entry]
        /\ \A k \in AdmissionKeys : entry'[k] = entry[k] \/ (entry'[k] = NoEntry /\ entry[k].id \in outlived)
    BY <1>4, <2>1 DEF Expired
  <2>3. RowsAreOwned' /\ KeysAreHeld'
    BY <1>1, <1>2, <2>1, <2>2, RowsGo
  <2>4. AdmissionTypeOK'
    BY <1>0, <1>1, <2>1, <2>2 DEF AdmissionTypeOK, Entry
  <2> QED
    BY <1>2, <1>3, <2>3, <2>4, AdmissionPut
<1>6. ASSUME NEW k \in AdmissionKeys, Expire(k) PROVE AdmissionIInv'
  <2>1. entry' = entry /\ outlived' = outlived \cup {entry[k].id} /\ entry[k].id \in Requests
    BY <1>0, <1>6 DEF Expire, RowsAreOwned
  <2>2. AdmissionTypeOK' /\ RowsAreOwned'
    BY <1>0, <1>1, <2>1 DEF AdmissionTypeOK, RowsAreOwned
  <2>3. KeysAreHeld'
    BY <1>0, <1>1, <1>2, <2>1 DEF KeysAreHeld
  <2> QED
    BY <1>2, <1>3, <2>2, <2>3, AdmissionPut
<1> QED
  BY <1>5, <1>6

LEMMA AdmissionSteps == AdmissionIInv /\ [AdmissionNext]_admissionVars => AdmissionIInv'
<1> SUFFICES ASSUME AdmissionIInv, [AdmissionNext]_admissionVars PROVE AdmissionIInv'
  OBVIOUS
<1>1. ASSUME NEW r \in Requests,
             \/ Arrive(r) \/ ReserveFails(r) \/ ReserveInsert(r) \/ ReserveLook(r) \/ ReserveReclaim(r)
             \/ Gate(r) \/ CountEvents(r) \/ Consume(r) \/ DailyQuota(r) \/ CreateTask(r) \/ Enqueue(r)
             \/ Finish(r) \/ FinishLost(r) \/ LeaveWindow(r)
      PROVE  AdmissionIInv'
  BY <1>1, ArriveKeeps, ReserveFailsKeeps, ReserveInsertKeeps, ReserveLookKeeps, ReclaimKeeps, GateRequestKeeps, CountEventsKeeps,
     ConsumeQuotaKeeps, DailyKeeps, CreateTaskKeeps, EnqueueTaskKeeps, FinishKeeps, WindowKeeps
<1>2. ASSUME NEW p \in Processes, ProcessCrash(p) PROVE AdmissionIInv'
  BY <1>2, CrashKeeps
<1>3. CASE Cleanup \/ \E k \in AdmissionKeys : Expire(k)
  BY <1>3, ExpiryKeeps
<1>4. CASE UNCHANGED admissionVars
  BY <1>4 DEF admissionVars, AdmissionIInv, AdmissionTypeOK, RowsAreOwned, TurnsAreCounted, OneAtATime,
              KeysAreHeld, Holds, QuotaOvershoot
<1> QED
  BY <1>1, <1>2, <1>3, <1>4 DEF AdmissionNext

LEMMA AdmissionImplied == AdmissionIInv => AdmissionInv
<1> SUFFICES ASSUME AdmissionIInv PROVE AdmissionInv
  OBVIOUS
<1>1. AcceptedOnce
  BY DEF AdmissionIInv, KeysAreHeld, Holds, AcceptedOnce
<1>2. StoredIsOwn
  BY DEF AdmissionIInv, RowsAreOwned, StoredIsOwn
<1> QED
  BY <1>1, <1>2 DEF AdmissionIInv, AdmissionInv

\* For any requests, keys, processes and limits: of the requests with one key a second is
\* accepted only after the row of the first has expired or without a reservation, a stored
\* response is that of the request that holds the key, and a wallet exceeds a quota by no
\* more than one request for every further process.
THEOREM AdmissionHolds == AdmissionSpec => []AdmissionInv
<1>1. AdmissionInit => AdmissionIInv
  BY AdmissionStarts
<1>2. AdmissionIInv /\ [AdmissionNext]_admissionVars => AdmissionIInv'
  BY AdmissionSteps
<1>3. AdmissionIInv => AdmissionInv
  BY AdmissionImplied
<1> QED
  BY <1>1, <1>2, <1>3, PTL DEF AdmissionSpec

-----------------------------------------------------------------------------
Ledgers == [open : BOOLEAN, used : Nat, reserved : Nat, held : [Spenders -> Nat],
            calls : [Spenders -> Nat], over : Nat]

\* The pool is debited by what the nodes hold.
Balances(l) == l.reserved = SumOver(l.held)

\* A node that may still report has not yet, in this run; and with no ledger nothing is
\* under way and nothing spent.
RunStands ==
  /\ \A n \in Spenders : spender[n] \in {"pending", "reserved", "calling"} =>
                           ledger.open /\ ledger.calls[n] = 0
  /\ ~ledger.open => ledger = NoLedger

BudgetIInv == BudgetInv /\ RunStands

LEMMA BudgetNumbers ==
  /\ TaskCap \in Nat \ {0} /\ CallCap \in Nat \ {0} /\ DefaultCall \in Nat \ {0} /\ MaxBudgetRuns \in Nat \ {0}
BY BudgetAssumption

LEMMA MinusIs ==
  ASSUME NEW a \in Nat, NEW b \in Nat
  PROVE  /\ Minus(a, b) \in Nat /\ a <= b + Minus(a, b) /\ (b <= a => Minus(a, b) = a - b)
         /\ Minus(a, b) > 0 => a = b + Minus(a, b)
BY DEF Minus

LEMMA AllowanceIs ==
  ASSUME NEW l \in Ledgers
  PROVE  /\ Available(l) \in Nat /\ Allowance(l) \in 0 .. CallCap
         /\ Available(l) > 0 => l.used + l.reserved + Available(l) = TaskCap
<1>1. TaskCap \in Nat /\ CallCap \in Nat /\ l.used \in Nat /\ l.reserved \in Nat
  BY BudgetNumbers DEF Ledgers
<1>2. Available(l) \in Nat
  BY <1>1, MinusIs DEF Available
<1>3. Available(l) > 0 => l.used + l.reserved + Available(l) = TaskCap
  BY <1>1 DEF Available, Minus
<1> QED
  BY <1>1, <1>2, <1>3 DEF Allowance, Lesser

LEMMA NoLedgerIs ==
  /\ NoLedger \in Ledgers /\ Balances(NoLedger)
  /\ NoLedger.used = 0 /\ NoLedger.reserved = 0 /\ NoLedger.over = 0
  /\ \A n \in Spenders : NoLedger.held[n] = 0 /\ NoLedger.calls[n] = 0
<1>1. /\ NoLedger \in Ledgers
      /\ NoLedger.used = 0 /\ NoLedger.reserved = 0 /\ NoLedger.over = 0
      /\ \A n \in Spenders : NoLedger.held[n] = 0 /\ NoLedger.calls[n] = 0
  BY DEF NoLedger, Ledgers
<1>2. SumOver(NoLedger.held) = 0
  BY <1>1, BudgetAssumption, SumZero DEF SumOver
<1> QED
  BY <1>1, <1>2 DEF Balances

\* No node holds more than the pool is debited by.
LEMMA HeldIsReserved ==
  ASSUME NEW l \in Ledgers, Balances(l), NEW n \in Spenders
  PROVE  l.held[n] \in Nat /\ l.held[n] <= l.reserved
<1>1. \A m \in Spenders : l.held[m] \in Nat
  BY DEF Ledgers
<1>2. SumFunctionOnSet(l.held, Spenders) = l.held[n] + SumFunctionOnSet(l.held, Spenders \ {n})
  BY <1>1, BudgetAssumption, SumTake, \A m \in Spenders : l.held[m] \in Int
<1>3. IsFiniteSet(Spenders \ {n})
  BY BudgetAssumption, FS_RemoveElement
<1>4. SumFunctionOnSet(l.held, Spenders \ {n}) \in Nat
  BY <1>1, <1>3, SumNat
<1> QED
  BY <1>1, <1>2, <1>4 DEF Balances, SumOver

\* Another claim for one node, and the pool follows.
LEMMA ClaimChanges ==
  ASSUME NEW l \in Ledgers, Balances(l), NEW n \in Spenders, NEW k \in Ledgers, NEW h \in Nat,
         k.held = [l.held EXCEPT ![n] = h], k.reserved = l.reserved + h - l.held[n]
  PROVE  Balances(k)
<1>1. \A m \in Spenders : l.held[m] \in Int /\ k.held[m] \in Int
  BY DEF Ledgers
<1>2. l.held \in [Spenders -> Nat]
  BY DEF Ledgers
<1>3. k.held[n] = h /\ \A m \in Spenders : m # n => k.held[m] = l.held[m]
  BY <1>2
<1>4. PICK f, g : f = l.held /\ g = k.held
  OBVIOUS
<1>5. SumFunctionOnSet(g, Spenders) = SumFunctionOnSet(f, Spenders) + g[n] - f[n]
  <2>1. \A x \in Spenders : f[x] \in Int /\ g[x] \in Int
    BY <1>1, <1>4
  <2>2. \A y \in Spenders : y # n => g[y] = f[y]
    BY <1>3, <1>4
  <2> QED
    BY <2>1, <2>2, BudgetAssumption, SumChange
<1> QED
  BY <1>3, <1>4, <1>5 DEF Balances, SumOver

LEMMA TakenIs ==
  ASSUME NEW l \in Ledgers, Balances(l), NEW n \in Spenders, l.held[n] = 0, Available(l) > 0
  PROVE  LET k == ClaimTaken(l, n, Allowance(l)) IN
         /\ k \in Ledgers /\ Balances(k)
         /\ k.open = l.open /\ k.used = l.used /\ k.calls = l.calls /\ k.over = l.over
         /\ \A m \in Spenders : m # n => k.held[m] = l.held[m]
         /\ k.used + k.reserved <= TaskCap
<1> DEFINE granted == Lesser(Lesser(Allowance(l), Available(l)), Lesser(CallCap, TaskCap))
           k == ClaimTaken(l, n, Allowance(l))
<1>1. granted \in Nat /\ granted <= Available(l)
  BY AllowanceIs, BudgetNumbers DEF Lesser
<1>2. Greater(l.held[n], granted) = granted
  BY <1>1 DEF Greater
<1>3. k = [l EXCEPT !.reserved = l.reserved + granted, !.held = [l.held EXCEPT ![n] = granted]]
  BY <1>2 DEF ClaimTaken
<1> HIDE DEF granted, k
<1>4. l.reserved + granted \in Nat /\ [l.held EXCEPT ![n] = granted] \in [Spenders -> Nat]
  BY <1>1 DEF Ledgers
<1>5. /\ k \in Ledgers /\ k.held = [l.held EXCEPT ![n] = granted] /\ k.reserved = l.reserved + granted
      /\ k.open = l.open /\ k.used = l.used /\ k.calls = l.calls /\ k.over = l.over
  BY <1>3, <1>4 DEF Ledgers
<1>6. k.reserved = l.reserved + granted - l.held[n]
  BY <1>1, <1>5 DEF Ledgers
<1>7. Balances(k)
  BY <1>1, <1>5, <1>6, ClaimChanges
<1>8. k.used + k.reserved <= TaskCap
  BY <1>1, <1>5, AllowanceIs, BudgetNumbers DEF Ledgers
<1>9. \A m \in Spenders : m # n => k.held[m] = l.held[m]
  BY <1>5 DEF Ledgers
<1> QED
  BY <1>5, <1>7, <1>8, <1>9 DEF k

LEMMA UnclaimedIs ==
  ASSUME NEW l \in Ledgers, Balances(l), NEW n \in Spenders
  PROVE  LET k == Unclaimed(l, n) IN
         /\ k \in Ledgers /\ Balances(k)
         /\ k.open = l.open /\ k.used = l.used /\ k.calls = l.calls /\ k.over = l.over
         /\ k.held[n] = 0 /\ \A m \in Spenders : m # n => k.held[m] = l.held[m]
         /\ k.reserved = l.reserved - l.held[n]
<1> DEFINE k == Unclaimed(l, n)
<1>1. l.reserved \in Nat /\ l.held[n] \in Nat /\ l.held[n] <= l.reserved
  BY HeldIsReserved DEF Ledgers
<1>2. Minus(l.reserved, l.held[n]) = l.reserved - l.held[n] /\ l.reserved - l.held[n] \in Nat
  BY <1>1, MinusIs
<1>3. k = [l EXCEPT !.reserved = l.reserved - l.held[n], !.held = [l.held EXCEPT ![n] = 0]]
  BY <1>2 DEF Unclaimed
<1> HIDE DEF k
<1>4. [l.held EXCEPT ![n] = 0] \in [Spenders -> Nat]
  BY DEF Ledgers
<1>5. /\ k \in Ledgers /\ k.held = [l.held EXCEPT ![n] = 0] /\ k.reserved = l.reserved - l.held[n]
      /\ k.open = l.open /\ k.used = l.used /\ k.calls = l.calls /\ k.over = l.over
  BY <1>2, <1>3, <1>4 DEF Ledgers
<1>6. k.reserved = l.reserved + 0 - l.held[n]
  BY <1>1, <1>5
<1>7. Balances(k)
  BY <1>5, <1>6, ClaimChanges
<1>8. k.held[n] = 0 /\ \A m \in Spenders : m # n => k.held[m] = l.held[m]
  BY <1>5 DEF Ledgers
<1> QED
  BY <1>5, <1>7, <1>8 DEF k

LEMMA AddedIs ==
  ASSUME NEW l \in Ledgers, Balances(l), NEW n \in Spenders, NEW amount \in Nat
  PROVE  LET k == UnlessCalled(UsageAdded(l, n, amount), n) IN
         /\ k \in Ledgers /\ Balances(k)
         /\ k.open = l.open /\ k.used = l.used + amount
         /\ k.held[n] = 0 /\ \A m \in Spenders : m # n => k.held[m] = l.held[m] /\ k.calls[m] = l.calls[m]
         /\ l.used + l.reserved <= TaskCap + l.over => k.used + k.reserved <= TaskCap + k.over
<1> DEFINE k == UsageAdded(l, n, amount)
<1>1. PICK u : u = Unclaimed(l, n)
  OBVIOUS
<1>2. /\ u \in Ledgers /\ Balances(u)
      /\ u.open = l.open /\ u.used = l.used /\ u.calls = l.calls /\ u.over = l.over
      /\ u.held[n] = 0 /\ u.reserved = l.reserved - l.held[n]
  BY <1>1, UnclaimedIs
<1>2a. \A m \in Spenders : m # n => u.held[m] = l.held[m]
  BY <1>1, UnclaimedIs
<1>3. PICK beyond : beyond = Minus(amount, l.held[n])
  OBVIOUS
<1>4. l.held[n] \in Nat /\ beyond \in Nat /\ amount <= l.held[n] + beyond
  BY <1>3, HeldIsReserved, MinusIs
<1>5. k = [u EXCEPT !.used = u.used + amount, !.calls = [u.calls EXCEPT ![n] = u.calls[n] + 1],
                    !.over = u.over + beyond]
  BY <1>1, <1>3 DEF UsageAdded
<1> HIDE DEF k
<1>6. /\ u.used + amount \in Nat /\ u.over + beyond \in Nat
      /\ [u.calls EXCEPT ![n] = u.calls[n] + 1] \in [Spenders -> Nat] /\ u.calls[n] \in Nat
  BY <1>2, <1>4 DEF Ledgers
<1>7. /\ k \in Ledgers /\ k.held = u.held /\ k.reserved = u.reserved /\ k.open = u.open
      /\ k.used = u.used + amount /\ k.over = u.over + beyond
      /\ k.calls = [u.calls EXCEPT ![n] = u.calls[n] + 1]
  BY <1>2, <1>5, <1>6 DEF Ledgers
<1>8. k.calls[n] # 0 /\ \A m \in Spenders : m # n => k.calls[m] = l.calls[m]
  BY <1>2, <1>6, <1>7 DEF Ledgers
<1>9. UnlessCalled(k, n) = k
  BY <1>8 DEF UnlessCalled
<1>10. Balances(k)
  BY <1>2, <1>7 DEF Balances
<1>11. l.used + l.reserved <= TaskCap + l.over => k.used + k.reserved <= TaskCap + k.over
  BY <1>2, <1>4, <1>7, BudgetNumbers DEF Ledgers
<1>12. /\ k.open = l.open /\ k.used = l.used + amount
       /\ k.held[n] = 0 /\ \A m \in Spenders : m # n => k.held[m] = l.held[m] /\ k.calls[m] = l.calls[m]
  BY <1>2, <1>2a, <1>7, <1>8
<1>13. k = UsageAdded(l, n, amount)
  BY DEF k
<1> QED
  BY <1>7, <1>9, <1>10, <1>11, <1>12, <1>13

-----------------------------------------------------------------------------
BudgetParts ==
  /\ ledger \in Ledgers /\ Balances(ledger)
  /\ spender \in [Spenders -> SpenderStages]
  /\ told \in [Spenders -> 0 .. CallCap]
  /\ costRow \in Nat /\ charged \in Nat /\ forgotten \in Nat /\ burnt \in Nat
  /\ budgetRun \in 0 .. MaxBudgetRuns
  /\ \A n \in Spenders : ledger.held[n] > 0 => spender[n] \in {"reserved", "calling"}
  /\ ClaimsWithinCap /\ EveryTokenCharged

LEMMA PartsOfBudget == BudgetInv <=> BudgetParts
BY DEF BudgetInv, BudgetParts, BudgetTypeOK, ClaimsAddUp, Balances, Ledgers

LEMMA BudgetStarts == BudgetInit => BudgetIInv
<1> SUFFICES ASSUME BudgetInit PROVE BudgetIInv
  OBVIOUS
<1>1. BudgetParts
  <2>1. \A n \in Spenders : ~(ledger.held[n] > 0)
    BY NoLedgerIs DEF BudgetInit
  <2>2. ledger.used + ledger.reserved <= TaskCap + ledger.over
    BY NoLedgerIs, BudgetNumbers DEF BudgetInit
  <2>3. burnt = charged + forgotten + ledger.used
    BY NoLedgerIs DEF BudgetInit
  <2> QED
    BY <2>1, <2>2, <2>3, NoLedgerIs, BudgetNumbers DEF BudgetInit, BudgetParts, SpenderStages, ClaimsWithinCap, EveryTokenCharged
<1>2. RunStands
  BY DEF BudgetInit, RunStands
<1> QED
  BY <1>1, <1>2, PartsOfBudget DEF BudgetIInv

\* A step of node n in a run whose ledger is l afterwards.
LEMMA NodeSteps ==
  ASSUME BudgetIInv, NEW n \in Spenders, NEW to \in SpenderStages, NEW l \in Ledgers,
         spender[n] \in {"pending", "reserved", "calling"}, spender' = [spender EXCEPT ![n] = to],
         ledger' = l, told' \in [Spenders -> 0 .. CallCap], Accounts, burnt' \in Nat,
         Balances(l), l.open = ledger.open,
         l.held[n] > 0 => to \in {"reserved", "calling"},
         to \in {"pending", "reserved", "calling"} => l.calls[n] = ledger.calls[n],
         \A m \in Spenders : m # n => l.held[m] = ledger.held[m] /\ l.calls[m] = ledger.calls[m],
         l.used + l.reserved <= TaskCap + l.over,
         burnt' - l.used = burnt - ledger.used
  PROVE  BudgetIInv'
<1>1. BudgetParts /\ RunStands
  BY PartsOfBudget DEF BudgetIInv
<1>2. BudgetParts'
  <2>1. spender' \in [Spenders -> SpenderStages]
    BY <1>1 DEF BudgetParts
  <2>2. \A m \in Spenders : ledger'.held[m] > 0 => spender'[m] \in {"reserved", "calling"}
    BY <1>1 DEF BudgetParts
  <2>3. burnt' = charged' + forgotten' + ledger'.used
    BY <1>1 DEF BudgetParts, EveryTokenCharged, Accounts, Ledgers
  <2> QED
    BY <1>1, <2>1, <2>2, <2>3 DEF BudgetParts, Accounts, ClaimsWithinCap, EveryTokenCharged, Balances, SumOver
<1>3. RunStands'
  <2>1. ledger.open
    BY <1>1 DEF RunStands
  <2>2. \A m \in Spenders : spender'[m] \in {"pending", "reserved", "calling"} => l.calls[m] = 0
    BY <1>1 DEF BudgetParts, RunStands
  <2> QED
    BY <2>1, <2>2 DEF RunStands
<1> QED
  BY <1>2, <1>3, PartsOfBudget DEF BudgetIInv, BudgetInv, BudgetParts, BudgetTypeOK, ClaimsAddUp, Balances, Ledgers

LEMMA LedgerStands ==
  ASSUME BudgetIInv
  PROVE  /\ ledger \in Ledgers /\ Balances(ledger)
         /\ ledger.used + ledger.reserved <= TaskCap + ledger.over
         /\ \A n \in Spenders : spender[n] = "pending" => ledger.held[n] = 0
         /\ \A n \in Spenders : spender[n] \in {"reserved", "calling"} => ledger.calls[n] = 0
         /\ told \in [Spenders -> 0 .. CallCap] /\ burnt \in Nat /\ ledger.used \in Nat
<1>1. BudgetParts /\ RunStands
  BY PartsOfBudget DEF BudgetIInv
<1>2. \A n \in Spenders : spender[n] = "pending" => ledger.held[n] = 0
  BY <1>1 DEF BudgetParts, Ledgers
<1> QED
  BY <1>1, <1>2 DEF BudgetParts, RunStands, ClaimsWithinCap, Ledgers

LEMMA StagesAre == {"pending", "reserved", "calling", "completed", "failed"} \subseteq SpenderStages
BY DEF SpenderStages

LEMMA GateSpendKeeps == ASSUME BudgetIInv, NEW n \in Spenders, GateSpend(n) PROVE BudgetIInv'
<1>1. spender[n] = "pending" /\ told' = told /\ burnt' = burnt /\ Accounts
  BY DEF GateSpend, InRun, HaltForBudget
<1>2. CASE /\ Available(ledger) > 0 /\ InRun(n, "pending", "reserved")
           /\ ledger' = ClaimTaken(ledger, n, Allowance(ledger))
  <2>1. PICK l : l = ClaimTaken(ledger, n, Allowance(ledger))
    OBVIOUS
  <2>2. /\ l \in Ledgers /\ Balances(l) /\ l.open = ledger.open
        /\ l.used = ledger.used /\ l.calls = ledger.calls
        /\ \A m \in Spenders : m # n => l.held[m] = ledger.held[m]
    BY <1>1, <1>2, <2>1, LedgerStands, TakenIs
  <2>3. l.used + l.reserved <= TaskCap + l.over
    <3>1. l.used + l.reserved <= TaskCap /\ l.over \in Nat
      BY <1>1, <1>2, <2>1, <2>2, LedgerStands, TakenIs DEF Ledgers
    <3> QED
      BY <2>2, <3>1, BudgetNumbers DEF Ledgers
  <2>4. burnt' - l.used = burnt - ledger.used /\ burnt' \in Nat /\ told' \in [Spenders -> 0 .. CallCap]
    BY <1>1, <2>2, LedgerStands
  <2>5. "reserved" \in SpenderStages /\ ledger' = l /\ spender' = [spender EXCEPT ![n] = "reserved"]
    BY <1>2, <2>1, StagesAre DEF InRun
  <2> QED
    BY <1>1, <2>2, <2>3, <2>4, <2>5, NodeSteps
<1>3. CASE HaltForBudget(n, "pending", ledger)
  <2>1. "failed" \in SpenderStages /\ ledger' = ledger /\ spender' = [spender EXCEPT ![n] = "failed"]
    BY <1>3, StagesAre DEF HaltForBudget, InRun
  <2>2. PICK l : l = ledger
    OBVIOUS
  <2>3. /\ l \in Ledgers /\ Balances(l) /\ l.used + l.reserved <= TaskCap + l.over
        /\ ~(l.held[n] > 0) /\ burnt' - l.used = burnt - ledger.used
        /\ burnt' \in Nat /\ told' \in [Spenders -> 0 .. CallCap]
    BY <1>1, <2>2, LedgerStands
  <2> QED
    BY <1>1, <2>1, <2>2, <2>3, NodeSteps
<1> QED
  BY <1>2, <1>3 DEF GateSpend

\* A step between reserving and calling, which leaves the ledger alone.
LEMMA DispatchKeeps ==
  ASSUME BudgetIInv, NEW n \in Spenders, SendAllowance(n) \/ RetryCall(n)
  PROVE  BudgetIInv'
<1>1. PICK to \in {"reserved", "calling"} : spender' = [spender EXCEPT ![n] = to]
  BY DEF SendAllowance, RetryCall, InRun
<1>2. /\ spender[n] \in {"pending", "reserved", "calling"} /\ ledger' = ledger /\ burnt' = burnt /\ Accounts
      /\ to \in SpenderStages
  BY <1>1, StagesAre DEF SendAllowance, RetryCall, InRun
<1>3. Allowance(ledger) \in 0 .. CallCap /\ 0 \in 0 .. CallCap
  BY LedgerStands, AllowanceIs, BudgetNumbers
<1>4. told' \in [Spenders -> 0 .. CallCap]
  BY <1>3, LedgerStands DEF SendAllowance, RetryCall
<1>5. PICK l : l = ledger
  OBVIOUS
<1>6. /\ l \in Ledgers /\ Balances(l) /\ l.used + l.reserved <= TaskCap + l.over
      /\ burnt' - l.used = burnt - ledger.used /\ burnt' \in Nat
  BY <1>2, <1>5, LedgerStands
<1> QED
  BY <1>1, <1>2, <1>4, <1>5, <1>6, NodeSteps

LEMMA CallFailsKeeps == ASSUME BudgetIInv, NEW n \in Spenders, CallFails(n) PROVE BudgetIInv'
<1>1. /\ spender[n] \in {"reserved", "calling"} /\ spender' = [spender EXCEPT ![n] = "failed"]
      /\ told' = [told EXCEPT ![n] = 0] /\ burnt' = burnt /\ Accounts /\ "failed" \in SpenderStages
      /\ ledger' = UnlessCalled(ledger, n)
  BY StagesAre DEF CallFails, InRun
<1>2. PICK l : l = Unclaimed(ledger, n)
  OBVIOUS
<1>3. ledger' = l
  BY <1>1, <1>2, LedgerStands DEF UnlessCalled
<1>4. /\ l \in Ledgers /\ Balances(l)
      /\ l.open = ledger.open /\ l.used = ledger.used /\ l.calls = ledger.calls /\ l.over = ledger.over
      /\ l.held[n] = 0
      /\ \A m \in Spenders : m # n => l.held[m] = ledger.held[m]
  BY <1>2, LedgerStands, UnclaimedIs
<1>5. l.reserved = ledger.reserved - ledger.held[n] /\ ledger.held[n] \in Nat
  BY <1>2, LedgerStands, UnclaimedIs, HeldIsReserved
<1>6. l.used + l.reserved <= TaskCap + l.over
  BY <1>4, <1>5, LedgerStands, BudgetNumbers DEF Ledgers
<1>7. /\ told' \in [Spenders -> 0 .. CallCap] /\ burnt' \in Nat
      /\ burnt' - l.used = burnt - ledger.used
  BY <1>1, <1>4, LedgerStands, BudgetNumbers
<1>8. ~(l.held[n] > 0)
  BY <1>4
<1> QED
  BY <1>1, <1>3, <1>4, <1>6, <1>7, <1>8, NodeSteps

LEMMA CallReportsKeeps ==
  ASSUME BudgetIInv, NEW n \in Spenders, NEW amount \in 0 .. MostTokens, CallReports(n, amount)
  PROVE  BudgetIInv'
<1>0. amount \in Nat
  BY BudgetNumbers DEF MostTokens
<1>1. PICK l : l = UnlessCalled(UsageAdded(ledger, n, amount), n)
  OBVIOUS
<1>2. PICK to \in {"completed", "failed"} : spender' = [spender EXCEPT ![n] = to]
  BY DEF CallReports, HaltForBudget, InRun
<1>3. /\ spender[n] = "calling" /\ ledger' = l
      /\ told' = [told EXCEPT ![n] = 0] /\ burnt' = burnt + amount /\ Accounts /\ to \in SpenderStages
  BY <1>1, StagesAre DEF CallReports, HaltForBudget, InRun
<1>4. /\ l \in Ledgers /\ Balances(l)
      /\ l.open = ledger.open /\ l.used = ledger.used + amount
      /\ l.held[n] = 0
      /\ l.used + l.reserved <= TaskCap + l.over
  BY <1>0, <1>1, LedgerStands, AddedIs
<1>5. \A m \in Spenders : m # n => l.held[m] = ledger.held[m] /\ l.calls[m] = ledger.calls[m]
  <2>1. ledger \in Ledgers /\ Balances(ledger)
    BY LedgerStands
  <2> QED
    BY <1>0, <1>1, <2>1, AddedIs
<1>6. /\ told' \in [Spenders -> 0 .. CallCap] /\ burnt' \in Nat
      /\ burnt' - l.used = burnt - ledger.used
  BY <1>0, <1>3, <1>4, LedgerStands, BudgetNumbers
<1>7. ~(l.held[n] > 0)
  BY <1>4
<1> QED
  BY <1>2, <1>3, <1>4, <1>5, <1>6, <1>7, NodeSteps

-----------------------------------------------------------------------------
LEMMA BudgetSteps == BudgetIInv /\ [BudgetNext]_budgetVars => BudgetIInv'
<1> SUFFICES ASSUME BudgetIInv, [BudgetNext]_budgetVars PROVE BudgetIInv'
  OBVIOUS
<1>0. BudgetParts /\ RunStands
  BY PartsOfBudget DEF BudgetIInv
<1>00. ASSUME BudgetParts', RunStands' PROVE BudgetIInv'
  BY <1>00 DEF BudgetIInv, BudgetInv, BudgetParts, BudgetTypeOK, ClaimsAddUp, Balances, Ledgers
<1>1. CASE StartBudgetRun
  <2>1. PICK l : l = [NoLedger EXCEPT !.open = TRUE]
    OBVIOUS
  <2>2. /\ l \in Ledgers /\ l.open /\ l.used = 0 /\ l.reserved = 0 /\ l.over = 0
        /\ l.held = NoLedger.held /\ l.calls = NoLedger.calls
    BY <2>1, NoLedgerIs DEF Ledgers
  <2>3. Balances(l) /\ \A n \in Spenders : l.held[n] = 0 /\ l.calls[n] = 0
    BY <2>2, NoLedgerIs DEF Balances
  <2>4. ledger' = l /\ ledger.used = 0 /\ ledger = NoLedger
    BY <1>0, <1>1, <2>1, NoLedgerIs DEF StartBudgetRun, RunStands
  <2>5. spender' \in [Spenders -> SpenderStages] /\ budgetRun' \in 0 .. MaxBudgetRuns
    BY <1>0, <1>1, StagesAre, BudgetNumbers DEF StartBudgetRun, BudgetParts
  <2>6. burnt' = charged' + forgotten' + ledger'.used
    BY <1>0, <1>1, <2>2, <2>4 DEF StartBudgetRun, BudgetParts, EveryTokenCharged
  <2>7. ledger'.used + ledger'.reserved <= TaskCap + ledger'.over
    BY <2>2, <2>4, BudgetNumbers
  <2>8. BudgetParts'
    BY <1>0, <1>1, <2>2, <2>3, <2>4, <2>5, <2>6, <2>7 DEF StartBudgetRun, BudgetParts, EveryTokenCharged, ClaimsWithinCap, Balances, SumOver
  <2>9. RunStands'
    BY <2>2, <2>3, <2>4 DEF RunStands
  <2> QED
    BY <1>00, <2>8, <2>9
<1>2. CASE FlushCosts
  BY <1>0, <1>00, <1>2 DEF FlushCosts, BudgetParts, RunStands, ClaimsWithinCap, EveryTokenCharged, Balances, Ledgers, SumOver
<1>3. CASE SettleCost
  <2>1. ledger' = NoLedger
    BY <1>3 DEF SettleCost
  <2>2. burnt' = charged' + forgotten' + ledger'.used /\ charged' \in Nat /\ costRow' \in Nat
    BY <1>0, <1>3, <2>1, NoLedgerIs DEF SettleCost, TokensOf, BudgetParts, EveryTokenCharged, Ledgers
  <2>3. ledger'.used + ledger'.reserved <= TaskCap + ledger'.over
    BY <2>1, NoLedgerIs, BudgetNumbers
  <2>4. BudgetParts'
    BY <1>0, <1>3, <2>1, <2>2, <2>3, NoLedgerIs DEF SettleCost, BudgetParts, EveryTokenCharged, ClaimsWithinCap, Balances, SumOver
  <2>5. RunStands'
    BY <1>3, <2>1, NoLedgerIs DEF SettleCost, RunStands
  <2> QED
    BY <1>00, <2>4, <2>5
<1>4. CASE LoseLedger
  <2>1. ledger' = NoLedger
    BY <1>4 DEF LoseLedger
  <2>2. burnt' = charged' + forgotten' + ledger'.used /\ forgotten' \in Nat
    BY <1>0, <1>4, <2>1, NoLedgerIs DEF LoseLedger, BudgetParts, EveryTokenCharged, Ledgers
  <2>3. ledger'.used + ledger'.reserved <= TaskCap + ledger'.over
    BY <2>1, NoLedgerIs, BudgetNumbers
  <2>4. spender' \in [Spenders -> SpenderStages] /\ told' \in [Spenders -> 0 .. CallCap]
    BY <1>0, <1>4, StagesAre, BudgetNumbers DEF LoseLedger, BudgetParts
  <2>5. BudgetParts'
    BY <1>0, <1>4, <2>1, <2>2, <2>3, <2>4, NoLedgerIs DEF LoseLedger, BudgetParts, EveryTokenCharged, ClaimsWithinCap, Balances, SumOver
  <2>6. RunStands'
    BY <1>4, <2>1, NoLedgerIs DEF LoseLedger, RunStands
  <2> QED
    BY <1>00, <2>5, <2>6
<1>5. ASSUME NEW n \in Spenders, \/ GateSpend(n) \/ SendAllowance(n) \/ RetryCall(n) \/ CallFails(n)
                                 \/ \E amount \in 0 .. MostTokens : CallReports(n, amount)
      PROVE  BudgetIInv'
  BY <1>5, GateSpendKeeps, DispatchKeeps, CallFailsKeeps, CallReportsKeeps
<1>6. CASE UNCHANGED budgetVars
  BY <1>0, <1>00, <1>6 DEF budgetVars, BudgetParts, RunStands, ClaimsWithinCap, EveryTokenCharged, Balances, Ledgers, SumOver
<1> QED
  BY <1>1, <1>2, <1>3, <1>4, <1>5, <1>6 DEF BudgetNext

\* For any number of nodes side by side and any caps: what nodes in flight hold is what the
\* pool of the task is debited by, a run passes its cap only by what providers took beyond
\* the claims of their calls, and every token an agent reported is charged once or died
\* with its process.
THEOREM BudgetHolds == BudgetSpec => []BudgetInv
<1>1. BudgetInit => BudgetIInv
  BY BudgetStarts
<1>2. BudgetIInv /\ [BudgetNext]_budgetVars => BudgetIInv'
  BY BudgetSteps
<1>3. BudgetIInv => BudgetInv
  BY DEF BudgetIInv
<1> QED
  BY <1>1, <1>2, <1>3, PTL DEF BudgetSpec

-----------------------------------------------------------------------------
SessionRow == [status : {"none", "live", "revoked"}, created : 0 .. AuthEnd]
TokenRow   == [consumed : BOOLEAN, revoked : BOOLEAN, expires : Nat]
Rotation   == [step : {"idle", "looked", "checked", "consumed"}, of : Sessions \cup {"none"},
               token : 0 .. MaxTokens, now : 0 .. AuthEnd]

SessionTyped ==
  /\ session \in [Sessions -> SessionRow]
  /\ tokens \in [Sessions -> Seq(TokenRow)]
  /\ known \in [AuthProcesses -> SUBSET Sessions]
  /\ wiped \in [AuthProcesses -> Never .. AuthEnd] /\ issued \in [Sessions -> Never .. AuthEnd]
  /\ rotating \in [AuthProcesses -> Rotation]
  /\ late \in [Sessions -> Nat] /\ raced \in [Sessions -> Nat]
  /\ authTime \in 0 .. AuthEnd

Fresh(s)    == {i \in DOMAIN tokens[s] : ~tokens[s][i].consumed}
Storing(s)  == {p \in AuthProcesses : rotating[p].step = "consumed" /\ rotating[p].of = s}
Admitted(s) == {p \in AuthProcesses : rotating[p].step \in {"checked", "consumed"} /\ rotating[p].of = s}

\* A session that was never made has no token, and a rotation has a session and a token.
RotationsStand ==
  /\ \A s \in Sessions : session[s].status = "none" => session[s] = NoSession /\ tokens[s] = <<>>
  /\ \A p \in AuthProcesses :
       rotating[p].step # "idle" =>
         /\ rotating[p].of \in Sessions /\ session[rotating[p].of].status # "none"
         /\ rotating[p].token \in DOMAIN tokens[rotating[p].of]

KnownAreRevoked == \A p \in AuthProcesses : \A s \in known[p] : session[s].status = "revoked"

\* A rotation that has consumed its token takes the place of that token.
ChainStands ==
  \A s \in Sessions : Cardinality(Fresh(s)) + Cardinality(Storing(s)) <= 1 + raced[s]

\* A token stored late uses up a process that was past its check when s was revoked.
LateStands ==
  \A s \in Sessions : /\ late[s] + Cardinality(Admitted(s)) <= Cardinality(AuthProcesses)
                      /\ session[s].status # "revoked" => late[s] = 0

SessionIInv == SessionTyped /\ RotationsStand /\ KnownAreRevoked /\ ChainStands /\ LateStands

-----------------------------------------------------------------------------
LEMMA SessionNumbers ==
  /\ RefreshTtl \in Nat /\ SessionTtl \in Nat /\ AccessTtl \in Nat /\ MaxTokens \in Nat /\ AuthEnd \in Nat
  /\ IsFiniteSet(AuthProcesses) /\ Cardinality(AuthProcesses) \in Nat
BY SessionAssumption, FS_CardinalityType

LEMMA SetsAreFinite ==
  ASSUME SessionTyped, NEW s \in Sessions
  PROVE  /\ IsFiniteSet(Fresh(s)) /\ IsFiniteSet(Storing(s)) /\ IsFiniteSet(Admitted(s))
         /\ Cardinality(Fresh(s)) \in Nat /\ Cardinality(Storing(s)) \in Nat /\ Cardinality(Admitted(s)) \in Nat
<1>1. DOMAIN tokens[s] = 1 .. Len(tokens[s]) /\ Len(tokens[s]) \in Nat
  BY DEF SessionTyped
<1>2. IsFiniteSet(DOMAIN tokens[s])
  <2>1. PICK n \in Nat : DOMAIN tokens[s] = 1 .. n
    BY <1>1
  <2> QED
    BY <2>1, FS_Interval
<1>3. Fresh(s) \subseteq DOMAIN tokens[s] /\ Storing(s) \subseteq AuthProcesses /\ Admitted(s) \subseteq AuthProcesses
  BY DEF Fresh, Storing, Admitted
<1>4. IsFiniteSet(Fresh(s)) /\ IsFiniteSet(Storing(s)) /\ IsFiniteSet(Admitted(s))
  BY <1>2, <1>3, SessionNumbers, FS_Subset
<1> QED
  BY <1>4, FS_CardinalityType

\* A step that adds neither a fresh token, a rotation with its token consumed, nor, for a
\* session that is revoked, a rotation past its check.
LEMMA NothingAdded ==
  ASSUME SessionIInv, SessionTyped', RotationsStand', KnownAreRevoked', late' = late, raced' = raced,
         \A s \in Sessions : /\ Fresh(s)' \subseteq Fresh(s) /\ Storing(s)' \subseteq Storing(s)
                             /\ session[s].status = "revoked" => session'[s].status = "revoked"
                             /\ session'[s].status = "revoked" => Admitted(s)' \subseteq Admitted(s)
  PROVE  SessionIInv'
<1>1. ASSUME NEW s \in Sessions
      PROVE  /\ Cardinality(Fresh(s)') + Cardinality(Storing(s)') <= 1 + raced'[s]
             /\ late'[s] + Cardinality(Admitted(s)') <= Cardinality(AuthProcesses)
             /\ session'[s].status # "revoked" => late'[s] = 0
  <2>1. PICK F, S, P : F = Fresh(s)' /\ S = Storing(s)' /\ P = Admitted(s)'
    OBVIOUS
  <2>2. raced[s] \in Nat /\ late[s] \in Nat
    BY DEF SessionIInv, SessionTyped
  <2>3. Cardinality(F) + Cardinality(S) <= 1 + raced[s]
    <3>1. F \subseteq Fresh(s) /\ S \subseteq Storing(s) /\ 1 + raced[s] \in Nat
      BY <2>1, <2>2
    <3>2. /\ IsFiniteSet(Fresh(s)) /\ IsFiniteSet(Storing(s))
          /\ Cardinality(Fresh(s)) + Cardinality(Storing(s)) <= 1 + raced[s]
      BY SetsAreFinite DEF SessionIInv, ChainStands
    <3> QED
      BY <3>1, <3>2, FewerOfBoth
  <2>4. session'[s].status # "revoked" => late[s] = 0
    BY DEF SessionIInv, LateStands
  <2>5. P \subseteq AuthProcesses
    BY <2>1 DEF Admitted
  <2>6. Cardinality(P) \in Nat /\ Cardinality(P) <= Cardinality(AuthProcesses)
    BY <2>5, SessionNumbers, FS_Subset, FS_CardinalityType
  <2>7. late[s] + Cardinality(P) <= Cardinality(AuthProcesses)
    <3>1. CASE session'[s].status = "revoked"
      <4>1. P \subseteq Admitted(s) /\ IsFiniteSet(Admitted(s)) /\ Cardinality(Admitted(s)) \in Nat
        BY <2>1, <3>1, SetsAreFinite DEF SessionIInv
      <4>2. Cardinality(P) <= Cardinality(Admitted(s))
        BY <4>1, FS_Subset
      <4>3. late[s] + Cardinality(Admitted(s)) <= Cardinality(AuthProcesses)
        BY DEF SessionIInv, LateStands
      <4> QED
        BY <2>2, <2>6, <4>1, <4>2, <4>3, SessionNumbers
    <3>2. CASE session'[s].status # "revoked"
      BY <2>4, <2>6, <3>2, SessionNumbers
    <3> QED
      BY <3>1, <3>2
  <2> QED
    BY <2>1, <2>3, <2>4, <2>7
<1> QED
  BY <1>1 DEF SessionIInv, ChainStands, LateStands

LEMMA RotationIsIdle ==
  /\ NoRotation \in Rotation /\ NoRotation.step = "idle"
  /\ NoSession \in SessionRow /\ NoSession.status = "none"
BY SessionNumbers DEF NoRotation, Rotation, NoSession, SessionRow

LEMMA SessionStarts == SessionInit => SessionIInv
<1> SUFFICES ASSUME SessionInit PROVE SessionIInv
  OBVIOUS
<1>1. SessionTyped
  <2>1. <<>> \in Seq(TokenRow) /\ Never \in Never .. AuthEnd /\ 0 \in 0 .. AuthEnd
    BY SessionNumbers DEF Never
  <2> QED
    BY <2>1, RotationIsIdle DEF SessionInit, SessionTyped
<1>2. RotationsStand /\ KnownAreRevoked
  BY RotationIsIdle DEF SessionInit, RotationsStand, KnownAreRevoked
<1>3. ASSUME NEW s \in Sessions
      PROVE  /\ Cardinality(Fresh(s)) + Cardinality(Storing(s)) <= 1 + raced[s]
             /\ late[s] + Cardinality(Admitted(s)) <= Cardinality(AuthProcesses) /\ late[s] = 0
  <2>1. Fresh(s) = {} /\ Storing(s) = {} /\ Admitted(s) = {}
    BY RotationIsIdle DEF SessionInit, Fresh, Storing, Admitted
  <2>2. raced[s] = 0 /\ late[s] = 0
    BY DEF SessionInit
  <2> QED
    BY <2>1, <2>2, FS_EmptySet, SessionNumbers
<1> QED
  BY <1>1, <1>2, <1>3 DEF SessionIInv, ChainStands, LateStands

\* A row of tokens that changes in what is neither consumed nor its length.
LEMMA RevokedRow ==
  ASSUME NEW r \in Seq(TokenRow)
  PROVE  LET q == [i \in DOMAIN r |-> [r[i] EXCEPT !.revoked = TRUE]] IN
         /\ q \in Seq(TokenRow) /\ DOMAIN q = DOMAIN r
         /\ \A i \in DOMAIN r : q[i].consumed = r[i].consumed
<1> DEFINE q == [i \in DOMAIN r |-> [r[i] EXCEPT !.revoked = TRUE]]
<1>1. Len(r) \in Nat /\ DOMAIN r = 1 .. Len(r)
  OBVIOUS
<1>2. \A i \in 1 .. Len(r) : r[i] \in TokenRow
  OBVIOUS
<1>3. \A i \in 1 .. Len(r) : [r[i] EXCEPT !.revoked = TRUE] \in TokenRow /\ [r[i] EXCEPT !.revoked = TRUE].consumed = r[i].consumed
  BY <1>2 DEF TokenRow
<1>4. q = [i \in 1 .. Len(r) |-> [r[i] EXCEPT !.revoked = TRUE]]
  BY <1>1
<1>5. q \in [1 .. Len(r) -> TokenRow]
  BY <1>3, <1>4
<1>6. q \in Seq(TokenRow)
  BY <1>1, <1>5, SeqDef
<1> QED
  BY <1>1, <1>3, <1>4, <1>6

\* The sessions of a group are revoked, and processes may learn of it.
LEMMA RevocationKeeps ==
  ASSUME SessionIInv, NEW group \in SUBSET Sessions, RevokeIn(group),
         \A s \in group : session[s].status # "none",
         known' \in [AuthProcesses -> SUBSET Sessions], wiped' \in [AuthProcesses -> Never .. AuthEnd],
         \A p \in AuthProcesses : known'[p] \subseteq known[p] \cup group
  PROVE  SessionIInv'
<1>1. SessionTyped /\ RotationsStand /\ KnownAreRevoked
  BY DEF SessionIInv
<1>2. /\ session' = [s \in Sessions |-> IF s \in group THEN [session[s] EXCEPT !.status = "revoked"]
                                        ELSE session[s]]
      /\ tokens' = [s \in Sessions |->
                  IF s \in group THEN [i \in DOMAIN tokens[s] |-> [tokens[s][i] EXCEPT !.revoked = TRUE]]
                  ELSE tokens[s]]
      /\ issued' = issued /\ rotating' = rotating /\ late' = late /\ raced' = raced /\ authTime' = authTime
  BY DEF RevokeIn
<1>3. ASSUME NEW s \in Sessions
      PROVE  /\ session'[s] \in SessionRow /\ session'[s].status = IF s \in group THEN "revoked" ELSE session[s].status
             /\ s \notin group => session'[s] = session[s]
  <2>1. session[s] \in SessionRow
    BY <1>1 DEF SessionTyped
  <2> QED
    BY <1>2, <2>1 DEF SessionRow
<1>4. ASSUME NEW s \in Sessions
      PROVE  /\ tokens'[s] \in Seq(TokenRow) /\ DOMAIN tokens'[s] = DOMAIN tokens[s]
             /\ \A i \in DOMAIN tokens[s] : tokens'[s][i].consumed = tokens[s][i].consumed
             /\ s \notin group => tokens'[s] = tokens[s]
  <2>1. tokens[s] \in Seq(TokenRow)
    BY <1>1 DEF SessionTyped
  <2>2. CASE s \in group
    <3>1. tokens'[s] = [i \in DOMAIN tokens[s] |-> [tokens[s][i] EXCEPT !.revoked = TRUE]]
      BY <1>2, <2>2
    <3>2. PICK r, q : r = tokens[s] /\ q = tokens'[s]
      OBVIOUS
    <3>3. q \in Seq(TokenRow) /\ DOMAIN q = DOMAIN r /\ \A i \in DOMAIN r : q[i].consumed = r[i].consumed
      <4>1. q = [i \in DOMAIN r |-> [r[i] EXCEPT !.revoked = TRUE]] /\ r \in Seq(TokenRow)
        BY <2>1, <3>1, <3>2
      <4> QED
        BY <4>1, RevokedRow
    <3> QED
      BY <2>2, <3>2, <3>3
  <2>3. CASE s \notin group
    BY <1>2, <2>1, <2>3
  <2> QED
    BY <2>2, <2>3
<1>5. SessionTyped'
  <2>1. session' \in [Sessions -> SessionRow]
    BY <1>2, <1>3
  <2>2. tokens' \in [Sessions -> Seq(TokenRow)]
    BY <1>2, <1>4
  <2> QED
    BY <1>1, <1>2, <2>1, <2>2 DEF SessionTyped
<1>6. RotationsStand'
  BY <1>1, <1>2, <1>3, <1>4 DEF RotationsStand
<1>7. KnownAreRevoked'
  BY <1>1, <1>3 DEF KnownAreRevoked, SessionTyped
<1>8. ASSUME NEW s \in Sessions
      PROVE  /\ Fresh(s)' \subseteq Fresh(s) /\ Storing(s)' = Storing(s) /\ Admitted(s)' = Admitted(s)
             /\ session[s].status = "revoked" => session'[s].status = "revoked"
  BY <1>2, <1>3, <1>4 DEF Fresh, Storing, Admitted
<1> QED
  BY <1>2, <1>5, <1>6, <1>7, <1>8, NothingAdded

\* One rotation is at another step, and no session or token changes.
LEMMA RotationMoves ==
  ASSUME SessionIInv, NEW p \in AuthProcesses, NEW r \in Rotation, rotating' = [rotating EXCEPT ![p] = r],
         UNCHANGED <<session, tokens, issued, late, raced, authTime>>,
         known' \in [AuthProcesses -> SUBSET Sessions], wiped' \in [AuthProcesses -> Never .. AuthEnd],
         \A q \in AuthProcesses : known'[q] \subseteq known[q],
         r.step # "consumed",
         r.step # "idle" => /\ r.of \in Sessions /\ session[r.of].status # "none"
                            /\ r.token \in DOMAIN tokens[r.of],
         r.step = "checked" => session[r.of].status # "revoked"
  PROVE  SessionIInv'
<1>1. SessionTyped /\ RotationsStand /\ KnownAreRevoked
  BY DEF SessionIInv
<1>2. /\ rotating' \in [AuthProcesses -> Rotation] /\ rotating'[p] = r
      /\ \A q \in AuthProcesses : q # p => rotating'[q] = rotating[q]
  BY <1>1 DEF SessionTyped
<1>3. SessionTyped'
  BY <1>1, <1>2 DEF SessionTyped
<1>4. RotationsStand'
  BY <1>1, <1>2 DEF RotationsStand
<1>5. KnownAreRevoked'
  BY <1>1 DEF KnownAreRevoked
<1>6. ASSUME NEW s \in Sessions
      PROVE  /\ Fresh(s)' = Fresh(s) /\ Storing(s)' \subseteq Storing(s) /\ session'[s] = session[s]
             /\ session'[s].status = "revoked" => Admitted(s)' \subseteq Admitted(s)
  BY <1>2 DEF Fresh, Storing, Admitted
<1> QED
  BY <1>3, <1>4, <1>5, <1>6, NothingAdded

LEMMA MintedTyped ==
  ASSUME SessionTyped, NEW s \in Sessions, Minted(s) \/ UNCHANGED issued
  PROVE  issued' \in [Sessions -> Never .. AuthEnd]
<1>1. authTime \in Never .. AuthEnd /\ issued \in [Sessions -> Never .. AuthEnd]
  BY SessionNumbers DEF SessionTyped, Never
<1> QED
  BY <1>1 DEF Minted

LEMMA CreateSessionKeeps ==
  ASSUME SessionIInv, NEW p \in AuthProcesses, NEW s \in Sessions, CreateSession(p, s)
  PROVE  SessionIInv'
<1>1. SessionTyped /\ RotationsStand /\ KnownAreRevoked /\ ChainStands /\ LateStands
  BY DEF SessionIInv
<1>2. /\ session[s] = NoSession /\ session' = [session EXCEPT ![s] = [status |-> "live", created |-> authTime]]
      /\ UNCHANGED <<known, wiped, rotating, late, raced, authTime>>
  BY DEF CreateSession
<1>3. tokens[s] = <<>> /\ session[s].status = "none"
  BY <1>1, <1>2, RotationIsIdle DEF RotationsStand
<1>4. NewToken(authTime + RefreshTtl) \in TokenRow /\ NewToken(authTime + RefreshTtl).consumed = FALSE
  BY <1>1, SessionNumbers DEF NewToken, TokenRow, SessionTyped
<1>5. PICK row \in Seq(TokenRow) : /\ tokens' = [tokens EXCEPT ![s] = row] /\ Len(row) \in {0, 1}
                                   /\ \A i \in DOMAIN row : ~row[i].consumed
  <2>1. CASE tokens' = [tokens EXCEPT ![s] = <<NewToken(authTime + RefreshTtl)>>]
    <3>1. PICK t \in TokenRow : t = NewToken(authTime + RefreshTtl) /\ ~t.consumed
      BY <1>4
    <3>2. <<t>> \in Seq(TokenRow) /\ Len(<<t>>) = 1 /\ DOMAIN <<t>> = {1} /\ <<t>>[1] = t
      BY <3>1
    <3>3. \A i \in DOMAIN <<t>> : ~<<t>>[i].consumed
      BY <3>1, <3>2
    <3>4. tokens' = [tokens EXCEPT ![s] = <<t>>] /\ Len(<<t>>) \in {0, 1}
      BY <2>1, <3>1, <3>2
    <3> QED
      BY <3>2, <3>3, <3>4
  <2>2. CASE tokens' = tokens
    <3>1. tokens' = [tokens EXCEPT ![s] = <<>>]
      BY <1>1, <1>3, <2>2 DEF SessionTyped
    <3>2. <<>> \in Seq(TokenRow) /\ Len(<<>>) = 0 /\ DOMAIN <<>> = {}
      OBVIOUS
    <3> QED
      BY <3>1, <3>2
  <2> QED
    BY <2>1, <2>2 DEF CreateSession
<1>6. issued' \in [Sessions -> Never .. AuthEnd]
  <2>1. Minted(s) \/ UNCHANGED issued
    BY DEF CreateSession
  <2> QED
    BY <1>1, <2>1, MintedTyped
<1>7. /\ session' \in [Sessions -> SessionRow] /\ session'[s].status = "live"
      /\ \A u \in Sessions : u # s => session'[u] = session[u]
  <2>1. [status |-> "live", created |-> authTime] \in SessionRow
    BY <1>1 DEF SessionRow, SessionTyped
  <2> QED
    BY <1>1, <1>2, <2>1 DEF SessionTyped
<1>8. /\ tokens' \in [Sessions -> Seq(TokenRow)] /\ tokens'[s] = row
      /\ \A u \in Sessions : u # s => tokens'[u] = tokens[u]
  BY <1>1, <1>5 DEF SessionTyped
<1>9. SessionTyped'
  BY <1>1, <1>2, <1>6, <1>7, <1>8 DEF SessionTyped
<1>10. \A q \in AuthProcesses : rotating[q].step # "idle" => rotating[q].of # s
  BY <1>1, <1>3 DEF RotationsStand
<1>11. RotationsStand'
  BY <1>1, <1>2, <1>7, <1>8, <1>10 DEF RotationsStand
<1>12. KnownAreRevoked'
  BY <1>1, <1>2, <1>3, <1>7 DEF KnownAreRevoked, SessionTyped
<1>13. ASSUME NEW u \in Sessions
       PROVE  /\ Cardinality(Fresh(u)') + Cardinality(Storing(u)') <= 1 + raced'[u]
              /\ late'[u] + Cardinality(Admitted(u)') <= Cardinality(AuthProcesses)
              /\ session'[u].status # "revoked" => late'[u] = 0
  <2>1. Storing(u)' = Storing(u) /\ Admitted(u)' = Admitted(u)
    BY <1>2 DEF Storing, Admitted
  <2>2. CASE u = s
    <3>1. Storing(u) = {}
      BY <1>10, <2>2 DEF Storing
    <3>2. PICK F : F = Fresh(u)'
      OBVIOUS
    <3>3. F \subseteq {1}
      BY <1>5, <1>8, <2>2, <3>2 DEF Fresh
    <3>4. IsFiniteSet({1}) /\ Cardinality({1}) = 1
      BY FS_Singleton
    <3>5. Cardinality(F) \in Nat /\ Cardinality(F) <= 1
      BY <3>3, <3>4, FS_Subset, FS_CardinalityType
    <3>6. raced'[u] \in Nat
      BY <1>9 DEF SessionTyped
    <3>7. Cardinality(Fresh(u)') + Cardinality(Storing(u)') <= 1 + raced'[u]
      BY <2>1, <3>1, <3>2, <3>5, <3>6, FS_EmptySet
    <3>8. late'[u] = late[u] /\ late[u] = 0
      BY <1>1, <1>2, <1>3, <2>2 DEF LateStands
    <3> QED
      BY <1>1, <2>1, <3>7, <3>8 DEF LateStands
  <2>3. CASE u # s
    <3>1. Fresh(u)' = Fresh(u)
      BY <1>8, <2>3 DEF Fresh
    <3> QED
      BY <1>1, <1>2, <1>7, <2>1, <2>3, <3>1 DEF ChainStands, LateStands
  <2> QED
    BY <2>2, <2>3
<1> QED
  BY <1>9, <1>11, <1>12, <1>13 DEF SessionIInv, ChainStands, LateStands

LEMMA RevokeSessionKeeps ==
  ASSUME SessionIInv, NEW p \in AuthProcesses,
         \/ \E s \in Sessions : RevokeSession(p, s)
         \/ \E s \in Sessions, i \in 1 .. MaxTokens : ReuseDetected(p, s, i)
         \/ RevokeAllUserSessions(p)
  PROVE  SessionIInv'
<1>1. SessionTyped /\ RotationsStand
  BY DEF SessionIInv
<1>2. ASSUME NEW s \in Sessions, RevokeIn({s}), Learns(p, {s}), UNCHANGED wiped, session[s].status # "none"
      PROVE  SessionIInv'
  <2>1. known' \in [AuthProcesses -> SUBSET Sessions] /\ \A q \in AuthProcesses : known'[q] \subseteq known[q] \cup {s}
    BY <1>1, <1>2 DEF Learns, SessionTyped
  <2>2. {s} \in SUBSET Sessions /\ \A u \in {s} : session[u].status # "none"
    BY <1>2
  <2>3. wiped' \in [AuthProcesses -> Never .. AuthEnd]
    BY <1>1, <1>2 DEF SessionTyped
  <2> QED
    BY <1>2, <2>1, <2>2, <2>3, RevocationKeeps
<1>3. ASSUME NEW s \in Sessions, RevokeSession(p, s) PROVE SessionIInv'
  <2>1. session[s].status # "none"
    BY <1>1, <1>3 DEF RevokeSession, Existing, RotationsStand
  <2> QED
    BY <1>2, <1>3, <2>1 DEF RevokeSession
<1>4. ASSUME NEW s \in Sessions, NEW i \in 1 .. MaxTokens, ReuseDetected(p, s, i) PROVE SessionIInv'
  <2>1. session[s].status # "none"
    <3>1. tokens[s] # <<>>
      BY <1>4 DEF ReuseDetected
    <3> QED
      BY <1>1, <3>1 DEF RotationsStand
  <2> QED
    BY <1>2, <1>4, <2>1 DEF ReuseDetected
<1>5. ASSUME RevokeAllUserSessions(p) PROVE SessionIInv'
  <2>1. Existing \in SUBSET Sessions /\ \A u \in Existing : session[u].status # "none"
    BY <1>1 DEF Existing, RotationsStand
  <2>2. /\ known' \in [AuthProcesses -> SUBSET Sessions] /\ \A q \in AuthProcesses : known'[q] \subseteq known[q] \cup Existing
        /\ RevokeIn(Existing)
    BY <1>1, <1>5 DEF RevokeAllUserSessions, SessionTyped
  <2>3. wiped' \in [AuthProcesses -> Never .. AuthEnd]
    BY <1>1, <1>5, SessionNumbers DEF RevokeAllUserSessions, SessionTyped, Never
  <2>4. PICK group \in SUBSET Sessions : group = Existing
    BY <2>1
  <2> QED
    BY <2>1, <2>2, <2>3, <2>4, RevocationKeeps
<1> QED
  BY <1>3, <1>4, <1>5

LEMMA LookUpTokenKeeps ==
  ASSUME SessionIInv, NEW p \in AuthProcesses, NEW s \in Sessions, NEW i \in 1 .. MaxTokens, LookUpToken(p, s, i)
  PROVE  SessionIInv'
<1>1. SessionTyped /\ RotationsStand
  BY DEF SessionIInv
<1>2. PICK r : r = [step |-> "looked", of |-> s, token |-> i, now |-> authTime]
  OBVIOUS
<1>3. r \in Rotation
  BY <1>1, <1>2, SessionNumbers DEF Rotation, SessionTyped
<1>4. i \in DOMAIN tokens[s] /\ session[s].status # "none"
  BY <1>1 DEF LookUpToken, RotationsStand
<1>5. /\ rotating' = [rotating EXCEPT ![p] = r] /\ UNCHANGED <<session, tokens, issued, late, raced, authTime>>
      /\ known' = known /\ wiped' = wiped
  BY <1>2 DEF LookUpToken
<1>6. /\ r.step # "consumed" /\ r.step # "checked" /\ r.of = s /\ r.token = i
  BY <1>2
<1>7. known' \in [AuthProcesses -> SUBSET Sessions] /\ wiped' \in [AuthProcesses -> Never .. AuthEnd]
  BY <1>1, <1>5 DEF SessionTyped
<1> QED
  BY <1>3, <1>4, <1>5, <1>6, <1>7, RotationMoves

LEMMA CheckSessionKeeps ==
  ASSUME SessionIInv, NEW p \in AuthProcesses, CheckSession(p)
  PROVE  SessionIInv'
<1>1. SessionTyped /\ RotationsStand
  BY DEF SessionIInv
<1>2. PICK s \in Sessions : s = Of(p) /\ session[s].status # "none" /\ rotating[p].token \in DOMAIN tokens[s]
  BY <1>1 DEF CheckSession, RotationsStand, Of
<1>3. CASE Stands(s) /\ ~TooOld(p)
  <2>1. PICK r : r = [rotating[p] EXCEPT !.step = "checked"]
    OBVIOUS
  <2>2. rotating[p] \in Rotation
    BY <1>1 DEF SessionTyped
  <2>3. r \in Rotation /\ r.step = "checked" /\ r.of = s /\ r.token = rotating[p].token
    BY <1>2, <2>1, <2>2 DEF Rotation, Of
  <2>4. /\ rotating' = [rotating EXCEPT ![p] = r] /\ UNCHANGED <<session, tokens, issued, late, raced, authTime>>
        /\ known' = known /\ wiped' = wiped /\ session[s].status # "revoked"
    BY <1>1, <1>2, <1>3, <2>1 DEF CheckSession, Stands, SessionTyped
  <2>5. known' \in [AuthProcesses -> SUBSET Sessions] /\ wiped' \in [AuthProcesses -> Never .. AuthEnd]
    BY <1>1, <2>4 DEF SessionTyped
  <2> QED
    BY <1>2, <2>3, <2>4, <2>5, RotationMoves
<1>4. CASE ~(Stands(s) /\ ~TooOld(p)) /\ ~Stands(s)
  <2>1. /\ rotating' = [rotating EXCEPT ![p] = NoRotation] /\ UNCHANGED <<session, tokens, issued, late, raced, authTime>>
        /\ known' = known /\ wiped' = wiped
    BY <1>2, <1>4 DEF CheckSession
  <2>2. known' \in [AuthProcesses -> SUBSET Sessions] /\ wiped' \in [AuthProcesses -> Never .. AuthEnd]
    BY <1>1, <2>1 DEF SessionTyped
  <2>3. NoRotation \in Rotation /\ NoRotation.step = "idle"
    BY RotationIsIdle
  <2> QED
    BY <2>1, <2>2, <2>3, RotationMoves
<1>5. CASE Stands(s) /\ TooOld(p)
  <2>1. /\ rotating' = [rotating EXCEPT ![p] = NoRotation] /\ session' = [session EXCEPT ![s].status = "revoked"]
        /\ known' = [known EXCEPT ![p] = known[p] \cup {s}]
        /\ UNCHANGED <<tokens, wiped, issued, late, raced, authTime>>
    BY <1>2, <1>5 DEF CheckSession, Learns
  <2>2. /\ session' \in [Sessions -> SessionRow] /\ session'[s].status = "revoked"
        /\ \A u \in Sessions : u # s => session'[u] = session[u]
    <3>1. session[s] \in SessionRow
      BY <1>1 DEF SessionTyped
    <3>2. [session[s] EXCEPT !.status = "revoked"] \in SessionRow /\ [session[s] EXCEPT !.status = "revoked"].status = "revoked"
      BY <3>1 DEF SessionRow
    <3> QED
      BY <1>1, <2>1, <3>2 DEF SessionTyped
  <2>3. rotating' \in [AuthProcesses -> Rotation] /\ rotating'[p] = NoRotation /\ \A q \in AuthProcesses : q # p => rotating'[q] = rotating[q]
    BY <1>1, <2>1, RotationIsIdle DEF SessionTyped
  <2>4. SessionTyped'
    BY <1>1, <2>1, <2>2, <2>3 DEF SessionTyped
  <2>5. RotationsStand'
    BY <1>1, <1>2, <2>1, <2>2, <2>3, RotationIsIdle DEF RotationsStand
  <2>6. KnownAreRevoked'
    BY <1>1, <2>1, <2>2 DEF KnownAreRevoked, SessionIInv, SessionTyped
  <2>7. ASSUME NEW u \in Sessions
        PROVE  /\ Fresh(u)' = Fresh(u) /\ Storing(u)' \subseteq Storing(u) /\ Admitted(u)' \subseteq Admitted(u)
               /\ session[u].status = "revoked" => session'[u].status = "revoked"
    BY <2>1, <2>2, <2>3, RotationIsIdle DEF Fresh, Storing, Admitted
  <2> QED
    BY <2>1, <2>4, <2>5, <2>6, <2>7, NothingAdded
<1> QED
  BY <1>3, <1>4, <1>5

\* The rotation's token is consumed: its place among those to come is the rotation's.
LEMMA ConsumeTokenKeeps ==
  ASSUME SessionIInv, NEW p \in AuthProcesses, ConsumeToken(p)
  PROVE  SessionIInv'
<1>1. SessionTyped /\ RotationsStand /\ KnownAreRevoked /\ ChainStands /\ LateStands
  BY DEF SessionIInv
<1>2. PICK s \in Sessions : s = Of(p) /\ session[s].status # "none" /\ rotating[p].token \in DOMAIN tokens[s]
  BY <1>1 DEF ConsumeToken, RotationsStand, Of
<1>3. PICK i, row, r : /\ i = rotating[p].token /\ row = [tokens[s][i] EXCEPT !.consumed = TRUE]
                       /\ r = [rotating[p] EXCEPT !.step = "consumed"]
  OBVIOUS
<1>4. /\ rotating[p].step = "checked" /\ i \in DOMAIN tokens[s]
      /\ raced' = [raced EXCEPT ![s] = raced[s] + IF tokens[s][i].consumed THEN 1 ELSE 0]
      /\ tokens' = [tokens EXCEPT ![s] = [tokens[s] EXCEPT ![i] = row]]
      /\ rotating' = [rotating EXCEPT ![p] = r]
      /\ UNCHANGED <<session, known, wiped, issued, late, authTime>>
  BY <1>1, <1>2, <1>3 DEF ConsumeToken, Consumed, SessionTyped
<1>5. tokens[s] \in Seq(TokenRow) /\ rotating[p] \in Rotation /\ rotating[p].of = s
  BY <1>1, <1>2 DEF SessionTyped, Of
<1>6. tokens[s][i] \in TokenRow
  BY <1>4, <1>5
<1>7. row \in TokenRow /\ row.consumed
  BY <1>3, <1>6 DEF TokenRow
<1>8. r \in Rotation /\ r.step = "consumed" /\ r.of = s /\ r.token = i
  BY <1>3, <1>5 DEF Rotation
<1>9. /\ tokens' \in [Sessions -> Seq(TokenRow)] /\ DOMAIN tokens'[s] = DOMAIN tokens[s]
      /\ tokens'[s][i] = row /\ \A k \in DOMAIN tokens[s] : k # i => tokens'[s][k] = tokens[s][k]
      /\ \A u \in Sessions : u # s => tokens'[u] = tokens[u]
  <2>1. PICK old, new : old = tokens[s] /\ new = [old EXCEPT ![i] = row]
    OBVIOUS
  <2>2. new \in Seq(TokenRow) /\ DOMAIN new = DOMAIN old /\ new[i] = row /\ \A k \in DOMAIN old : k # i => new[k] = old[k]
    BY <1>4, <1>5, <1>7, <2>1
  <2>3. tokens' = [tokens EXCEPT ![s] = new] /\ tokens \in [Sessions -> Seq(TokenRow)]
    BY <1>1, <1>4, <2>1 DEF SessionTyped
  <2> QED
    BY <2>1, <2>2, <2>3
<1>10. /\ rotating' \in [AuthProcesses -> Rotation] /\ rotating'[p] = r
       /\ \A q \in AuthProcesses : q # p => rotating'[q] = rotating[q]
  BY <1>1, <1>4, <1>8 DEF SessionTyped
<1>11. /\ raced' \in [Sessions -> Nat] /\ \A u \in Sessions : u # s => raced'[u] = raced[u]
       /\ raced'[s] = raced[s] + IF tokens[s][i].consumed THEN 1 ELSE 0
  BY <1>1, <1>4 DEF SessionTyped
<1>12. SessionTyped'
  BY <1>1, <1>4, <1>9, <1>10, <1>11 DEF SessionTyped
<1>13. RotationsStand'
  <2>1. \A u \in Sessions : session'[u].status = "none" => session'[u] = NoSession /\ tokens'[u] = <<>>
    BY <1>1, <1>2, <1>4, <1>9 DEF RotationsStand
  <2>2. \A u \in Sessions : DOMAIN tokens'[u] = DOMAIN tokens[u]
    BY <1>9
  <2>3. ASSUME NEW q \in AuthProcesses, rotating'[q].step # "idle"
        PROVE  /\ rotating'[q].of \in Sessions /\ session'[rotating'[q].of].status # "none"
               /\ rotating'[q].token \in DOMAIN tokens'[rotating'[q].of]
    BY <1>1, <1>2, <1>4, <1>8, <1>10, <2>2, <2>3 DEF RotationsStand
  <2> QED
    BY <2>1, <2>3 DEF RotationsStand
<1>14. KnownAreRevoked'
  BY <1>1, <1>4 DEF KnownAreRevoked
<1>15. \A u \in Sessions : Admitted(u)' = Admitted(u)
  BY <1>4, <1>5, <1>8, <1>10 DEF Admitted
<1>16. ASSUME NEW u \in Sessions
       PROVE  Cardinality(Fresh(u)') + Cardinality(Storing(u)') <= 1 + raced'[u]
  <2>0. /\ IsFiniteSet(Fresh(u)) /\ IsFiniteSet(Storing(u)) /\ Cardinality(Fresh(u)) \in Nat /\ Cardinality(Storing(u)) \in Nat
        /\ Cardinality(Fresh(u)) + Cardinality(Storing(u)) <= 1 + raced[u] /\ raced[u] \in Nat
    BY <1>1, SetsAreFinite DEF ChainStands, SessionTyped
  <2>1. CASE u = s
    <3>1. Fresh(u)' = Fresh(u) \ {i}
      BY <1>7, <1>9, <2>1 DEF Fresh
    <3>2. Storing(u)' = Storing(u) \cup {p} /\ p \notin Storing(u)
      BY <1>4, <1>8, <1>10, <2>1 DEF Storing
    <3>3. PICK F, S : F = Fresh(u) /\ S = Storing(u)
      OBVIOUS
    <3>4. Cardinality(F \ {i}) = (IF i \in F THEN Cardinality(F) - 1 ELSE Cardinality(F))
      BY <2>0, <3>3, FS_RemoveElement
    <3>5. Cardinality(S \cup {p}) = Cardinality(S) + 1
      BY <2>0, <3>2, <3>3, FS_AddElement
    <3>6. i \in F <=> ~tokens[s][i].consumed
      BY <1>4, <2>1, <3>3 DEF Fresh
    <3> QED
      BY <1>11, <2>0, <2>1, <3>1, <3>2, <3>3, <3>4, <3>5, <3>6
  <2>2. CASE u # s
    <3>1. Fresh(u)' = Fresh(u) /\ Storing(u)' = Storing(u)
      BY <1>4, <1>8, <1>9, <1>10, <2>2 DEF Fresh, Storing
    <3> QED
      BY <1>11, <2>0, <2>2, <3>1
  <2> QED
    BY <2>1, <2>2
<1> QED
  BY <1>1, <1>4, <1>12, <1>13, <1>14, <1>15, <1>16 DEF SessionIInv, ChainStands, LateStands

LEMMA IssueTokenKeeps ==
  ASSUME SessionIInv, NEW p \in AuthProcesses, IssueToken(p)
  PROVE  SessionIInv'
<1>1. SessionTyped /\ RotationsStand /\ KnownAreRevoked /\ ChainStands /\ LateStands
  BY DEF SessionIInv
<1>2. PICK s \in Sessions : s = Of(p) /\ session[s].status # "none" /\ rotating[p].of = s
  BY <1>1 DEF IssueToken, RotationsStand, Of
<1>3. PICK t : t = NewToken(Earlier(rotating[p].now + RefreshTtl, session[s].created + SessionTtl))
  OBVIOUS
<1>4. t \in TokenRow
  <2>1. rotating[p].now \in Nat /\ session[s].created \in Nat
    BY <1>1, SessionNumbers DEF SessionTyped, Rotation, SessionRow
  <2>2. Earlier(rotating[p].now + RefreshTtl, session[s].created + SessionTtl) \in Nat
    BY <2>1, SessionNumbers DEF Earlier
  <2> QED
    BY <1>3, <2>2 DEF NewToken, TokenRow
<1>5. /\ rotating[p].step = "consumed" /\ tokens' = [tokens EXCEPT ![s] = Append(tokens[s], t)]
      /\ late' = [late EXCEPT ![s] = late[s] + IF session[s].status = "revoked" THEN 1 ELSE 0]
      /\ rotating' = [rotating EXCEPT ![p] = NoRotation]
      /\ UNCHANGED <<session, known, wiped, raced, authTime>>
  BY <1>2, <1>3 DEF IssueToken
<1>6. tokens[s] \in Seq(TokenRow)
  BY <1>1 DEF SessionTyped
<1>7. /\ tokens' \in [Sessions -> Seq(TokenRow)] /\ Len(tokens'[s]) = Len(tokens[s]) + 1
      /\ \A k \in 1 .. Len(tokens[s]) : tokens'[s][k] = tokens[s][k]
      /\ \A u \in Sessions : u # s => tokens'[u] = tokens[u]
  <2>1. PICK old, new : old = tokens[s] /\ new = Append(old, t)
    OBVIOUS
  <2>2. new \in Seq(TokenRow) /\ Len(new) = Len(old) + 1 /\ \A k \in 1 .. Len(old) : new[k] = old[k]
    BY <1>4, <1>6, <2>1
  <2>3. tokens' = [tokens EXCEPT ![s] = new] /\ tokens \in [Sessions -> Seq(TokenRow)]
    BY <1>1, <1>5, <2>1 DEF SessionTyped
  <2> QED
    BY <2>1, <2>2, <2>3
<1>8. DOMAIN tokens[s] = 1 .. Len(tokens[s]) /\ DOMAIN tokens'[s] = 1 .. Len(tokens[s]) + 1 /\ Len(tokens[s]) \in Nat
  BY <1>6, <1>7
<1>9. issued' \in [Sessions -> Never .. AuthEnd]
  <2>1. Minted(s)
    BY <1>2 DEF IssueToken
  <2> QED
    BY <1>1, <2>1, MintedTyped
<1>10. /\ rotating' \in [AuthProcesses -> Rotation] /\ rotating'[p] = NoRotation
       /\ \A q \in AuthProcesses : q # p => rotating'[q] = rotating[q]
  BY <1>1, <1>5, RotationIsIdle DEF SessionTyped
<1>11. /\ late' \in [Sessions -> Nat] /\ \A u \in Sessions : u # s => late'[u] = late[u]
       /\ late'[s] = late[s] + IF session[s].status = "revoked" THEN 1 ELSE 0
  BY <1>1, <1>5 DEF SessionTyped
<1>12. SessionTyped'
  BY <1>1, <1>5, <1>7, <1>9, <1>10, <1>11 DEF SessionTyped
<1>13. RotationsStand'
  <2>1. \A u \in Sessions : session'[u].status = "none" => session'[u] = NoSession /\ tokens'[u] = <<>>
    BY <1>1, <1>2, <1>5, <1>7 DEF RotationsStand
  <2>2. \A u \in Sessions : DOMAIN tokens[u] \subseteq DOMAIN tokens'[u]
    BY <1>7, <1>8
  <2>3. ASSUME NEW q \in AuthProcesses, rotating'[q].step # "idle"
        PROVE  /\ rotating'[q].of \in Sessions /\ session'[rotating'[q].of].status # "none"
               /\ rotating'[q].token \in DOMAIN tokens'[rotating'[q].of]
    <3>1. rotating'[q] = rotating[q] /\ rotating[q].of \in Sessions
      BY <1>1, <1>10, <2>3, RotationIsIdle DEF RotationsStand
    <3> QED
      BY <1>1, <1>5, <2>2, <2>3, <3>1 DEF RotationsStand
  <2> QED
    BY <2>1, <2>3 DEF RotationsStand
<1>14. KnownAreRevoked'
  BY <1>1, <1>5 DEF KnownAreRevoked
<1>15. ASSUME NEW u \in Sessions
       PROVE  /\ Cardinality(Fresh(u)') + Cardinality(Storing(u)') <= 1 + raced'[u]
              /\ late'[u] + Cardinality(Admitted(u)') <= Cardinality(AuthProcesses)
              /\ session'[u].status # "revoked" => late'[u] = 0
  <2>0. /\ IsFiniteSet(Fresh(u)) /\ IsFiniteSet(Storing(u)) /\ IsFiniteSet(Admitted(u))
        /\ Cardinality(Fresh(u)) \in Nat /\ Cardinality(Storing(u)) \in Nat /\ Cardinality(Admitted(u)) \in Nat
        /\ raced[u] \in Nat /\ late[u] \in Nat
    BY <1>1, SetsAreFinite DEF SessionTyped
  <2>1. /\ Cardinality(Fresh(u)) + Cardinality(Storing(u)) <= 1 + raced[u]
        /\ late[u] + Cardinality(Admitted(u)) <= Cardinality(AuthProcesses)
        /\ session[u].status # "revoked" => late[u] = 0
    BY <1>1 DEF ChainStands, LateStands
  <2>2. CASE u = s
    <3>1. PICK F, S, P, G : F = Fresh(u) /\ S = Storing(u) /\ P = Admitted(u) /\ G = Fresh(u)'
      OBVIOUS
    <3>2. G \subseteq F \cup {Len(tokens[s]) + 1}
      BY <1>7, <1>8, <2>2, <3>1 DEF Fresh
    <3>3. Storing(u)' = S \ {p} /\ p \in S /\ Admitted(u)' = P \ {p} /\ p \in P
      BY <1>2, <1>5, <1>10, <2>2, <3>1, RotationIsIdle DEF Storing, Admitted
    <3>4. /\ Cardinality(S \ {p}) = Cardinality(S) - 1 /\ Cardinality(P \ {p}) = Cardinality(P) - 1
      BY <2>0, <3>1, <3>3, FS_RemoveElement
    <3>5. PICK top : top = Len(tokens[s]) + 1
      OBVIOUS
    <3>6. IsFiniteSet(F \cup {top}) /\ Cardinality(F \cup {top}) <= Cardinality(F) + 1
      <4>1. IsFiniteSet(F \cup {top}) /\ Cardinality(F \cup {top}) = (IF top \in F THEN Cardinality(F) ELSE Cardinality(F) + 1)
        BY <2>0, <3>1, FS_AddElement
      <4> QED
        BY <2>0, <3>1, <4>1
    <3>7. Cardinality(G) <= Cardinality(F) + 1 /\ Cardinality(G) \in Nat
      <4>1. IsFiniteSet(G) /\ Cardinality(G) <= Cardinality(F \cup {top})
        BY <3>2, <3>5, <3>6, FS_Subset
      <4>2. Cardinality(G) \in Nat /\ Cardinality(F \cup {top}) \in Nat
        BY <3>6, <4>1, FS_CardinalityType
      <4> QED
        BY <2>0, <3>1, <3>6, <4>1, <4>2
    <3>8. Cardinality(Fresh(u)') + Cardinality(Storing(u)') <= 1 + raced'[u]
      BY <1>5, <2>0, <2>1, <3>1, <3>3, <3>4, <3>7
    <3>9. late'[u] + Cardinality(Admitted(u)') <= Cardinality(AuthProcesses)
      BY <1>11, <2>0, <2>1, <2>2, <3>1, <3>3, <3>4, SessionNumbers
    <3>10. session'[u].status # "revoked" => late'[u] = 0
      BY <1>5, <1>11, <2>0, <2>1, <2>2
    <3> QED
      BY <3>8, <3>9, <3>10
  <2>3. CASE u # s
    <3>1. Fresh(u)' = Fresh(u) /\ Storing(u)' = Storing(u) /\ Admitted(u)' = Admitted(u)
      BY <1>2, <1>5, <1>7, <1>10, <2>3, RotationIsIdle DEF Fresh, Storing, Admitted
    <3> QED
      BY <1>5, <1>11, <2>1, <2>3, <3>1
  <2> QED
    BY <2>2, <2>3
<1> QED
  BY <1>12, <1>13, <1>14, <1>15 DEF SessionIInv, ChainStands, LateStands

LEMMA SessionSteps == SessionIInv /\ [SessionNext]_sessionVars => SessionIInv'
<1> SUFFICES ASSUME SessionIInv, [SessionNext]_sessionVars PROVE SessionIInv'
  OBVIOUS
<1>0. SessionTyped /\ RotationsStand /\ KnownAreRevoked /\ ChainStands /\ LateStands
  BY DEF SessionIInv
<1>1. ASSUME NEW p \in AuthProcesses, AuthRouter(p) \/ RevokeAll(p) PROVE SessionIInv'
  <2>1. ASSUME NEW s \in Sessions, VerifyAccess(p, s) PROVE SessionIInv'
    <3>1. /\ known' = [known EXCEPT ![p] = known[p] \cup {s}] /\ session[s].status = "revoked"
          /\ UNCHANGED <<session, tokens, wiped, issued, rotating, late, raced, authTime>>
      BY <2>1 DEF VerifyAccess, Learns
    <3>2. SessionTyped' /\ RotationsStand'
      BY <1>0, <3>1 DEF SessionTyped, RotationsStand
    <3>3. KnownAreRevoked'
      BY <1>0, <3>1 DEF KnownAreRevoked, SessionTyped
    <3>4. \A u \in Sessions : Fresh(u)' = Fresh(u) /\ Storing(u)' = Storing(u) /\ Admitted(u)' = Admitted(u)
      BY <3>1 DEF Fresh, Storing, Admitted
    <3> QED
      BY <3>1, <3>2, <3>3, <3>4, NothingAdded
  <2> QED
    BY <1>1, <2>1, CreateSessionKeeps, RevokeSessionKeeps, LookUpTokenKeeps DEF AuthRouter, RevokeAll
<1>2. ASSUME NEW p \in AuthProcesses, CheckSession(p) \/ ConsumeToken(p) \/ IssueToken(p) PROVE SessionIInv'
  BY <1>2, CheckSessionKeeps, ConsumeTokenKeeps, IssueTokenKeeps
<1>3. ASSUME NEW p \in AuthProcesses, AuthRestart(p) PROVE SessionIInv'
  <2>1. /\ rotating' = [rotating EXCEPT ![p] = NoRotation] /\ UNCHANGED <<session, tokens, issued, late, raced, authTime>>
        /\ known' \in [AuthProcesses -> SUBSET Sessions] /\ \A q \in AuthProcesses : known'[q] \subseteq known[q]
    BY <1>0, <1>3 DEF AuthRestart, SessionTyped
  <2>2. wiped' \in [AuthProcesses -> Never .. AuthEnd]
    BY <1>0, <1>3, SessionNumbers DEF AuthRestart, SessionTyped, Never
  <2>3. NoRotation \in Rotation /\ NoRotation.step = "idle"
    BY RotationIsIdle
  <2> QED
    BY <2>1, <2>2, <2>3, RotationMoves
<1>4. CASE AuthTick \/ UNCHANGED sessionVars
  <2>1. authTime' \in 0 .. AuthEnd /\ UNCHANGED <<session, tokens, known, wiped, issued, rotating, late, raced>>
    BY <1>0, <1>4, SessionNumbers DEF AuthTick, sessionVars, SessionTyped
  <2>2. SessionTyped' /\ RotationsStand' /\ KnownAreRevoked'
    BY <1>0, <2>1 DEF SessionTyped, RotationsStand, KnownAreRevoked
  <2>3. \A u \in Sessions : Fresh(u)' = Fresh(u) /\ Storing(u)' = Storing(u) /\ Admitted(u)' = Admitted(u)
    BY <2>1 DEF Fresh, Storing, Admitted
  <2> QED
    BY <2>1, <2>2, <2>3, NothingAdded
<1> QED
  BY <1>1, <1>2, <1>3, <1>4 DEF SessionNext

LEMMA SessionImplied == SessionIInv => SessionInv
<1> SUFFICES ASSUME SessionIInv PROVE SessionInv
  OBVIOUS
<1>0. SessionTyped /\ RotationsStand /\ KnownAreRevoked /\ ChainStands /\ LateStands
  BY DEF SessionIInv
<1>1. SessionTypeOK
  <2>1. ASSUME NEW s \in Sessions, NEW i \in DOMAIN tokens[s]
        PROVE  tokens[s][i] \in TokenRow
    BY <1>0 DEF SessionTyped
  <2> QED
    BY <1>0, <2>1 DEF SessionTypeOK, SessionTyped, SessionRow, TokenRow, Rotation
<1>2. OneUsableToken
  <2>1. ASSUME NEW s \in Sessions PROVE Cardinality(Usable(s)) <= 1 + raced[s]
    <3>1. Usable(s) \subseteq Fresh(s)
      BY DEF Usable, Fresh
    <3>2. /\ IsFiniteSet(Fresh(s)) /\ Cardinality(Fresh(s)) \in Nat /\ Cardinality(Storing(s)) \in Nat
      BY <1>0, SetsAreFinite
    <3>3. IsFiniteSet(Usable(s)) /\ Cardinality(Usable(s)) <= Cardinality(Fresh(s))
      BY <3>1, <3>2, FS_Subset
    <3>4. Cardinality(Usable(s)) \in Nat /\ raced[s] \in Nat
      BY <1>0, <3>3, FS_CardinalityType DEF SessionTyped
    <3> QED
      BY <1>0, <3>2, <3>3, <3>4 DEF ChainStands
  <2> QED
    BY <2>1 DEF OneUsableToken
<1>3. RevokedIssuesNoMore
  <2>1. ASSUME NEW s \in Sessions PROVE late[s] <= Cardinality(AuthProcesses)
    <3>1. late[s] + Cardinality(Admitted(s)) <= Cardinality(AuthProcesses) /\ late[s] \in Nat
      BY <1>0 DEF LateStands, SessionTyped
    <3>2. Cardinality(Admitted(s)) \in Nat
      BY <1>0, SetsAreFinite
    <3> QED
      BY <3>1, <3>2, SessionNumbers
  <2> QED
    BY <2>1 DEF RevokedIssuesNoMore
<1>4. LiveSessionsAreAdmitted
  <2>1. ASSUME NEW p \in AuthProcesses, NEW s \in Sessions,
               session[s].status = "live", Unexpired(s), issued[s] > wiped[p]
        PROVE  AccessGranted(p, s)
    <3>1. s \notin known[p]
      BY <1>0, <2>1 DEF KnownAreRevoked
    <3>2. ~WalletRevoked(p, s)
      BY <1>0, <2>1, SessionNumbers DEF WalletRevoked, SessionTyped, Never
    <3> QED
      BY <2>1, <3>1, <3>2 DEF AccessGranted
  <2> QED
    BY <2>1 DEF LiveSessionsAreAdmitted
<1> QED
  BY <1>1, <1>2, <1>3, <1>4 DEF SessionInv

\* For any processes, sessions, lifetimes and clock: rotation hands a token on to one
\* successor but for the rotations that raced, a revoked session stores no more tokens
\* late than there are processes, and no process refuses a live session for what it
\* remembers of others.
THEOREM SessionHolds == SessionSpec => []SessionInv
<1>1. SessionInit => SessionIInv
  BY SessionStarts
<1>2. SessionIInv /\ [SessionNext]_sessionVars => SessionIInv'
  BY SessionSteps
<1>3. SessionIInv => SessionInv
  BY SessionImplied
<1> QED
  BY <1>1, <1>2, <1>3, PTL DEF SessionSpec

-----------------------------------------------------------------------------
USE BreakerAssumption

\* An answer about a dependency is one that a health request may hold: a service that can be
\* reached fails only for a breaker whose timeout still runs.
SoundAnswer(given) == given \in HealthAnswers /\ (given.status = "fail" /\ given.reached => given.left > 0)

ProbeStands ==
  /\ probe = [kind |-> probe.kind, answer |-> probe.answer, verdict |-> probe.verdict]
  /\ \A d \in DOMAIN probe.answer : d \in Dependencies(probe.kind) /\ SoundAnswer(probe.answer[d])

CallsThrough(b) == {c \in Calls : through[c] = b}

BreakersStand ==
  /\ breaker \in [Breakers -> BreakerRecord]
  /\ through \in [Calls -> Breakers \cup {NoBreaker}]
  /\ CountMatchesState /\ SlotsAreHeld

BreakerIInv == BreakersStand /\ ProbeStands

-----------------------------------------------------------------------------
\* What a function from breaker to breaker may do: keep state and count in step.
Agrees(x) == x.state = "CLOSED" <=> x.failures < FailureThreshold

LEMMA BreakerNumbers ==
  /\ FailureThreshold \in Nat \ {0} /\ RecoveryTime \in Nat \ {0} /\ ProbeCount \in Nat \ {0}
OBVIOUS

LEMMA BreakerValues ==
  /\ "CLOSED" \in BreakerStates /\ "OPEN" \in BreakerStates /\ "HALF_OPEN" \in BreakerStates
  /\ 0 \in 0 .. ProbeCount /\ 0 \in 0 .. RecoveryTime /\ 0 \in 0 .. FailureThreshold
  /\ RecoveryTime \in 0 .. RecoveryTime /\ FailureThreshold \in 0 .. FailureThreshold
BY BreakerNumbers DEF BreakerStates

LEMMA LessIs == \A n \in Nat : Less(n) \in Nat /\ Less(n) <= n /\ (n > 0 => Less(n) = n - 1)
BY DEF Less

\* A breaker, field by field.
LEMMA BreakerFields ==
  ASSUME NEW x \in BreakerRecord
  PROVE  /\ x.state \in BreakerStates /\ x.failures \in 0 .. FailureThreshold
         /\ x.cooling \in 0 .. RecoveryTime /\ x.probes \in 0 .. ProbeCount
BY DEF BreakerRecord

LEMMA EvaluatedStands ==
  ASSUME NEW x \in BreakerRecord, Agrees(x)
  PROVE  /\ Evaluated(x) \in BreakerRecord /\ Agrees(Evaluated(x))
         /\ Evaluated(x).probes <= x.probes
         /\ Evaluated(x).state = "OPEN" => Evaluated(x).cooling \in 1 .. RecoveryTime
<1>0. /\ x.state \in BreakerStates /\ x.failures \in 0 .. FailureThreshold
      /\ x.cooling \in 0 .. RecoveryTime /\ x.probes \in 0 .. ProbeCount
  BY BreakerFields
<1>1. CASE x.state = "OPEN" /\ x.cooling = 0
  <2> DEFINE y == [x EXCEPT !.state = "HALF_OPEN", !.probes = 0]
  <2>1. y \in BreakerRecord /\ y.state = "HALF_OPEN" /\ y.probes = 0 /\ y.failures = x.failures
    BY ONLY x \in BreakerRecord, BreakerValues DEF BreakerRecord
  <2>2. Evaluated(x) = y
    BY <1>1 DEF Evaluated
  <2> HIDE DEF y
  <2>3. Agrees(y)
    BY <1>1, <2>1 DEF Agrees
  <2> QED
    BY <1>0, <2>1, <2>2, <2>3
<1>2. CASE ~(x.state = "OPEN" /\ x.cooling = 0)
  <2>1. Evaluated(x) = x
    BY <1>2 DEF Evaluated
  <2> QED
    BY <1>0, <1>2, <2>1, BreakerNumbers
<1> QED
  BY <1>1, <1>2

LEMMA CountedStands ==
  ASSUME NEW x \in BreakerRecord
  PROVE  /\ Counted(x) \in BreakerRecord /\ Counted(x).state = x.state /\ Counted(x).probes = x.probes
         /\ Counted(x).failures >= x.failures
BY BreakerNumbers DEF Counted, BreakerRecord

LEMMA TrippedStands ==
  ASSUME NEW x \in BreakerRecord, x.failures = FailureThreshold
  PROVE  Tripped(x) \in BreakerRecord /\ Agrees(Tripped(x)) /\ Tripped(x).probes = 0
<1> DEFINE y == [x EXCEPT !.state = "OPEN", !.cooling = RecoveryTime, !.probes = 0]
<1>1. y \in BreakerRecord /\ y.state = "OPEN" /\ y.probes = 0 /\ y.failures = FailureThreshold
  BY ONLY x \in BreakerRecord, x.failures = FailureThreshold, BreakerValues DEF BreakerRecord
<1>2. Tripped(x) = y
  BY DEF Tripped
<1> HIDE DEF y
<1>3. Agrees(y)
  BY <1>1, BreakerNumbers DEF Agrees
<1> QED
  BY <1>1, <1>2, <1>3

LEMMA HealedStands ==
  ASSUME NEW x \in BreakerRecord, Agrees(x)
  PROVE  /\ Healed(x) \in BreakerRecord /\ Agrees(Healed(x)) /\ Healed(x).probes <= Less(x.probes)
<1>1. x.probes \in 0 .. ProbeCount /\ Less(x.probes) \in 0 .. ProbeCount
  BY LessIs, BreakerNumbers, BreakerFields
<1>2. PICK p \in 0 .. ProbeCount : p = IF x.state = "CLOSED" THEN Less(x.probes) ELSE 0
  BY <1>1, BreakerNumbers
<1> DEFINE y == [x EXCEPT !.state = "CLOSED", !.failures = 0, !.probes = p]
<1>3. y \in BreakerRecord /\ y.state = "CLOSED" /\ y.probes = p /\ y.failures = 0
  BY ONLY x \in BreakerRecord, BreakerValues, p \in 0 .. ProbeCount DEF BreakerRecord
<1>4. Healed(x) = y
  BY <1>2 DEF Healed, BreakerRecord
<1> HIDE DEF y
<1>5. Agrees(y)
  BY <1>3, BreakerNumbers DEF Agrees
<1>6. p <= Less(x.probes)
  BY <1>1, <1>2
<1> QED
  BY <1>3, <1>4, <1>5, <1>6

LEMMA ReleasedStands ==
  ASSUME NEW x \in BreakerRecord, Agrees(x)
  PROVE  /\ Released(x) \in BreakerRecord /\ Agrees(Released(x)) /\ Released(x).probes = Less(x.probes)
<1>1. x.probes \in Nat /\ Less(x.probes) \in Nat /\ Less(x.probes) <= x.probes
  BY LessIs DEF BreakerRecord
<1> QED
  BY <1>1, BreakerNumbers DEF Released, BreakerRecord, BreakerStates, Agrees

LEMMA FailedStands ==
  ASSUME NEW x \in BreakerRecord, Agrees(x)
  PROVE  /\ Failed(x) \in BreakerRecord /\ Agrees(Failed(x)) /\ Failed(x).probes <= x.probes
         /\ VeniceFailed(x) \in BreakerRecord /\ Agrees(VeniceFailed(x))
         /\ VeniceFailed(x).probes <= Less(x.probes)
<1> DEFINE y == Counted(x)
           z == [Counted(x) EXCEPT !.probes = Less(Counted(x).probes)]
<1>0. x.probes \in Nat /\ Less(x.probes) \in Nat /\ Less(x.probes) <= x.probes
  BY LessIs DEF BreakerRecord
<1>1. /\ y \in BreakerRecord /\ y.state = x.state /\ y.probes = x.probes
      /\ y.failures = IF x.failures = FailureThreshold THEN x.failures ELSE x.failures + 1
  BY CountedStands DEF Counted, BreakerRecord
<1>2. z \in BreakerRecord /\ z.state = x.state /\ z.probes = Less(x.probes) /\ z.failures = y.failures
  BY <1>0, <1>1 DEF BreakerRecord
<1>3. y.failures # FailureThreshold => Agrees(y) /\ Agrees(z)
  BY <1>1, <1>2, BreakerNumbers DEF Agrees, BreakerRecord
<1>4. y.failures = FailureThreshold =>
        /\ Tripped(y) \in BreakerRecord /\ Agrees(Tripped(y)) /\ Tripped(y).probes = 0
        /\ Tripped(z) \in BreakerRecord /\ Agrees(Tripped(z)) /\ Tripped(z).probes = 0
  BY <1>1, <1>2, TrippedStands
<1>5. Failed(x) = (IF y.failures = FailureThreshold THEN Tripped(y) ELSE y)
  BY DEF Failed
<1>6. VeniceFailed(x) = (IF x.state = "HALF_OPEN" \/ (x.state = "CLOSED" /\ z.failures = FailureThreshold)
                         THEN Tripped(z) ELSE z)
  BY DEF VeniceFailed
<1> HIDE DEF y, z
<1>7. Failed(x) \in BreakerRecord /\ Agrees(Failed(x)) /\ Failed(x).probes <= x.probes
  BY <1>0, <1>1, <1>3, <1>4, <1>5
<1>8. x.state = "HALF_OPEN" => z.failures = FailureThreshold
  BY <1>1, <1>2, BreakerNumbers DEF Agrees, BreakerRecord
<1>9. x.state # "CLOSED" /\ x.state # "HALF_OPEN" => Agrees(z)
  BY <1>1, <1>2, BreakerNumbers DEF Agrees, BreakerRecord
<1>10. x.state \in {"CLOSED", "OPEN", "HALF_OPEN"}
  BY DEF BreakerRecord, BreakerStates
<1>11. Less(x.probes) <= Less(x.probes) /\ 0 <= Less(x.probes)
  BY <1>0
<1> QED
  BY <1>2, <1>3, <1>4, <1>6, <1>7, <1>8, <1>9, <1>10, <1>11

-----------------------------------------------------------------------------
LEMMA ThroughFinite == \A b : IsFiniteSet(CallsThrough(b)) /\ Cardinality(CallsThrough(b)) \in Nat
BY FS_Subset, FS_CardinalityType DEF CallsThrough

\* Breakers that are looked at, cooled or summarized: no call begins or ends.
LEMMA BreakersMove ==
  ASSUME BreakersStand, through' = through, breaker' \in [Breakers -> BreakerRecord],
         \A b \in Breakers : Agrees(breaker'[b]) /\ breaker'[b].probes <= breaker[b].probes
  PROVE  BreakersStand'
<1>1. CountMatchesState'
  BY DEF CountMatchesState, Agrees
<1>2. SlotsAreHeld'
  <2> SUFFICES ASSUME NEW b \in VeniceBreakers
               PROVE  breaker'[b].probes <= Cardinality({c \in Calls : through[c] = b})
    BY DEF SlotsAreHeld
  <2>1. /\ breaker[b].probes \in Nat /\ breaker'[b].probes \in Nat /\ breaker'[b].probes <= breaker[b].probes
        /\ breaker[b].probes <= Cardinality({c \in Calls : through[c] = b})
    BY DEF BreakersStand, SlotsAreHeld, BreakerRecord
  <2>2. Cardinality({c \in Calls : through[c] = b}) \in Nat
    BY ThroughFinite DEF CallsThrough
  <2> QED
    BY <2>1, <2>2
<1> QED
  BY <1>1, <1>2 DEF BreakersStand

LEMMA AllAgree ==
  ASSUME BreakersStand, NEW b \in Breakers
  PROVE  breaker[b] \in BreakerRecord /\ Agrees(breaker[b])
BY DEF BreakersStand, CountMatchesState, Agrees

LEMMA SummarizedStands ==
  ASSUME BreakersStand, NEW instances
  PROVE  /\ Summarized(instances) \in [Breakers -> BreakerRecord]
         /\ \A b \in Breakers : /\ Agrees(Summarized(instances)[b])
                                /\ Summarized(instances)[b].probes <= breaker[b].probes
                                /\ b \in instances /\ Summarized(instances)[b].state = "OPEN" =>
                                     Summarized(instances)[b].cooling \in 1 .. RecoveryTime
<1> DEFINE value(b) == IF b \in instances THEN Evaluated(breaker[b]) ELSE breaker[b]
<1>1. \A b \in Breakers :
        /\ value(b) \in BreakerRecord /\ Agrees(value(b)) /\ value(b).probes <= breaker[b].probes
        /\ b \in instances /\ value(b).state = "OPEN" => value(b).cooling \in 1 .. RecoveryTime
  <2> SUFFICES ASSUME NEW b \in Breakers
               PROVE  /\ value(b) \in BreakerRecord /\ Agrees(value(b)) /\ value(b).probes <= breaker[b].probes
                      /\ b \in instances /\ value(b).state = "OPEN" => value(b).cooling \in 1 .. RecoveryTime
    OBVIOUS
  <2>1. breaker[b] \in BreakerRecord /\ Agrees(breaker[b]) /\ breaker[b].probes <= breaker[b].probes
    BY AllAgree, BreakerFields
  <2> QED
    BY <2>1, EvaluatedStands
<1>2. Summarized(instances) = [b \in Breakers |-> value(b)]
  BY DEF Summarized
<1> HIDE DEF value
<1> QED
  BY <1>1, <1>2

LEMMA LookKeeps ==
  ASSUME BreakersStand, NEW b \in Breakers, Look(b)
  PROVE  BreakersStand'
<1>1. breaker[b] \in BreakerRecord /\ Agrees(breaker[b])
  BY AllAgree
<1>2. PICK x \in BreakerRecord : x = Evaluated(breaker[b]) /\ Agrees(x) /\ x.probes <= breaker[b].probes
  BY <1>1, EvaluatedStands
<1>3. breaker \in [Breakers -> BreakerRecord] /\ breaker' = [breaker EXCEPT ![b] = x] /\ through' = through
  BY <1>2 DEF Look, BreakersStand
<1>4. \A a \in Breakers : Agrees(breaker'[a]) /\ breaker'[a].probes <= breaker[a].probes
  <2> SUFFICES ASSUME NEW a \in Breakers PROVE Agrees(breaker'[a]) /\ breaker'[a].probes <= breaker[a].probes
    OBVIOUS
  <2>1. Agrees(breaker[a]) /\ breaker[a].probes <= breaker[a].probes
    BY AllAgree, BreakerFields
  <2> QED
    BY <1>2, <1>3, <2>1
<1> QED
  BY <1>3, <1>4, BreakersMove

LEMMA CoolKeeps ==
  ASSUME BreakersStand, Cool
  PROVE  BreakersStand'
<1>1. ASSUME NEW b \in Breakers
      PROVE  LET x == [breaker[b] EXCEPT !.cooling = Less(breaker[b].cooling)] IN
             x \in BreakerRecord /\ Agrees(x) /\ x.probes <= breaker[b].probes
  <2>1. breaker[b] \in BreakerRecord /\ Agrees(breaker[b])
    BY AllAgree
  <2>2. PICK n \in 0 .. RecoveryTime : n = Less(breaker[b].cooling)
    BY <2>1, LessIs, BreakerFields, BreakerNumbers
  <2> DEFINE x == [breaker[b] EXCEPT !.cooling = n]
  <2>3. /\ x \in BreakerRecord /\ x.state = breaker[b].state /\ x.failures = breaker[b].failures
        /\ x.probes = breaker[b].probes
    BY <2>1 DEF BreakerRecord
  <2> HIDE DEF x
  <2>4. Agrees(x) /\ x.probes <= breaker[b].probes
    BY <2>1, <2>3, BreakerFields DEF Agrees
  <2> QED
    BY <2>2, <2>3, <2>4 DEF x
<1>2. breaker' = [b \in Breakers |-> [breaker[b] EXCEPT !.cooling = Less(breaker[b].cooling)]] /\ through' = through
  BY DEF Cool
<1>3. breaker' \in [Breakers -> BreakerRecord] /\ \A b \in Breakers : Agrees(breaker'[b]) /\ breaker'[b].probes <= breaker[b].probes
  BY <1>1, <1>2
<1> QED
  BY <1>2, <1>3, BreakersMove

LEMMA SlotsFact ==
  ASSUME BreakersStand, NEW v \in VeniceBreakers
  PROVE  LET old == {c \in Calls : through[c] = v} IN
         /\ IsFiniteSet(old) /\ Cardinality(old) \in Nat
         /\ breaker[v].probes <= Cardinality(old) /\ breaker[v].probes \in Nat
<1>1. IsFiniteSet({c \in Calls : through[c] = v}) /\ Cardinality({c \in Calls : through[c] = v}) \in Nat
  BY ThroughFinite DEF CallsThrough
<1>2. breaker[v].probes <= Cardinality({c \in Calls : through[c] = v})
  BY DEF BreakersStand, SlotsAreHeld
<1>3. breaker[v].probes \in Nat
  BY AllAgree, BreakerFields
<1> QED
  BY <1>1, <1>2, <1>3

\* A call begins: the slot that it may take is counted with it.
LEMMA BeginKeeps ==
  ASSUME BreakersStand, NEW c \in Calls, NEW b \in Breakers, Begin(c, b)
  PROVE  BreakersStand'
<1>1. breaker[b] \in BreakerRecord /\ Agrees(breaker[b]) /\ through[c] = NoBreaker
      /\ breaker \in [Breakers -> BreakerRecord] /\ through \in [Calls -> Breakers \cup {NoBreaker}]
  BY AllAgree DEF Begin, BreakersStand
<1>2. PICK x \in BreakerRecord : x = Evaluated(breaker[b]) /\ Agrees(x) /\ x.probes <= breaker[b].probes
  BY <1>1, EvaluatedStands
<1>3. PICK y : y = IF x.state = "HALF_OPEN" /\ b \in VeniceBreakers THEN [x EXCEPT !.probes = x.probes + 1] ELSE x
  OBVIOUS
<1>4. breaker' = [breaker EXCEPT ![b] = y] /\ through' = [through EXCEPT ![c] = b] /\ Admits(b, x)
  BY <1>2, <1>3 DEF Begin, BreakerRecord
<1>5. /\ x.probes \in 0 .. ProbeCount /\ breaker[b].probes \in 0 .. ProbeCount
  BY <1>1, BreakerFields
<1>6. y \in BreakerRecord /\ Agrees(y) /\ y.probes <= x.probes + 1 /\ (y.probes # x.probes => b \in VeniceBreakers)
  <2>1. CASE x.state = "HALF_OPEN" /\ b \in VeniceBreakers
    <3>1. x.probes + 1 \in 0 .. ProbeCount
      BY <1>4, <1>5, <2>1, BreakerNumbers DEF Admits
    <3>2. y \in BreakerRecord /\ y.state = x.state /\ y.failures = x.failures /\ y.probes = x.probes + 1
      BY <1>3, <2>1, <3>1 DEF BreakerRecord
    <3> QED
      BY <1>2, <1>5, <2>1, <3>2 DEF Agrees
  <2>2. CASE ~(x.state = "HALF_OPEN" /\ b \in VeniceBreakers)
    BY <1>2, <1>3, <1>5, <2>2
  <2> QED
    BY <2>1, <2>2
<1>7. breaker' \in [Breakers -> BreakerRecord] /\ through' \in [Calls -> Breakers \cup {NoBreaker}]
  BY <1>1, <1>4, <1>6
<1>8. CountMatchesState'
  BY <1>1, <1>4, <1>6 DEF BreakersStand, CountMatchesState, Agrees
<1>9. SlotsAreHeld'
  <2> SUFFICES ASSUME NEW v \in VeniceBreakers
               PROVE  breaker'[v].probes <= Cardinality({d \in Calls : through'[d] = v})
    BY DEF SlotsAreHeld
  <2> DEFINE old == {d \in Calls : through[d] = v}
             new == {d \in Calls : through'[d] = v}
  <2>0. /\ IsFiniteSet(old) /\ Cardinality(old) \in Nat /\ breaker[v].probes <= Cardinality(old)
        /\ breaker[v].probes \in Nat
    BY SlotsFact
  <2>1. CASE v = b
    <3>1. new = old \cup {c} /\ c \notin old
      BY <1>1, <1>4, <2>1
    <3>2. Cardinality(new) = Cardinality(old) + 1
      BY <2>0, <3>1, FS_AddElement
    <3>3. breaker'[v] = y
      BY <1>1, <1>4, <2>1
    <3>4. y.probes \in Nat
      BY <1>6 DEF BreakerRecord
    <3> HIDE DEF old, new
    <3>5. y.probes <= breaker[v].probes + 1
      BY <1>2, <1>5, <1>6, <2>0, <2>1, <3>4
    <3>6. y.probes <= Cardinality(new)
      BY <2>0, <3>2, <3>4, <3>5
    <3> QED
      BY <3>3, <3>6 DEF new
  <2>2. CASE v # b
    <3>1. new = old /\ breaker'[v] = breaker[v]
      BY <1>1, <1>4, <2>2
    <3> QED
      BY <2>0, <3>1
  <2> QED
    BY <2>1, <2>2
<1> QED
  BY <1>7, <1>8, <1>9 DEF BreakersStand

\* A call ends: a breaker with slots gives one back, if it has any.
LEMMA SettleKeeps ==
  ASSUME BreakersStand, NEW c \in Calls, through[c] \in Breakers, NEW x \in BreakerRecord, Settle(c, x),
         Agrees(x), through[c] \in VeniceBreakers => x.probes <= Less(breaker[through[c]].probes)
  PROVE  BreakersStand'
<1>0. PICK b \in Breakers : b = through[c]
  OBVIOUS
<1>1. /\ breaker \in [Breakers -> BreakerRecord] /\ through \in [Calls -> Breakers \cup {NoBreaker}]
      /\ breaker' = [breaker EXCEPT ![b] = x] /\ through' = [through EXCEPT ![c] = NoBreaker]
  BY <1>0 DEF Settle, BreakersStand
<1>2. breaker' \in [Breakers -> BreakerRecord] /\ through' \in [Calls -> Breakers \cup {NoBreaker}]
  BY <1>1
<1>3. CountMatchesState'
  BY <1>1 DEF BreakersStand, CountMatchesState, Agrees
<1>4. SlotsAreHeld'
  <2> SUFFICES ASSUME NEW v \in VeniceBreakers
               PROVE  breaker'[v].probes <= Cardinality({d \in Calls : through'[d] = v})
    BY DEF SlotsAreHeld
  <2> DEFINE old == {d \in Calls : through[d] = v}
             new == {d \in Calls : through'[d] = v}
  <2>0. /\ IsFiniteSet(old) /\ Cardinality(old) \in Nat /\ breaker[v].probes <= Cardinality(old)
        /\ breaker[v].probes \in Nat
    BY SlotsFact
  <2>1. CASE v = b
    <3>1. new = old \ {c} /\ c \in old
      BY <1>0, <1>1, <2>1
    <3> HIDE DEF old, new
    <3>2. Cardinality(new) = Cardinality(old) - 1
      BY <2>0, <3>1, FS_RemoveElement
    <3>3. breaker'[v] = x
      BY <1>1, <2>1
    <3>4. x.probes \in Nat /\ x.probes <= Less(breaker[v].probes)
      BY <1>0, <2>1 DEF BreakerRecord
    <3>5. Cardinality(old) > 0
      BY <2>0, <3>1, FS_EmptySet
    <3>7. Less(breaker[v].probes) \in Nat /\ (breaker[v].probes > 0 => Less(breaker[v].probes) = breaker[v].probes - 1)
          /\ Less(breaker[v].probes) <= breaker[v].probes
      BY <2>0, LessIs
    <3>6. x.probes <= Cardinality(new)
      BY <2>0, <3>2, <3>4, <3>5, <3>7
    <3> QED
      BY <3>3, <3>6 DEF new
  <2>2. CASE v # b
    <3>1. new = old /\ breaker'[v] = breaker[v]
      BY <1>0, <1>1, <2>2
    <3> QED
      BY <2>0, <3>1
  <2> QED
    BY <2>1, <2>2
<1> QED
  BY <1>2, <1>3, <1>4 DEF BreakersStand

LEMMA BreakerStepKeeps ==
  ASSUME BreakersStand, BreakerStep
  PROVE  BreakersStand'
<1>1. ASSUME NEW instances, Summarize(instances) PROVE BreakersStand'
  <2>1. breaker' = Summarized(instances) /\ through' = through
    BY <1>1 DEF Summarize
  <2> QED
    BY <2>1, SummarizedStands, BreakersMove
<1>2. ASSUME NEW c \in Calls, Succeed(c) \/ Fail(c) \/ LetGo(c) PROVE BreakersStand'
  <2>1. through[c] \in Breakers
    BY <1>2 DEF Succeed, Fail, LetGo, BreakersStand
  <2>2. PICK b \in Breakers : b = through[c]
    BY <2>1
  <2>3. breaker[b] \in BreakerRecord /\ Agrees(breaker[b])
    BY AllAgree
  <2>4. CASE Succeed(c)
    BY <2>1, <2>2, <2>3, <2>4, HealedStands, SettleKeeps DEF Succeed
  <2>5. CASE Fail(c)
    BY <2>1, <2>2, <2>3, <2>5, FailedStands, SettleKeeps DEF Fail
  <2>6. CASE LetGo(c)
    <3>1. Released(breaker[b]).probes <= Less(breaker[b].probes)
      BY <2>3, ReleasedStands, BreakerFields
    <3> QED
      BY <2>1, <2>2, <2>3, <2>6, <3>1, ReleasedStands, SettleKeeps DEF LetGo
  <2> QED
    BY <1>2, <2>4, <2>5, <2>6
<1> QED
  BY <1>1, <1>2, LookKeeps, BeginKeeps, CoolKeeps DEF BreakerStep

-----------------------------------------------------------------------------
\* combine: what it says of breakers that have just been summarized is sound.
LEMMA CombinedSound ==
  ASSUME NEW reached \in BOOLEAN, NEW bs \in SUBSET BreakerRecord,
         \A x \in bs : x.state = "OPEN" => x.cooling \in 1 .. RecoveryTime
  PROVE  SoundAnswer(Combined(reached, bs))
<1> DEFINE open == {x \in bs : x.state = "OPEN"}
           half == {x \in bs : x.state = "HALF_OPEN"}
           coolings == {x.cooling : x \in open}
           left == IF open = {} THEN 0 ELSE CHOOSE n \in coolings : \A x \in open : x.cooling <= n
           status == CASE open # {} \/ ~reached -> "fail"
                       [] half # {} -> "degraded"
                       [] OTHER -> "ok"
<1>1. Combined(reached, bs) = [status |-> status, reached |-> reached, left |-> left]
  BY DEF Combined
<1>2. /\ left \in 0 .. RecoveryTime
      /\ open # {} => left > 0
  <2>1. CASE open = {}
    BY <2>1, BreakerNumbers
  <2>2. CASE open # {}
    <3>1. coolings \subseteq 1 .. RecoveryTime /\ coolings # {}
      BY <2>2
    <3>2. \E n \in coolings : \A m \in coolings : m <= n
      BY <3>1, GreatestExists, BreakerNumbers
    <3>3. \E n \in coolings : \A x \in open : x.cooling <= n
      BY <3>2
    <3>4. left \in coolings
      BY <2>2, <3>3
    <3> HIDE DEF coolings, left, open
    <3> QED
      BY <3>1, <3>4, BreakerNumbers
  <2> QED
    BY <2>1, <2>2
<1>3. status \in {"ok", "degraded", "fail"} /\ (status = "fail" /\ reached => open # {})
  OBVIOUS
<1> HIDE DEF left, status, open
<1> QED
  BY <1>1, <1>2, <1>3 DEF SoundAnswer, HealthAnswers

LEMMA PlainSound ==
  ASSUME NEW status \in {"ok", "degraded", "fail"}
  PROVE  SoundAnswer(Plain(status))
BY BreakerNumbers DEF SoundAnswer, Plain, HealthAnswers

LEMMA HearsKeeps ==
  ASSUME ProbeStands, NEW d, NEW given, Asking(d), Hears(d, given), SoundAnswer(given)
  PROVE  ProbeStands'
<1>1. PICK after : after = [x \in DOMAIN probe.answer \cup {d} |-> IF x = d THEN given ELSE probe.answer[x]]
  OBVIOUS
<1>2. probe' = [probe EXCEPT !.answer = after]
  BY <1>1 DEF Hears
<1>3. probe' = [kind |-> probe.kind, answer |-> after, verdict |-> probe.verdict]
  BY <1>2 DEF ProbeStands
<1>4. probe'.kind = probe.kind /\ probe'.answer = after /\ probe'.verdict = probe.verdict
  BY <1>3
<1>5. d \in Dependencies(probe.kind)
  BY DEF Asking
<1>6. \A x \in DOMAIN after : x \in Dependencies(probe.kind) /\ SoundAnswer(after[x])
  <2> SUFFICES ASSUME NEW x \in DOMAIN after PROVE x \in Dependencies(probe.kind) /\ SoundAnswer(after[x])
    OBVIOUS
  <2>1. CASE x = d
    BY <1>1, <1>5, <2>1
  <2>2. CASE x # d
    <3>1. x \in DOMAIN probe.answer /\ after[x] = probe.answer[x]
      BY <1>1, <2>2
    <3> QED
      BY <3>1 DEF ProbeStands
  <2> QED
    BY <2>1, <2>2
<1> QED
  BY <1>3, <1>4, <1>6 DEF ProbeStands

LEMMA ProbeStepKeeps ==
  ASSUME BreakerIInv, ProbeStep
  PROVE  BreakerIInv'
<1>0. BreakersStand /\ ProbeStands
  BY DEF BreakerIInv
<1>1. ASSUME UNCHANGED <<breaker, through>> PROVE BreakersStand'
  BY <1>0, <1>1 DEF BreakersStand, CountMatchesState, SlotsAreHeld
<1>2. ASSUME NEW kind \in {"deep", "ready"}, AskHealth(kind) PROVE BreakerIInv'
  <2>1. probe' = [kind |-> kind, answer |-> <<>>, verdict |-> "none"] /\ UNCHANGED <<breaker, through>>
    BY <1>2 DEF AskHealth
  <2>2. probe'.answer = <<>> /\ DOMAIN <<>> = {}
    BY <2>1
  <2>3. ProbeStands'
    BY <2>1, <2>2 DEF ProbeStands
  <2> QED
    BY <1>1, <2>1, <2>3 DEF BreakerIInv
<1>3. ASSUME NEW d \in {"venice", "horizon"}, NEW reached \in BOOLEAN, CheckUpstream(d, reached)
      PROVE  BreakerIInv'
  <2>1. breaker' = Summarized(Instances(d)) /\ through' = through /\ Asking(d)
        /\ Hears(d, Combined(reached, {breaker'[b] : b \in Instances(d)}))
    BY <1>3 DEF CheckUpstream
  <2>2. Instances(d) \subseteq Breakers
    BY DEF Instances
  <2>3. /\ breaker' \in [Breakers -> BreakerRecord]
        /\ \A b \in Breakers : Agrees(breaker'[b]) /\ breaker'[b].probes <= breaker[b].probes
        /\ \A b \in Instances(d) : breaker'[b].state = "OPEN" => breaker'[b].cooling \in 1 .. RecoveryTime
    BY <1>0, <2>1, <2>2, SummarizedStands
  <2>4. BreakersStand'
    BY <1>0, <2>1, <2>3, BreakersMove
  <2>5. PICK bs : bs = {breaker'[b] : b \in Instances(d)}
    OBVIOUS
  <2>6. bs \in SUBSET BreakerRecord /\ \A x \in bs : x.state = "OPEN" => x.cooling \in 1 .. RecoveryTime
    BY <2>2, <2>3, <2>5
  <2>7. SoundAnswer(Combined(reached, bs)) /\ Hears(d, Combined(reached, bs))
    BY <2>1, <2>5, <2>6, CombinedSound
  <2>8. ProbeStands'
    BY <1>0, <2>1, <2>7, HearsKeeps
  <2> QED
    BY <2>4, <2>8 DEF BreakerIInv
<1>4. ASSUME NEW status \in {"ok", "degraded", "fail"}, NEW d, Asking(d), Hears(d, Plain(status)),
             UNCHANGED <<breaker, through>>
      PROVE  BreakerIInv'
  BY <1>0, <1>1, <1>4, HearsKeeps, PlainSound DEF BreakerIInv
<1>5. ASSUME AnswerHealth PROVE BreakerIInv'
  <2>1. UNCHANGED <<breaker, through>>
    BY <1>5 DEF AnswerHealth
  <2>2. PICK v : probe' = [probe EXCEPT !.verdict = v]
    BY <1>5 DEF AnswerHealth
  <2>3. probe' = [kind |-> probe.kind, answer |-> probe.answer, verdict |-> v]
    BY <1>0, <2>2 DEF ProbeStands
  <2>4. probe'.kind = probe.kind /\ probe'.answer = probe.answer /\ probe'.verdict = v
    BY <2>3
  <2>5. ProbeStands'
    BY <1>0, <2>3, <2>4 DEF ProbeStands
  <2> QED
    BY <1>1, <2>1, <2>5 DEF BreakerIInv
<1> QED
  BY <1>2, <1>3, <1>4, <1>5 DEF ProbeStep, CheckDatabase, CheckQueue, CheckReady

LEMMA BreakerStarts ==
  ASSUME BreakerInit
  PROVE  BreakerIInv
<1>1. /\ \A b \in Breakers : breaker[b] = [state |-> "CLOSED", failures |-> 0, cooling |-> 0, probes |-> 0]
      /\ [state |-> "CLOSED", failures |-> 0, cooling |-> 0, probes |-> 0] \in BreakerRecord
      /\ breaker \in [Breakers -> BreakerRecord] /\ through \in [Calls -> Breakers \cup {NoBreaker}]
  BY BreakerValues DEF BreakerInit, BreakerRecord
<1>2. CountMatchesState
  BY <1>1, BreakerNumbers DEF CountMatchesState
<1>3. SlotsAreHeld
  <2>1. ASSUME NEW b \in VeniceBreakers
        PROVE  breaker[b].probes <= Cardinality({c \in Calls : through[c] = b})
    <3>1. Cardinality({c \in Calls : through[c] = b}) \in Nat
      BY ThroughFinite DEF CallsThrough
    <3>2. breaker[b].probes = 0
      BY <1>1
    <3> QED
      BY <3>1, <3>2
  <2> QED
    BY <2>1 DEF SlotsAreHeld
<1>4. ProbeStands
  <2>1. probe = [kind |-> "none", answer |-> <<>>, verdict |-> "none"]
    BY DEF BreakerInit, NoProbe
  <2>2. probe.answer = <<>> /\ DOMAIN <<>> = {}
    BY <2>1
  <2> QED
    BY <2>1, <2>2 DEF ProbeStands
<1> QED
  BY <1>1, <1>2, <1>3, <1>4 DEF BreakerIInv, BreakersStand

\* In every reachable state of the breakers (services/circuitBreaker.ts and its Venice sibling)
\* the failure count says whether one is closed, no probe slot is held by nobody, and what the
\* health probes answer (services/deepHealth.ts) tells of them what callers will meet.
THEOREM BreakerHolds == BreakerSpec => []BreakerInv
<1>1. BreakerInit => BreakerIInv
  BY BreakerStarts
<1>2. BreakerIInv /\ [BreakerNext]_breakerVars => BreakerIInv'
  <2> SUFFICES ASSUME BreakerIInv, [BreakerNext]_breakerVars PROVE BreakerIInv'
    OBVIOUS
  <2>1. ASSUME BreakerStep, UNCHANGED probe PROVE BreakerIInv'
    BY <2>1, BreakerStepKeeps DEF BreakerIInv, ProbeStands
  <2>2. ASSUME UNCHANGED breakerVars PROVE BreakerIInv'
    BY <2>2 DEF breakerVars, BreakerIInv, BreakersStand, CountMatchesState, SlotsAreHeld, ProbeStands
  <2> QED
    BY <2>1, <2>2, ProbeStepKeeps DEF BreakerNext
<1>3. BreakerIInv => BreakerInv
  BY DEF BreakerIInv, BreakersStand, ProbeStands, SoundAnswer, BreakerInv, BreakerTypeOK, RefusalsPass
<1> QED
  BY <1>1, <1>2, <1>3, PTL DEF BreakerSpec

-----------------------------------------------------------------------------
-----------------------------------------------------------------------------
(***************************************************************************)
(* The tiers of the event log.                                             *)
(***************************************************************************)
DayRows == UNION {dayFile[d] : d \in Days}
Behind == archived \cup expired \cup DayRows

\* Nothing is numbered before the store was opened for the first time.
Unopened == live = {} /\ \A t \in StreamTasks : nextSeq[t] = 0

Has(rows, k) == \E r \in rows : KeyOfRow(r) = k

\* A number that was given out is of a row, and no row is in both.
NumbersKept == \A t \in StreamTasks : \A n \in 0 .. nextSeq[t] - 1 : Has(live \cup Behind, <<t, n>>)
RowsApart == \A r \in live : ~Has(Behind, KeyOfRow(r))

RetentionIInv ==
  /\ RetentionTypeOK /\ NumbersKept /\ RowsApart
  /\ \A r, s \in live : KeyOfRow(r) = KeyOfRow(s) => r = s
  /\ \A r \in live \cup Behind : r.seq < nextSeq[r.task]
  /\ eventLog = "open" => replaced
  /\ ~replaced => Unopened

LEMMA RetentionNumbers ==
  ASSUME RetentionAssumption, RetentionTypeOK
  PROVE  /\ MaxEvents \in Nat /\ LastDay \in Nat /\ MaxFaults \in Nat
         /\ today \in Nat /\ nextSeq \in [StreamTasks -> 0 .. MaxEvents]
         /\ \A t \in StreamTasks : nextSeq[t] \in Nat
         /\ \A r \in live \cup Behind : /\ r \in EventRows /\ r.task \in StreamTasks
                                        /\ r.seq \in Nat /\ r.day \in Days
<1>1. MaxEvents \in Nat /\ LastDay \in Nat /\ MaxFaults \in Nat
  BY DEF RetentionAssumption
<1>2. today \in Nat /\ nextSeq \in [StreamTasks -> 0 .. MaxEvents]
  BY <1>1 DEF RetentionTypeOK, Days
<1>3. \A t \in StreamTasks : nextSeq[t] \in Nat
  BY <1>1, <1>2
<1>4. \A r \in live \cup Behind : r \in EventRows
  BY DEF RetentionTypeOK, Behind, DayRows, OfDay
<1>5. \A r \in EventRows : r.task \in StreamTasks /\ r.seq \in Nat /\ r.day \in Days
  BY <1>1 DEF EventRows
<1> QED
  BY <1>1, <1>2, <1>3, <1>4, <1>5

\* Two numbers make a key.
LEMMA SameKey ==
  ASSUME NEW r, NEW s
  PROVE  KeyOfRow(r) = KeyOfRow(s) <=> r.task = s.task /\ r.seq = s.seq
BY DEF KeyOfRow

LEMMA JoinedFacts ==
  ASSUME NEW rows, NEW more
  PROVE  /\ rows \subseteq Joined(rows, more) /\ Joined(rows, more) \subseteq rows \cup more
         /\ \A r \in more : \E s \in Joined(rows, more) : KeyOfRow(s) = KeyOfRow(r)
BY DEF Joined

LEMMA RetentionStart == RetentionAssumption /\ RetentionInit => RetentionIInv
<1> SUFFICES ASSUME RetentionAssumption, RetentionInit PROVE RetentionIInv
  OBVIOUS
<1>1. MaxEvents \in Nat /\ LastDay \in Nat /\ MaxFaults \in Nat
  BY DEF RetentionAssumption
<1>2. /\ live = {} /\ archived = {} /\ expired = {} /\ \A d \in Days : dayFile[d] = {} /\ checksum[d] = {}
      /\ \A t \in StreamTasks : nextSeq[t] = 0
  BY DEF RetentionInit
<1>3. RetentionTypeOK
  <2>1. /\ summary \in [StreamTasks -> 0 .. MaxEvents] /\ nextSeq \in [StreamTasks -> 0 .. MaxEvents]
        /\ taskState \in [StreamTasks -> TerminalStatuses \cup {"running"}]
    BY <1>1 DEF RetentionInit
  <2>2. today \in Days /\ faults \in 0 .. MaxFaults
    BY <1>1 DEF RetentionInit, Days
  <2> QED
    BY <1>2, <2>1, <2>2 DEF RetentionInit, RetentionTypeOK
<1>4. Behind = {}
  BY <1>2 DEF Behind, DayRows
<1>5. NumbersKept /\ RowsApart
  BY <1>2 DEF NumbersKept, RowsApart
<1> QED
  BY <1>2, <1>3, <1>4, <1>5 DEF RetentionIInv, RetentionInit, Unopened

LEMMA RetentionShows == RetentionIInv => RetentionInv
<1> SUFFICES ASSUME RetentionIInv PROVE RetentionInv
  OBVIOUS
<1>1. archived \cup expired \subseteq Behind /\ \A d \in Days : dayFile[d] \subseteq Behind
  BY DEF Behind, DayRows
<1>2. LiveOrArchived
  <2>1. \A r \in live : \A s \in Behind : KeyOfRow(s) # KeyOfRow(r)
    BY DEF RetentionIInv, RowsApart, Has
  <2> QED
    BY <1>1, <2>1 DEF LiveOrArchived
<1>3. NothingMislaid
  <2>1. live \cup Behind = live \cup archived \cup expired \cup UNION {dayFile[d] : d \in Days}
    BY DEF Behind, DayRows
  <2> QED
    BY <2>1 DEF RetentionIInv, NumbersKept, Has, NothingMislaid
<1> QED
  BY <1>2, <1>3 DEF RetentionIInv, RetentionInv

\* Rows change the tier behind the live table.
LEMMA TiersMove ==
  ASSUME RetentionAssumption, RetentionIInv, RetentionTypeOK',
         live' = live, nextSeq' = nextSeq, eventLog' = eventLog, replaced' = replaced,
         Behind' \subseteq Behind,
         \A s \in Behind : \E r \in Behind' : KeyOfRow(r) = KeyOfRow(s)
  PROVE  RetentionIInv'
<1>1. \A k : Has(Behind, k) <=> Has(Behind', k)
  BY DEF Has
<1>2. RowsApart'
  BY <1>1 DEF RetentionIInv, RowsApart, Has
<1>3. NumbersKept'
  <2> SUFFICES ASSUME NEW t \in StreamTasks, NEW n \in 0 .. nextSeq[t] - 1
               PROVE  Has(live' \cup Behind', <<t, n>>)
    BY DEF NumbersKept, Has
  <2>1. Has(live \cup Behind, <<t, n>>)
    BY DEF RetentionIInv, NumbersKept
  <2> QED
    BY <1>1, <2>1 DEF Has
<1>4. \A r \in live' \cup Behind' : r.seq < nextSeq'[r.task]
  BY DEF RetentionIInv
<1>5. \A r, s \in live' : KeyOfRow(r) = KeyOfRow(s) => r = s
  BY DEF RetentionIInv
<1> QED
  BY <1>2, <1>3, <1>4, <1>5 DEF RetentionIInv, Unopened, KeyOfRow

LEMMA OpenLogStep ==
  ASSUME RetentionAssumption, RetentionIInv, OpenLog
  PROVE  RetentionIInv'
<1>1. RetentionTypeOK /\ UNCHANGED <<tierVars, taskState, faults, today>>
  BY DEF RetentionIInv, OpenLog
<1>2. UNCHANGED <<live, archived, summary, dayFile, checksum, expired>>
  BY <1>1 DEF tierVars
<1>3. Behind' = Behind
  BY <1>2 DEF Behind, DayRows
<1>4. CASE replaced
  <2>1. eventLog' = "refused" /\ replaced' = replaced /\ nextSeq' = nextSeq
    BY <1>4 DEF OpenLog
  <2>2. RetentionTypeOK'
    BY <1>1, <1>2, <2>1 DEF RetentionTypeOK
  <2> QED
    BY <1>2, <1>3, <1>4, <2>1, <2>2
    DEF RetentionIInv, NumbersKept, RowsApart, Has, KeyOfRow, Unopened
<1>5. CASE ~replaced
  <2>1. eventLog' = "open" /\ replaced' = TRUE /\ nextSeq' = [t \in StreamTasks |-> Resumed(t)]
    BY <1>5 DEF OpenLog
  <2>2. \A t \in StreamTasks : RowsOf(live, t) = {} /\ nextSeq[t] = 0
    BY <1>5 DEF RetentionIInv, Unopened, RowsOf
  <2>3. \A t \in StreamTasks : Resumed(t) = nextSeq[t]
    BY <2>2 DEF Resumed
  <2>4. nextSeq \in [StreamTasks -> 0 .. MaxEvents]
    BY <1>1 DEF RetentionTypeOK
  <2>5. nextSeq' = nextSeq
    BY <2>1, <2>3, <2>4
  <2>6. RetentionTypeOK'
    BY <1>1, <1>2, <2>1, <2>5 DEF RetentionTypeOK
  <2> QED
    BY <1>2, <1>3, <2>1, <2>5, <2>6
    DEF RetentionIInv, NumbersKept, RowsApart, Has, KeyOfRow, Unopened
<1> QED
  BY <1>4, <1>5

LEMMA EmitStep ==
  ASSUME RetentionAssumption, RetentionIInv, NEW t \in StreamTasks, NEW type \in EventTypes,
         Emit(t, type), taskState' \in [StreamTasks -> TerminalStatuses \cup {"running"}]
  PROVE  RetentionIInv'
<1> DEFINE row == [task |-> t, seq |-> nextSeq[t], type |-> type, day |-> today]
<1>1. /\ nextSeq[t] < MaxEvents /\ nextSeq' = [nextSeq EXCEPT ![t] = @ + 1]
      /\ live' = Joined(live, {row}) /\ eventLog = "open"
      /\ UNCHANGED <<archived, summary, dayFile, checksum, expired, eventLog, replaced, faults, today>>
  BY DEF Emit
<1>2. RetentionTypeOK
  BY DEF RetentionIInv
<1>3. /\ MaxEvents \in Nat /\ nextSeq \in [StreamTasks -> 0 .. MaxEvents]
      /\ \A u \in StreamTasks : nextSeq[u] \in Nat
      /\ \A r \in live \cup Behind : r \in EventRows /\ r.task \in StreamTasks /\ r.seq \in Nat
  BY <1>2, RetentionNumbers
<1>4. row \in EventRows /\ row.task = t /\ row.seq = nextSeq[t]
  <2>1. nextSeq[t] \in 0 .. MaxEvents /\ today \in Days
    BY <1>2, <1>3 DEF RetentionTypeOK
  <2> QED
    BY <2>1 DEF EventRows
<1> HIDE DEF row
<1>5. \A r \in live \cup Behind : KeyOfRow(r) # KeyOfRow(row)
  <2> SUFFICES ASSUME NEW r \in live \cup Behind, r.task = t, r.seq = nextSeq[t] PROVE FALSE
    BY <1>4, SameKey
  <2>1. r.seq < nextSeq[t]
    BY DEF RetentionIInv
  <2> QED
    BY <1>3, <2>1
<1>6. live' = live \cup {row}
  BY <1>1, <1>5 DEF Joined
<1>7. Behind' = Behind
  BY <1>1 DEF Behind, DayRows
<1>8. nextSeq' \in [StreamTasks -> 0 .. MaxEvents]
  BY <1>1, <1>3
<1>9. RetentionTypeOK'
  BY <1>1, <1>2, <1>4, <1>6, <1>8 DEF RetentionTypeOK
<1>10. \A u \in StreamTasks : nextSeq[u] <= nextSeq'[u]
  BY <1>1, <1>3
<1>11. NumbersKept'
  <2> SUFFICES ASSUME NEW u \in StreamTasks, NEW n \in 0 .. nextSeq'[u] - 1
               PROVE  Has(live' \cup Behind', <<u, n>>)
    BY DEF NumbersKept, Has
  <2>1. CASE u = t /\ n = nextSeq[t]
    BY <1>4, <1>6, <2>1 DEF Has, KeyOfRow
  <2>2. CASE ~(u = t /\ n = nextSeq[t])
    <3>1. n \in 0 .. nextSeq[u] - 1
      BY <1>1, <1>3, <2>2
    <3>2. Has(live \cup Behind, <<u, n>>)
      BY <3>1 DEF RetentionIInv, NumbersKept
    <3> QED
      BY <1>6, <1>7, <3>2 DEF Has
  <2> QED
    BY <2>1, <2>2
<1>12. RowsApart'
  <2>1. \A r \in live' : \A s \in Behind : KeyOfRow(s) # KeyOfRow(r)
    BY <1>5, <1>6 DEF RetentionIInv, RowsApart, Has
  <2> QED
    BY <1>7, <2>1 DEF RowsApart, Has
<1>13. \A r \in live' \cup Behind' : r.seq < nextSeq'[r.task]
  <2> SUFFICES ASSUME NEW r \in live' \cup Behind' PROVE r.seq < nextSeq'[r.task]
    OBVIOUS
  <2>1. CASE r = row
    BY <1>1, <1>3, <1>4, <2>1
  <2>2. CASE r # row
    <3>1. r \in live \cup Behind
      BY <1>6, <1>7, <2>2
    <3>2. r.seq < nextSeq[r.task] /\ r.task \in StreamTasks /\ r.seq \in Nat
      BY <1>3, <3>1 DEF RetentionIInv
    <3>3. nextSeq[r.task] <= nextSeq'[r.task] /\ nextSeq[r.task] \in Nat /\ nextSeq'[r.task] \in Nat
      BY <1>3, <1>8, <1>10, <3>2
    <3> QED
      BY <3>2, <3>3
  <2> QED
    BY <2>1, <2>2
<1>14. \A r, s \in live' : KeyOfRow(r) = KeyOfRow(s) => r = s
  BY <1>5, <1>6 DEF RetentionIInv
<1> QED
  BY <1>1, <1>9, <1>11, <1>12, <1>13, <1>14 DEF RetentionIInv, KeyOfRow

LEMMA EventStep ==
  ASSUME RetentionAssumption, RetentionIInv, NEW t \in StreamTasks,
         NodeEvent(t) \/ SettleTask(t) \/ CancelTask(t) \/ ParkJob(t) \/ RunAgain(t)
  PROVE  RetentionIInv'
<1> DEFINE States == [StreamTasks -> TerminalStatuses \cup {"running"}]
<1>1. taskState \in States
  BY DEF RetentionIInv, RetentionTypeOK
<1>2. CASE NodeEvent(t)
  BY <1>1, <1>2, EmitStep DEF NodeEvent, EventTypes
<1>3. CASE SettleTask(t)
  <2>1. taskState' \in States
    BY <1>1, <1>3 DEF SettleTask, TerminalStatuses
  <2> QED
    BY <1>3, <2>1, EmitStep DEF SettleTask, EventTypes
<1>4. CASE CancelTask(t)
  <2>1. taskState' \in States
    BY <1>1, <1>4 DEF CancelTask, TerminalStatuses
  <2> QED
    BY <1>4, <2>1, EmitStep DEF CancelTask, EventTypes
<1>5. CASE ParkJob(t)
  BY <1>1, <1>5, EmitStep DEF ParkJob, EventTypes
<1>6. CASE RunAgain(t)
  <2>1. /\ taskState' \in States
        /\ UNCHANGED <<tierVars, nextSeq, eventLog, replaced, faults, today>>
    BY <1>1, <1>6 DEF RunAgain
  <2>2. UNCHANGED <<live, archived, summary, dayFile, checksum, expired>>
    BY <2>1 DEF tierVars
  <2>3. RetentionTypeOK'
    BY <2>1, <2>2 DEF RetentionIInv, RetentionTypeOK
  <2>4. Behind' = Behind
    BY <2>2 DEF Behind, DayRows
  <2> QED
    BY <2>1, <2>2, <2>3, <2>4, TiersMove
<1> QED
  BY <1>2, <1>3, <1>4, <1>5, <1>6

\* A task has no more live rows than numbers.
LEMMA FewRows ==
  ASSUME RetentionAssumption, RetentionIInv, NEW t \in StreamTasks
  PROVE  Cardinality(RowsOf(live, t)) \in 0 .. MaxEvents
<1> DEFINE S == RowsOf(live, t)
           T == 0 .. MaxEvents - 1
           f == [r \in S |-> r.seq]
<1>1. /\ MaxEvents \in Nat /\ nextSeq \in [StreamTasks -> 0 .. MaxEvents]
      /\ \A r \in live \cup Behind : r.seq \in Nat
  BY RetentionNumbers DEF RetentionIInv
<1>2. \A r \in S : r \in live /\ r.task = t /\ r.seq \in Nat /\ r.seq < nextSeq[t]
  BY <1>1 DEF RowsOf, RetentionIInv
<1>3. nextSeq[t] \in Nat /\ nextSeq[t] <= MaxEvents
  BY <1>1
<1>4. f \in Injection(S, T)
  <2>1. \A r \in S : r.seq \in T
    BY <1>1, <1>2, <1>3
  <2>2. \A r, s \in S : r.seq = s.seq => r = s
    BY <1>2, SameKey DEF RetentionIInv
  <2> QED
    BY <2>1, <2>2 DEF Injection, IsInjective
<1>5. IsFiniteSet(T) /\ Cardinality(T) = MaxEvents
  <2>1. 0 \in Int /\ MaxEvents - 1 \in Int
    BY <1>1
  <2>2. IsFiniteSet(T) /\ Cardinality(T) = IF 0 > MaxEvents - 1 THEN 0 ELSE (MaxEvents - 1) - 0 + 1
    BY <2>1, FS_Interval
  <2>3. (IF 0 > MaxEvents - 1 THEN 0 ELSE (MaxEvents - 1) - 0 + 1) = MaxEvents
    BY <1>1
  <2> QED
    BY <2>2, <2>3
<1> HIDE DEF S, T, f
<1>6. IsFiniteSet(S) /\ Cardinality(S) <= MaxEvents
  BY <1>4, <1>5, FS_Injection
<1>7. Cardinality(S) \in Nat
  BY <1>6, FS_CardinalityType
<1> QED
  BY <1>1, <1>6, <1>7 DEF S

LEMMA RetentionPassStep ==
  ASSUME RetentionAssumption, RetentionIInv, RetentionPass
  PROVE  RetentionIInv'
<1>1. PICK S \in SUBSET Candidates :
         LET gone == {t \in S : Compactable(t)}
             rows == {r \in live : r.task \in gone}
         IN  /\ live' = live \ UNION {RowsPurged(t) : t \in gone}
             /\ archived' = Joined(archived, rows)
             /\ summary' = [t \in StreamTasks |->
                              IF t \in gone THEN Cardinality(RowsOf(live, t))
                                            ELSE summary[t]]
  BY DEF RetentionPass
<1> DEFINE gone == {t \in S : Compactable(t)}
           rows == {r \in live : r.task \in gone}
<1>2. UNCHANGED <<dayFile, checksum, expired, nextSeq, taskState, eventLog, replaced, faults, today>>
  BY DEF RetentionPass, busVars
<1>3. /\ archived' = Joined(archived, rows)
      /\ summary' = [t \in StreamTasks |-> IF t \in gone THEN Cardinality(RowsOf(live, t)) ELSE summary[t]]
  BY <1>1
<1>4. UNION {RowsPurged(t) : t \in gone} = rows
  BY DEF RowsPurged, RowsOf
<1>5. live' = live \ rows
  BY <1>1, <1>4
<1> HIDE DEF gone, rows
<1>6. rows \subseteq live
  BY DEF rows
<1>7. /\ archived \subseteq archived' /\ archived' \subseteq archived \cup rows
      /\ \A r \in rows : Has(archived', KeyOfRow(r))
  BY <1>3, JoinedFacts DEF Has
<1>8. RetentionTypeOK'
  <2>1. summary' \in [StreamTasks -> 0 .. MaxEvents]
    BY <1>3, FewRows DEF RetentionIInv, RetentionTypeOK
  <2>2. live' \subseteq EventRows /\ archived' \subseteq EventRows
    BY <1>5, <1>6, <1>7 DEF RetentionIInv, RetentionTypeOK
  <2> QED
    BY <1>2, <2>1, <2>2 DEF RetentionIInv, RetentionTypeOK
<1>9. Behind \subseteq Behind' /\ Behind' \subseteq Behind \cup rows /\ archived' \subseteq Behind'
  BY <1>2, <1>7 DEF Behind, DayRows
<1>10. RowsApart'
  <2> SUFFICES ASSUME NEW r \in live', NEW s \in Behind', KeyOfRow(s) = KeyOfRow(r) PROVE FALSE
    BY DEF RowsApart, Has, KeyOfRow
  <2>1. r \in live /\ r \notin rows
    BY <1>5
  <2>2. CASE s \in Behind
    BY <2>1, <2>2 DEF RetentionIInv, RowsApart, Has
  <2>3. CASE s \in rows
    BY <1>6, <2>1, <2>3 DEF RetentionIInv
  <2> QED
    BY <1>9, <2>2, <2>3
<1>11. NumbersKept'
  <2> SUFFICES ASSUME NEW t \in StreamTasks, NEW n \in 0 .. nextSeq[t] - 1
               PROVE  Has(live' \cup Behind', <<t, n>>)
    BY <1>2 DEF NumbersKept, Has
  <2>1. PICK r \in live \cup Behind : KeyOfRow(r) = <<t, n>>
    BY DEF RetentionIInv, NumbersKept, Has
  <2>2. CASE r \in rows
    BY <1>7, <1>9, <2>1, <2>2 DEF Has
  <2>3. CASE r \notin rows
    BY <1>5, <1>9, <2>1, <2>3 DEF Has
  <2> QED
    BY <2>2, <2>3
<1>12. \A r \in live' \cup Behind' : r.seq < nextSeq'[r.task]
  BY <1>2, <1>5, <1>6, <1>9 DEF RetentionIInv
<1>13. \A r, s \in live' : KeyOfRow(r) = KeyOfRow(s) => r = s
  BY <1>5 DEF RetentionIInv
<1>14. replaced \/ live' = {}
  BY <1>5 DEF RetentionIInv, Unopened
<1> QED
  BY <1>2, <1>8, <1>10, <1>11, <1>12, <1>13, <1>14 DEF RetentionIInv, KeyOfRow, Unopened

\* What a file holds after rows of its day were moved into it.
LEMMA WithDaysFacts ==
  ASSUME RetentionTypeOK, NEW S \in SUBSET Days, NEW d \in Days
  PROVE  /\ WithDays(S)[d] \subseteq Behind /\ WithDays(S)[d] \subseteq OfDay(EventRows, d)
         /\ dayFile[d] \subseteq WithDays(S)[d]
         /\ d \in S => \A r \in OfDay(archived, d) : Has(WithDays(S)[d], KeyOfRow(r))
<1>1. WithDays(S)[d] = IF d \in S THEN Joined(dayFile[d], OfDay(archived, d)) ELSE dayFile[d]
  BY DEF WithDays
<1>2. /\ dayFile[d] \subseteq Behind /\ OfDay(archived, d) \subseteq Behind
      /\ dayFile[d] \subseteq OfDay(EventRows, d) /\ OfDay(archived, d) \subseteq OfDay(EventRows, d)
  BY DEF RetentionTypeOK, Behind, DayRows, OfDay
<1> QED
  BY <1>1, <1>2, JoinedFacts DEF Has

LEMMA AgedAreDays == AgedDays \subseteq Days /\ \A d : DaysBefore(d) \subseteq AgedDays
BY DEF AgedDays, DaysBefore

LEMMA ColdCycleStep ==
  ASSUME RetentionAssumption, RetentionIInv, ColdCycle
  PROVE  RetentionIInv'
<1> DEFINE filed == WithDays(AgedDays)
<1>1. RetentionTypeOK
  BY DEF RetentionIInv
<1>2. /\ dayFile' = [d \in Days |-> IF d \in PurgedDays THEN {} ELSE filed[d]]
      /\ checksum' = [d \in Days |-> IF d \in PurgedDays THEN {}
                                     ELSE IF d \in AgedDays THEN filed[d] ELSE checksum[d]]
      /\ expired' = expired \cup UNION {filed[d] : d \in PurgedDays}
      /\ archived' = archived \ UNION {MovedOut(d) : d \in AgedDays}
      /\ UNCHANGED <<live, summary, nextSeq, taskState, eventLog, replaced, faults, today>>
  BY DEF ColdCycle, busVars
<1>3. \A d \in Days : /\ filed[d] \subseteq Behind /\ filed[d] \subseteq OfDay(EventRows, d)
                      /\ dayFile[d] \subseteq filed[d]
                      /\ d \in AgedDays => \A r \in OfDay(archived, d) : Has(filed[d], KeyOfRow(r))
  BY <1>1, WithDaysFacts, AgedAreDays
<1> HIDE DEF filed
<1>4. PurgedDays \subseteq Days /\ AgedDays \subseteq Days
  BY AgedAreDays DEF PurgedDays
<1>5. Behind' \subseteq Behind
  <2>1. archived' \subseteq Behind
    BY <1>2 DEF Behind
  <2>2. expired' \subseteq Behind
    BY <1>2, <1>3, <1>4 DEF Behind
  <2>3. DayRows' \subseteq Behind
    BY <1>2, <1>3 DEF DayRows
  <2> QED
    BY <2>1, <2>2, <2>3 DEF Behind
<1>6. \A d \in Days : filed[d] \subseteq Behind'
  <2> SUFFICES ASSUME NEW d \in Days PROVE filed[d] \subseteq Behind'
    OBVIOUS
  <2>1. CASE d \in PurgedDays
    BY <1>2, <2>1 DEF Behind
  <2>2. CASE d \notin PurgedDays
    <3>1. dayFile'[d] = filed[d]
      BY <1>2, <2>2
    <3> QED
      BY <3>1 DEF Behind, DayRows
  <2> QED
    BY <2>1, <2>2
<1>7. ASSUME NEW s \in Behind PROVE Has(Behind', KeyOfRow(s))
  <2>1. CASE s \in archived
    <3>1. CASE s \in archived'
      BY <3>1 DEF Behind, Has
    <3>2. CASE s \notin archived'
      <4>1. PICK d \in AgedDays : s \in OfDay(archived, d)
        BY <1>2, <2>1, <3>2 DEF MovedOut
      <4>2. Has(filed[d], KeyOfRow(s))
        BY <1>3, <1>4, <4>1
      <4> QED
        BY <1>4, <1>6, <4>2 DEF Has
    <3> QED
      BY <3>1, <3>2
  <2>2. CASE s \in expired
    BY <1>2, <2>2 DEF Behind, Has
  <2>3. CASE s \in DayRows
    <3>1. PICK d \in Days : s \in dayFile[d]
      BY <2>3 DEF DayRows
    <3> QED
      BY <1>3, <1>6, <3>1 DEF Has
  <2> QED
    BY <2>1, <2>2, <2>3 DEF Behind
<1>8. RetentionTypeOK'
  <2>1. archived' \subseteq EventRows /\ expired' \subseteq EventRows
    <3>1. \A d \in Days : filed[d] \subseteq EventRows
      BY <1>3 DEF OfDay
    <3> QED
      BY <1>1, <1>2, <1>4, <3>1 DEF RetentionTypeOK
  <2>2. \A d \in Days : dayFile'[d] \subseteq OfDay(EventRows, d) /\ checksum'[d] \subseteq OfDay(EventRows, d)
    BY <1>1, <1>2, <1>3 DEF RetentionTypeOK
  <2>3. UNCHANGED <<live, summary, nextSeq, taskState, eventLog, replaced, faults, today>>
    BY <1>2
  <2> QED
    BY <1>1, <2>1, <2>2, <2>3 DEF RetentionTypeOK, OfDay
<1> QED
  BY <1>2, <1>5, <1>7, <1>8, TiersMove DEF Has

\* A cycle cut short at d, after the days S were written to their files.
LEMMA CutShortStep ==
  ASSUME RetentionAssumption, RetentionIInv, NEW d \in AgedDays, CutShort(d),
         NEW S, DaysBefore(d) \subseteq S, S \subseteq AgedDays,
         dayFile' = WithDays(S),
         checksum' = [e \in Days |-> IF e \in DaysBefore(d) THEN dayFile'[e] ELSE checksum[e]],
         faults' \in 0 .. MaxFaults
  PROVE  RetentionIInv'
<1>1. RetentionTypeOK /\ AgedDays \subseteq Days
  BY AgedAreDays DEF RetentionIInv
<1>2. /\ archived' = archived \ UNION {MovedOut(e) : e \in DaysBefore(d)}
      /\ UNCHANGED <<live, summary, expired, nextSeq, taskState, eventLog, replaced, today>>
  BY DEF CutShort, busVars
<1>3. \A e \in Days : /\ dayFile'[e] \subseteq Behind /\ dayFile'[e] \subseteq OfDay(EventRows, e)
                      /\ dayFile[e] \subseteq dayFile'[e]
                      /\ e \in S => \A r \in OfDay(archived, e) : Has(dayFile'[e], KeyOfRow(r))
  BY <1>1, WithDaysFacts
<1>4. Behind' \subseteq Behind
  BY <1>2, <1>3 DEF Behind, DayRows
<1>5. \A e \in Days : dayFile'[e] \subseteq Behind'
  BY DEF Behind, DayRows
<1>6. ASSUME NEW s \in Behind PROVE Has(Behind', KeyOfRow(s))
  <2>1. CASE s \in archived
    <3>1. CASE s \in archived'
      BY <3>1 DEF Behind, Has
    <3>2. CASE s \notin archived'
      <4>1. PICK e \in DaysBefore(d) : s \in OfDay(archived, e)
        BY <1>2, <2>1, <3>2 DEF MovedOut
      <4>2. e \in Days /\ Has(dayFile'[e], KeyOfRow(s))
        BY <1>1, <1>3, <4>1
      <4> QED
        BY <1>5, <4>2 DEF Has
    <3> QED
      BY <3>1, <3>2
  <2>2. CASE s \in expired
    BY <1>2, <2>2 DEF Behind, Has
  <2>3. CASE s \in DayRows
    <3>1. PICK e \in Days : s \in dayFile[e]
      BY <2>3 DEF DayRows
    <3> QED
      BY <1>3, <1>5, <3>1 DEF Has
  <2> QED
    BY <2>1, <2>2, <2>3 DEF Behind
<1>7. RetentionTypeOK'
  <2>1. archived' \subseteq EventRows
    BY <1>1, <1>2 DEF RetentionTypeOK
  <2>2. \A e \in Days : dayFile'[e] \subseteq OfDay(EventRows, e) /\ checksum'[e] \subseteq OfDay(EventRows, e)
    BY <1>1, <1>3 DEF RetentionTypeOK
  <2>3. UNCHANGED <<live, summary, expired, nextSeq, taskState, eventLog, replaced, today>>
    BY <1>2
  <2> QED
    BY <1>1, <2>1, <2>2, <2>3 DEF RetentionTypeOK, OfDay
<1> QED
  BY <1>2, <1>4, <1>6, <1>7, TiersMove DEF Has

LEMMA CutsStep ==
  ASSUME RetentionAssumption, RetentionIInv, ColdCycleRefused \/ SidecarFails
  PROVE  RetentionIInv'
<1>1. CASE ColdCycleRefused
  <2>1. PICK d \in AgedDays :
           /\ CutShort(d) /\ dayFile' = WithDays(DaysBefore(d))
           /\ checksum' = [e \in Days |-> IF e \in DaysBefore(d) THEN dayFile'[e] ELSE checksum[e]]
    BY <1>1 DEF ColdCycleRefused
  <2>2. faults' \in 0 .. MaxFaults
    BY <1>1 DEF ColdCycleRefused, RetentionIInv, RetentionTypeOK
  <2> QED
    BY <2>1, <2>2, AgedAreDays, CutShortStep
<1>2. CASE SidecarFails
  <2>1. PICK d \in AgedDays :
           /\ CutShort(d) /\ dayFile' = WithDays(DaysBefore(d) \cup {d})
           /\ checksum' = [e \in Days |-> IF e \in DaysBefore(d) THEN dayFile'[e] ELSE checksum[e]]
    BY <1>2 DEF SidecarFails
  <2>2. faults' \in 0 .. MaxFaults
    <3>1. faults \in 0 .. MaxFaults /\ MaxFaults \in Nat
      BY DEF RetentionAssumption, RetentionIInv, RetentionTypeOK
    <3> QED
      BY <1>2, <3>1 DEF SidecarFails
  <2>3. DaysBefore(d) \subseteq DaysBefore(d) \cup {d} /\ DaysBefore(d) \cup {d} \subseteq AgedDays
    BY AgedAreDays
  <2> QED
    BY <2>1, <2>2, <2>3, CutShortStep
<1> QED
  BY <1>1, <1>2

LEMMA RestoreStep ==
  ASSUME RetentionAssumption, RetentionIInv, NEW from \in Days, NEW to \in Days, RestoreRange(from, to)
  PROVE  RetentionIInv'
<1> DEFINE rows == UNION {dayFile[d] : d \in {d \in Days : from <= d /\ d <= to /\ dayFile[d] # {}}}
<1>1. /\ archived' = Joined(archived, rows)
      /\ UNCHANGED <<live, summary, dayFile, checksum, expired, nextSeq, taskState, eventLog, replaced, faults, today>>
  BY DEF RestoreRange, busVars
<1>2. rows \subseteq DayRows /\ rows \subseteq EventRows
  BY DEF DayRows, RetentionIInv, RetentionTypeOK, OfDay
<1> HIDE DEF rows
<1>3. archived \subseteq archived' /\ archived' \subseteq archived \cup rows
  BY <1>1, JoinedFacts
<1>4. Behind' = Behind
  BY <1>1, <1>2, <1>3 DEF Behind, DayRows
<1>5. RetentionTypeOK'
  BY <1>1, <1>2, <1>3 DEF RetentionIInv, RetentionTypeOK
<1> QED
  BY <1>1, <1>4, <1>5, TiersMove

\* Every event that was numbered is in one of the tiers, or was in a file that went past the
\* cold window, and never both in the live table and behind it, whatever passes, cycles,
\* restores, failing writes and openings come in whatever order (eventBus.ts, eventArchive.ts,
\* eventColdArchive.ts).
THEOREM RetentionHolds == RetentionSpec => []RetentionInv
<1> USE RetentionAssumption
<1>1. RetentionInit => RetentionIInv
  BY RetentionStart
<1>2. RetentionIInv /\ [RetentionNext]_retentionVars => RetentionIInv'
  <2> SUFFICES ASSUME RetentionIInv, [RetentionNext]_retentionVars PROVE RetentionIInv'
    OBVIOUS
  <2>1. CASE StopProcess
    <3>1. /\ eventLog' = "closed"
          /\ UNCHANGED <<live, archived, summary, dayFile, checksum, expired, nextSeq, taskState, replaced, faults, today>>
      BY <2>1 DEF StopProcess, tierVars
    <3>2. Behind' = Behind
      BY <3>1 DEF Behind, DayRows
    <3>3. RetentionTypeOK'
      BY <3>1 DEF RetentionIInv, RetentionTypeOK
    <3> QED
      BY <3>1, <3>2, <3>3 DEF RetentionIInv, NumbersKept, RowsApart, Has, KeyOfRow, Unopened
  <2>2. CASE NextDay
    <3>1. /\ today' = today + 1 /\ today < LastDay
          /\ UNCHANGED <<live, archived, summary, dayFile, checksum, expired, nextSeq, taskState, eventLog, replaced, faults>>
      BY <2>2 DEF NextDay, tierVars, busVars
    <3>2. Behind' = Behind
      BY <3>1 DEF Behind, DayRows
    <3>3. today' \in Days
      BY <3>1 DEF RetentionIInv, RetentionTypeOK, Days, RetentionAssumption
    <3>4. RetentionTypeOK'
      BY <3>1, <3>3 DEF RetentionIInv, RetentionTypeOK
    <3> QED
      BY <3>1, <3>2, <3>4, TiersMove
  <2>3. CASE UNCHANGED retentionVars
    <3>1. UNCHANGED <<live, archived, summary, dayFile, checksum, expired, nextSeq, taskState, eventLog, replaced, faults, today>>
      BY <2>3 DEF retentionVars, tierVars, busVars
    <3>2. Behind' = Behind
      BY <3>1 DEF Behind, DayRows
    <3>3. RetentionTypeOK'
      BY <3>1 DEF RetentionIInv, RetentionTypeOK
    <3> QED
      BY <3>1, <3>2, <3>3, TiersMove
  <2> QED
    BY <2>1, <2>2, <2>3, OpenLogStep, EventStep, RetentionPassStep, ColdCycleStep, CutsStep, RestoreStep
    DEF RetentionNext
<1> QED
  BY <1>1, <1>2, RetentionShows, PTL DEF RetentionSpec

-----------------------------------------------------------------------------
-----------------------------------------------------------------------------
(***************************************************************************)
(* The stream of a task: ascending listings of sets of numbers.            *)
(***************************************************************************)
Lists(r, T) == /\ r \in Seq(Int) /\ Range(r) = T
               /\ \A i \in DOMAIN r : \A j \in DOMAIN r : i < j => r[i] < r[j]

LEMMA ListFacts ==
  ASSUME NEW r, NEW T, Lists(r, T)
  PROVE  /\ Len(r) \in Nat /\ DOMAIN r = 1 .. Len(r) /\ \A i \in 1 .. Len(r) : r[i] \in Int /\ r[i] \in T
         /\ T \subseteq Int /\ r \in Seq(T)
         /\ r = <<>> <=> T = {}
         /\ r # <<>> => /\ Last(r) \in T /\ \A x \in T : x <= Last(r)
<1>1. /\ r \in Seq(Int) /\ Len(r) \in Nat /\ DOMAIN r = 1 .. Len(r) /\ \A i \in 1 .. Len(r) : r[i] \in Int
      /\ r = <<>> <=> Len(r) = 0
  BY SeqFacts DEF Lists
<1>2. T = {r[i] : i \in 1 .. Len(r)}
  BY <1>1 DEF Lists, Range
<1>3. \A i \in 1 .. Len(r) : r[i] \in T
  BY <1>2
<1>4. r \in Seq(T)
  <2>1. r \in [1 .. Len(r) -> T]
    BY <1>1, <1>3, SeqDef, LenProperties
  <2> QED
    BY <1>1, <2>1, SeqDef
<1>5. r = <<>> <=> T = {}
  <2>1. CASE Len(r) = 0
    BY <1>1, <1>2, <2>1
  <2>2. CASE Len(r) # 0
    <3>1. 1 \in 1 .. Len(r)
      BY <1>1, <2>2
    <3> QED
      BY <1>1, <1>3, <2>2, <3>1
  <2> QED
    BY <2>1, <2>2
<1>6. ASSUME r # <<>> PROVE Last(r) \in T /\ \A x \in T : x <= Last(r)
  <2>1. Len(r) \in 1 .. Len(r)
    BY <1>1, <1>6
  <2>2. Last(r) = r[Len(r)] /\ Last(r) \in T /\ Last(r) \in Int
    BY <1>1, <1>3, <2>1 DEF Last
  <2>3. ASSUME NEW x \in T PROVE x <= Last(r)
    <3>1. PICK i \in 1 .. Len(r) : x = r[i]
      BY <1>2
    <3>2. CASE i = Len(r)
      BY <2>2, <3>1, <3>2, <1>1
    <3>3. CASE i # Len(r)
      <4>1. i \in Nat /\ i <= Len(r) /\ Len(r) \in Nat /\ i < Len(r)
        <5>1. i \in Nat /\ i <= Len(r) /\ Len(r) \in Nat
          BY <1>1
        <5> QED
          BY <3>3, <5>1
      <4>2. r[i] < r[Len(r)]
        BY <1>1, <2>1, <4>1 DEF Lists
      <4>3. r[i] \in Int
        BY <1>1
      <4> QED
        BY <2>2, <3>1, <4>2, <4>3
    <3> QED
      BY <3>2, <3>3
  <2> QED
    BY <2>2, <2>3
<1> QED
  BY <1>1, <1>2, <1>3, <1>4, <1>5, <1>6

LEMMA NothingListed == Lists(<<>>, {})
<1>1. <<>> \in Seq(Int) /\ DOMAIN <<>> = {}
  BY EmptySeq
<1> QED
  BY <1>1 DEF Lists, Range

Below(T, U) == \A x \in T : \A y \in U : x < y

\* Two listings one behind the other.
LEMMA ListOn ==
  ASSUME NEW r, NEW q, NEW T, NEW U, Lists(r, T), Lists(q, U), Below(T, U)
  PROVE  /\ Lists(r \o q, T \cup U)
         /\ q = <<>> => r \o q = r
         /\ q # <<>> => r \o q # <<>> /\ Last(r \o q) = Last(q)
<1> DEFINE n == Len(r)
           k == Len(q)
           d == r \o q
<1>1. /\ n \in Nat /\ DOMAIN r = 1 .. n /\ \A i \in 1 .. n : r[i] \in Int /\ r[i] \in T
  BY ListFacts
<1>2. /\ k \in Nat /\ DOMAIN q = 1 .. k /\ \A i \in 1 .. k : q[i] \in Int /\ q[i] \in U
  BY ListFacts
<1>3. r \in Seq(Int) /\ q \in Seq(Int)
  BY DEF Lists
<1>4. /\ d \in Seq(Int) /\ Len(d) = n + k
      /\ \A i \in 1 .. n + k : d[i] = IF i <= n THEN r[i] ELSE q[i - n]
  BY <1>3, ConcatProperties
<1>5. DOMAIN d = 1 .. n + k
  BY <1>4, LenProperties
<1>6. q = <<>> => d = r
  BY <1>3, ConcatEmptySeq
<1>7. k = 0 <=> q = <<>>
  BY <1>3, SeqFacts
<1>8. d = <<>> <=> n + k = 0
  BY <1>4, SeqFacts
<1>9. T = {r[i] : i \in 1 .. n} /\ U = {q[i] : i \in 1 .. k}
  BY <1>1, <1>2 DEF Lists, Range
<1> HIDE DEF n, k, d
<1>10. ASSUME NEW i \in 1 .. n PROVE i \in 1 .. n + k /\ d[i] = r[i]
  BY <1>1, <1>2, <1>4
<1>11. ASSUME NEW i \in 1 .. k PROVE n + i \in 1 .. n + k /\ d[n + i] = q[i]
  <2>1. n + i \in 1 .. n + k /\ ~(n + i <= n) /\ (n + i) - n = i
    BY <1>1, <1>2
  <2> QED
    BY <1>4, <2>1
<1>12. ASSUME NEW i \in 1 .. n + k, ~(i <= n) PROVE i - n \in 1 .. k /\ d[i] = q[i - n]
  BY <1>1, <1>2, <1>4, <1>12
<1>13. ASSUME NEW i \in 1 .. n + k, NEW j \in 1 .. n + k, i < j PROVE d[i] < d[j]
  <2>1. CASE j <= n
    <3>1. i \in 1 .. n /\ j \in 1 .. n
      BY <1>1, <1>2, <1>13, <2>1
    <3>2. r[i] < r[j]
      BY <1>1, <1>13, <3>1 DEF Lists
    <3> QED
      BY <1>10, <3>1, <3>2
  <2>2. CASE i <= n /\ ~(j <= n)
    <3>1. i \in 1 .. n /\ j - n \in 1 .. k
      BY <1>1, <1>2, <1>12, <2>2
    <3>2. r[i] < q[j - n]
      BY <1>1, <1>2, <3>1 DEF Below
    <3>3. d[i] = r[i] /\ d[j] = q[j - n]
      BY <1>10, <1>12, <2>2, <3>1
    <3> QED
      BY <3>2, <3>3
  <2>3. CASE ~(i <= n)
    <3>1. ~(j <= n)
      BY <1>1, <1>2, <1>13, <2>3
    <3>2. i - n \in 1 .. k /\ j - n \in 1 .. k /\ d[i] = q[i - n] /\ d[j] = q[j - n]
      BY <1>12, <2>3, <3>1
    <3>3. i - n < j - n
      BY <1>1, <1>2, <1>13
    <3>4. q[i - n] < q[j - n]
      BY <1>2, <3>2, <3>3 DEF Lists
    <3> QED
      BY <3>2, <3>4
  <2> QED
    BY <2>1, <2>2, <2>3
<1>14. Range(d) = T \cup U
  <2>1. \A i \in 1 .. n + k : d[i] \in T \cup U
    BY <1>1, <1>2, <1>10, <1>12
  <2>2. \A x \in T \cup U : \E i \in 1 .. n + k : d[i] = x
    BY <1>9, <1>10, <1>11
  <2> QED
    BY <1>5, <2>1, <2>2 DEF Range
<1>15. Lists(d, T \cup U)
  BY <1>4, <1>5, <1>13, <1>14 DEF Lists
<1>16. ASSUME q # <<>> PROVE d # <<>> /\ Last(d) = Last(q)
  <2>1. k \in 1 .. k /\ n + k # 0
    BY <1>1, <1>2, <1>7, <1>16
  <2>2. d[n + k] = q[k]
    BY <1>11, <2>1
  <2> QED
    BY <1>4, <1>8, <2>1, <2>2 DEF Last, k, n
<1> QED
  BY <1>6, <1>15, <1>16 DEF d

LEMMA ListOneMore ==
  ASSUME NEW r, NEW T, Lists(r, T), NEW x \in Int, \A y \in T : y < x
  PROVE  /\ Lists(Append(r, x), T \cup {x}) /\ Append(r, x) # <<>>
         /\ Last(Append(r, x)) = x /\ Len(Append(r, x)) = Len(r) + 1
<1> DEFINE q == <<x>>
<1>1. r \in Seq(Int) /\ Len(r) \in Nat
  BY ListFacts DEF Lists
<1>2. Append(r, x) = r \o q
  BY <1>1, AppendIsConcat
<1>3. q \in Seq(Int) /\ Len(q) = 1 /\ q[1] = x /\ DOMAIN q = 1 .. 1 /\ q # <<>>
  OBVIOUS
<1>4. Lists(q, {x})
  <2>1. Range(q) = {x}
    BY <1>3 DEF Range
  <2> QED
    BY <1>3, <2>1 DEF Lists
<1>5. Last(q) = x
  BY <1>3 DEF Last
<1> HIDE DEF q
<1>6. Len(Append(r, x)) = Len(r) + 1
  BY <1>1, AppendProperties
<1> DEFINE U == {x}
<1>7. Lists(q, U) /\ Below(T, U)
  BY <1>4 DEF Below
<1> HIDE DEF U
<1>8. /\ Lists(r \o q, T \cup U)
      /\ q # <<>> => r \o q # <<>> /\ Last(r \o q) = Last(q)
  BY <1>7, ListOn
<1> QED
  BY <1>2, <1>3, <1>5, <1>6, <1>8 DEF U

-----------------------------------------------------------------------------
(***************************************************************************)
(* A page, and what of it is due to a watcher.                             *)
(***************************************************************************)
LEMMA PastFacts ==
  ASSUME NEW page, NEW T, Lists(page, T), NEW n \in Int
  PROVE  Lists(RowsPast(page, n), {x \in T : x > n})
<1> DEFINE k == Len(page)
           X == Seq(Int)
           step == [i \in 1 .. k |-> [r \in X |-> IF page[i] > n THEN Append(r, page[i]) ELSE r]]
           start == <<>>
<1>1. k \in Nat /\ start \in X /\ \A i \in 1 .. k : page[i] \in Int
  BY ListFacts, EmptySeq
<1>2. T = {page[i] : i \in 1 .. k}
  BY ListFacts DEF Lists, Range
<1>3. \A i \in 1 .. k : \A r \in X : step[i][r] = IF page[i] > n THEN Append(r, page[i]) ELSE r
  OBVIOUS
<1>4. \A i \in 1 .. k : \A r \in X : step[i][r] \in X
  BY <1>1, AppendProperties
<1> HIDE DEF k, X, step, start
<1>5. PICK it : Rounds(it, start, k, step) /\ StaysIn(it, k, X)
  BY <1>1, <1>4, LoopExists
<1> DEFINE rows == CHOOSE w : w = [i \in 0 .. k |->
                     IF i = 0 THEN <<>> ELSE IF page[i] > n THEN Append(w[i - 1], page[i]) ELSE w[i - 1]]
<1>6. rows = [i \in 0 .. k |->
               IF i = 0 THEN <<>> ELSE IF page[i] > n THEN Append(rows[i - 1], page[i]) ELSE rows[i - 1]]
  <2> DEFINE same == [i \in 0 .. k |->
               IF i = 0 THEN <<>> ELSE IF page[i] > n THEN Append(it[i - 1], page[i]) ELSE it[i - 1]]
  <2>1. \A i \in 0 .. k : it[i] = same[i]
    <3> SUFFICES ASSUME NEW i \in 0 .. k PROVE it[i] = same[i]
      OBVIOUS
    <3>1. it[i] = IF i = 0 THEN <<>> ELSE step[i][it[i - 1]]
      BY <1>5 DEF Rounds, start
    <3>2. CASE i = 0
      BY <3>1, <3>2
    <3>3. CASE i # 0
      <4>1. i \in 1 .. k /\ i - 1 \in 0 .. k
        BY <1>1, <3>3
      <4>2. it[i - 1] \in X
        BY <1>5, <4>1 DEF StaysIn
      <4> QED
        BY <1>3, <3>1, <3>3, <4>1, <4>2
    <3> QED
      BY <3>2, <3>3
  <2>2. it = same
    BY <1>5, <2>1 DEF Rounds
  <2>3. \E w : w = [i \in 0 .. k |->
                     IF i = 0 THEN <<>> ELSE IF page[i] > n THEN Append(w[i - 1], page[i]) ELSE w[i - 1]]
    BY <2>2
  <2> QED
    BY <2>3
<1>7. RowsPast(page, n) = rows[k]
  BY DEF RowsPast, k
<1> HIDE DEF rows
<1>8. /\ rows[0] = <<>>
      /\ \A i \in 1 .. k : rows[i] = IF page[i] > n THEN Append(rows[i - 1], page[i]) ELSE rows[i - 1]
  <2>1. 0 \in 0 .. k /\ \A i \in 1 .. k : i \in 0 .. k /\ i # 0
    BY <1>1
  <2> QED
    BY <1>6, <2>1
<1> DEFINE first(i) == {page[j] : j \in {j \in 1 .. i : page[j] > n}}
           G == {i \in Nat : i <= k => Lists(rows[i], first(i))}
<1>9. 0 \in G
  <2>1. first(0) = {}
    OBVIOUS
  <2> QED
    BY <1>8, <2>1, NothingListed
<1>10. ASSUME NEW i \in Nat, i \in G PROVE i + 1 \in G
  <2> SUFFICES ASSUME i + 1 <= k PROVE Lists(rows[i + 1], first(i + 1))
    OBVIOUS
  <2>1. i + 1 \in 1 .. k /\ (i + 1) - 1 = i /\ i <= k
    BY <1>1
  <2>2. Lists(rows[i], first(i))
    BY <1>10, <2>1
  <2>3. rows[i + 1] = IF page[i + 1] > n THEN Append(rows[i], page[i + 1]) ELSE rows[i]
    BY <1>8, <2>1
  <2>4. \A j \in 1 .. i + 1 : j \in 1 .. i \/ j = i + 1
    OBVIOUS
  <2>5. CASE page[i + 1] > n
    <3>1. first(i + 1) = first(i) \cup {page[i + 1]}
      BY <2>4, <2>5
    <3>2. \A y \in first(i) : y < page[i + 1]
      <4> SUFFICES ASSUME NEW j \in 1 .. i PROVE page[j] < page[i + 1]
        OBVIOUS
      <4>1. j \in DOMAIN page /\ i + 1 \in DOMAIN page /\ j < i + 1
        BY <1>1, <2>1, ListFacts DEF k
      <4> QED
        BY <4>1 DEF Lists
    <3>3. page[i + 1] \in Int
      BY <1>1, <2>1
    <3> HIDE DEF first
    <3>4. Lists(Append(rows[i], page[i + 1]), first(i) \cup {page[i + 1]})
      BY <2>2, <3>2, <3>3, ListOneMore
    <3> QED
      BY <2>3, <2>5, <3>1, <3>4
  <2>6. CASE ~(page[i + 1] > n)
    <3>1. first(i + 1) = first(i)
      BY <2>4, <2>6
    <3> QED
      BY <2>2, <2>3, <2>6, <3>1
  <2> QED
    BY <2>5, <2>6
<1> HIDE DEF G
<1>11. k \in G
  BY <1>1, <1>9, <1>10, NatSetInduction
<1>12. Lists(rows[k], first(k))
  BY <1>1, <1>11 DEF G
<1>13. first(k) = {x \in T : x > n}
  BY <1>2
<1> QED
  BY <1>7, <1>12, <1>13

\* What has been read of the store after `from`.
ReadSoFar(r, i) ==
  /\ Lists(r, {n \in stored : ReadFrom < n /\ n <= Through(r)}) /\ Len(r) <= i
  /\ Len(r) = i \/ \A n \in stored : n <= Through(r)
  /\ Through(r) \in Int /\ ReadFrom <= Through(r)

LEMMA ReadOneMore ==
  ASSUME stored \subseteq Nat, ReadFrom \in Int, NEW i \in Nat, NEW r, ReadSoFar(r, i),
         NEW left, left = {n \in stored : n > Through(r)}
  PROVE  ReadSoFar(IF left = {} THEN r ELSE Append(r, Min(left)), i + 1)
<1> DEFINE T == {n \in stored : ReadFrom < n /\ n <= Through(r)}
           m == Min(left)
           d == Append(r, m)
<1>1. /\ Lists(r, T) /\ Len(r) \in Nat /\ Len(r) <= i /\ Through(r) \in Int /\ ReadFrom <= Through(r)
      /\ Len(r) = i \/ \A n \in stored : n <= Through(r)
  BY ListFacts DEF ReadSoFar
<1>2. CASE left = {}
  <2>1. \A n \in stored : n <= Through(r)
    BY <1>1, <1>2
  <2>2. Len(r) <= i + 1
    BY <1>1
  <2>3. ReadSoFar(r, i + 1)
    BY <1>1, <2>1, <2>2 DEF ReadSoFar
  <2> QED
    BY <1>2, <2>3
<1>3. CASE left # {}
  <2>1. m \in left /\ \A n \in left : m <= n
    <3>1. \E n \in left : \A y \in left : n <= y
      BY <1>3, LeastExists
    <3> QED
      BY <3>1 DEF Min
  <2> HIDE DEF m
  <2>2. m \in stored /\ m \in Int /\ m > Through(r) /\ ReadFrom < m
    BY <1>1, <2>1
  <2>3. \A y \in T : y < m
    BY <1>1, <2>2
  <2>4. Lists(d, T \cup {m}) /\ d # <<>> /\ Last(d) = m /\ Len(d) = Len(r) + 1
    BY <1>1, <2>2, <2>3, ListOneMore
  <2>5. Through(d) = m
    BY <2>4 DEF Through
  <2>6. T \cup {m} = {n \in stored : ReadFrom < n /\ n <= m}
    <3> DEFINE U == {n \in stored : ReadFrom < n /\ n <= m}
    <3>1. \A n \in stored : n \in Int
      OBVIOUS
    <3>2. ASSUME NEW n \in U PROVE n \in T \cup {m}
      <4>1. n \in stored /\ n \in Int /\ ReadFrom < n /\ n <= m
        BY <3>1
      <4>2. CASE n <= Through(r)
        BY <4>1, <4>2
      <4>3. CASE n > Through(r)
        <5>1. n \in left
          BY <4>1, <4>3
        <5>2. m <= n
          BY <2>1, <5>1
        <5>3. n = m
          BY <2>2, <4>1, <5>2
        <5> QED
          BY <5>3
      <4> QED
        BY <1>1, <4>1, <4>2, <4>3
    <3>3. ASSUME NEW n \in T PROVE n \in U
      <4>1. n \in stored /\ n \in Int /\ ReadFrom < n /\ n < m
        BY <2>3, <3>1, <3>3
      <4> QED
        BY <2>2, <4>1
    <3>4. m \in U
      BY <2>2
    <3> HIDE DEF T
    <3>5. T \cup {m} = U
      BY <3>2, <3>3, <3>4
    <3> QED
      BY <3>5
  <2>7. Len(r) = i
    BY <1>1, <2>2
  <2>8. Len(d) <= i + 1 /\ Len(d) = i + 1
    BY <1>1, <2>4, <2>7
  <2>9. ReadFrom <= m
    BY <2>2
  <2> HIDE DEF d, T
  <2>10. ReadSoFar(d, i + 1)
    BY <2>2, <2>4, <2>5, <2>6, <2>8, <2>9 DEF ReadSoFar
  <2> QED
    BY <1>3, <2>10 DEF d, m
<1> QED
  BY <1>2, <1>3

LEMMA PageFacts ==
  ASSUME PageSize \in Nat, stored \subseteq Nat, Attached # {}, ReadFrom \in Int
  PROVE  ReadSoFar(Page, PageSize)
<1> DEFINE left(r) == {n \in stored : n > Through(r)}
           next(r) == IF left(r) = {} THEN r ELSE Append(r, Min(left(r)))
           X == {r \in Seq(Int) : \E i \in Nat : ReadSoFar(r, i)}
           step == [i \in 1 .. PageSize |-> [r \in X |-> next(r)]]
           start == <<>>
<1>1. ReadSoFar(start, 0)
  <2>1. Through(start) = ReadFrom
    BY DEF Through
  <2>2. {n \in stored : ReadFrom < n /\ n <= ReadFrom} = {}
    <3>1. \A n \in stored : n \in Int
      OBVIOUS
    <3>2. \A n \in stored : ~(ReadFrom < n /\ n <= ReadFrom)
      BY <3>1
    <3> QED
      BY <3>2
  <2>3. Len(start) = 0 /\ Len(start) <= 0
    BY EmptySeq
  <2>4. ReadFrom <= ReadFrom
    OBVIOUS
  <2>5. Lists(start, {})
    BY NothingListed
  <2> HIDE DEF start
  <2> QED
    BY <2>1, <2>2, <2>3, <2>4, <2>5 DEF ReadSoFar
<1>2. \A r : \A i \in Nat : ReadSoFar(r, i) => r \in X
  BY DEF ReadSoFar, Lists
<1>3. \A r : \A i \in Nat : ReadSoFar(r, i) => ReadSoFar(next(r), i + 1)
  BY ReadOneMore
<1>4. \A i \in 1 .. PageSize : \A r \in X : step[i][r] = next(r)
  OBVIOUS
<1>5. start \in X
  BY <1>1, <1>2
<1>6. \A r \in X : next(r) \in X
  <2> SUFFICES ASSUME NEW r \in X PROVE next(r) \in X
    OBVIOUS
  <2>1. PICK i \in Nat : ReadSoFar(r, i)
    OBVIOUS
  <2> HIDE DEF next
  <2>2. ReadSoFar(next(r), i + 1) /\ i + 1 \in Nat
    BY <1>3, <2>1
  <2> HIDE DEF X
  <2> QED
    BY <1>2, <2>2
<1>7. \A i \in 1 .. PageSize : \A r \in X : step[i][r] \in X
  BY <1>4, <1>6
<1> HIDE DEF X, step, start
<1>8. PICK it : Rounds(it, start, PageSize, step) /\ StaysIn(it, PageSize, X)
  BY <1>5, <1>7, LoopExists
<1> DEFINE rows == CHOOSE w : w = [i \in 0 .. PageSize |->
                     IF i = 0 THEN <<>>
                     ELSE IF {n \in stored : n > Through(w[i - 1])} = {} THEN w[i - 1]
                     ELSE Append(w[i - 1], Min({n \in stored : n > Through(w[i - 1])}))]
<1>9. rows = [i \in 0 .. PageSize |->
                     IF i = 0 THEN <<>>
                     ELSE IF {n \in stored : n > Through(rows[i - 1])} = {} THEN rows[i - 1]
                     ELSE Append(rows[i - 1], Min({n \in stored : n > Through(rows[i - 1])}))]
  <2> DEFINE same == [i \in 0 .. PageSize |->
                     IF i = 0 THEN <<>>
                     ELSE IF {n \in stored : n > Through(it[i - 1])} = {} THEN it[i - 1]
                     ELSE Append(it[i - 1], Min({n \in stored : n > Through(it[i - 1])}))]
  <2>1. \A i \in 0 .. PageSize : it[i] = same[i]
    <3> SUFFICES ASSUME NEW i \in 0 .. PageSize PROVE it[i] = same[i]
      OBVIOUS
    <3>1. it[i] = IF i = 0 THEN <<>> ELSE step[i][it[i - 1]]
      BY <1>8 DEF Rounds, start
    <3>2. CASE i = 0
      BY <3>1, <3>2
    <3>3. CASE i # 0
      <4>1. i \in 1 .. PageSize /\ i - 1 \in 0 .. PageSize
        BY <3>3
      <4>2. it[i - 1] \in X
        BY <1>8, <4>1 DEF StaysIn
      <4>3. it[i] = next(it[i - 1])
        BY <1>4, <3>1, <3>3, <4>1, <4>2
      <4> QED
        BY <3>3, <4>3
    <3> QED
      BY <3>2, <3>3
  <2>2. it = same
    BY <1>8, <2>1 DEF Rounds
  <2>3. \E w : w = [i \in 0 .. PageSize |->
                     IF i = 0 THEN <<>>
                     ELSE IF {n \in stored : n > Through(w[i - 1])} = {} THEN w[i - 1]
                     ELSE Append(w[i - 1], Min({n \in stored : n > Through(w[i - 1])}))]
    BY <2>2
  <2> QED
    BY <2>3
<1>10. Page = rows[PageSize]
  BY DEF Page
<1> HIDE DEF rows
<1>11. rows[0] = <<>> /\ \A i \in 1 .. PageSize : rows[i] = next(rows[i - 1])
  <2>1. 0 \in 0 .. PageSize /\ \A i \in 1 .. PageSize : i \in 0 .. PageSize /\ i # 0
    OBVIOUS
  <2> QED
    BY <1>9, <2>1
<1> HIDE DEF next
<1> DEFINE G == {i \in Nat : i <= PageSize => ReadSoFar(rows[i], i)}
<1>12. 0 \in G
  BY <1>1, <1>11 DEF start
<1>13. ASSUME NEW i \in Nat, i \in G PROVE i + 1 \in G
  <2> SUFFICES ASSUME i + 1 <= PageSize PROVE ReadSoFar(rows[i + 1], i + 1)
    OBVIOUS
  <2>1. i + 1 \in 1 .. PageSize /\ (i + 1) - 1 = i /\ i <= PageSize
    OBVIOUS
  <2>2. ReadSoFar(rows[i], i)
    BY <1>13, <2>1
  <2>3. rows[i + 1] = next(rows[i])
    BY <1>11, <2>1
  <2> HIDE DEF G
  <2> QED
    BY <1>3, <2>2, <2>3
<1> HIDE DEF G
<1>14. PageSize \in G
  BY <1>12, <1>13, NatSetInduction
<1> QED
  BY <1>10, <1>14 DEF G

-----------------------------------------------------------------------------
(***************************************************************************)
(* The watchers of a task.                                                 *)
(***************************************************************************)
\* What the store holds up to a number, and who reads events from an address.
UpTo(m) == {n \in stored : n <= m}
Readers(h) == {w \in Watchers \ SocketWatchers : HostOf[w] = h /\ visit[w] = "live"}

\* A socket has every row up to the last it has; the hub's cursor says so too, and at
\* rest there is nothing after it.
SocketFed(w) == /\ Lists(received[w], UpTo(ResumeFrom(w)))
                /\ visit[w] = "live" => place[w] = ResumeFrom(w)
                /\ visit[w] = "live" /\ ~draining => \A n \in stored : n <= ResumeFrom(w)

ReadersTallied == /\ \A w \in Watchers \ SocketWatchers : visit[w] \in {"gone", "live"}
                  /\ \A h \in Hosts : streams[h] = Cardinality(Readers(h))

StreamIInv == /\ StreamTypeOK /\ stored \subseteq 0 .. (emitted - 1)
              /\ \A w \in SocketWatchers : SocketFed(w)
              /\ ReadersTallied /\ WiredWhileWatched

LEMMA StreamNumbers ==
  ASSUME StreamAssumption, StreamTypeOK
  PROVE  /\ MaxNumber \in Nat /\ MaxConnections \in Nat /\ MaxVisits \in Nat /\ PageSize \in Nat
         /\ 1 <= PageSize /\ emitted \in Nat /\ emitted <= MaxNumber
         /\ \A n \in stored : n \in Nat /\ n <= MaxNumber - 1
         /\ \A w \in Watchers : /\ place[w] \in Int /\ Before <= place[w] /\ place[w] <= MaxNumber - 1
                                /\ HostOf[w] \in Hosts
         /\ SocketWatchers \subseteq Watchers /\ Attached \subseteq Watchers
<1>1. MaxNumber \in Nat /\ MaxConnections \in Nat /\ MaxVisits \in Nat /\ PageSize \in Nat /\ 1 <= PageSize
  BY DEF StreamAssumption
<1>2. emitted \in Nat /\ emitted <= MaxNumber /\ \A n \in stored : n \in Nat /\ n <= MaxNumber - 1
  BY <1>1 DEF StreamTypeOK
<1>3. \A w \in Watchers : place[w] \in Int /\ Before <= place[w] /\ place[w] <= MaxNumber - 1
  BY <1>1 DEF StreamTypeOK, Before
<1> QED
  BY <1>1, <1>2, <1>3 DEF StreamAssumption, Attached, Hosts

LEMMA StreamStart == StreamAssumption /\ StreamInit => StreamIInv
<1> SUFFICES ASSUME StreamAssumption, StreamInit PROVE StreamIInv
  OBVIOUS
<1>1. MaxNumber \in Nat /\ MaxConnections \in Nat /\ MaxVisits \in Nat
  BY DEF StreamAssumption
<1>2. \A w \in Watchers : received[w] = <<>> /\ visit[w] = "gone"
  BY DEF StreamInit
<1>3. StreamTypeOK
  <2>1. \A S : <<>> \in Seq(S)
    BY EmptySeq
  <2>2. \A w \in Watchers : received[w] \in Seq(0 .. (MaxNumber - 1))
    BY <1>2, <2>1
  <2>3. /\ emitted \in 0 .. MaxNumber /\ stored \subseteq 0 .. (MaxNumber - 1)
        /\ lastEvent \in NoEvent .. (MaxNumber - 1) /\ wired \in BOOLEAN /\ draining \in BOOLEAN
    <3>1. 0 \in 0 .. MaxNumber /\ -1 \in -1 .. (MaxNumber - 1)
      BY <1>1
    <3> QED
      BY <3>1 DEF StreamInit, NoEvent
  <2>4. /\ visit \in [Watchers -> {"gone", "challenged", "live", "closing", "failed"}]
        /\ visits \in [Watchers -> 0 .. MaxVisits]
        /\ slots \in [Hosts -> 0 .. MaxConnections] /\ streams \in [Hosts -> 0 .. MaxConnections]
    BY <1>1 DEF StreamInit
  <2>5. place \in [Watchers -> Before .. (MaxNumber - 1)]
    <3>1. Before \in Before .. (MaxNumber - 1)
      BY <1>1 DEF Before
    <3> QED
      BY <3>1 DEF StreamInit
  <2> QED
    BY <2>2, <2>3, <2>4, <2>5 DEF StreamTypeOK
<1>4. ASSUME NEW w \in SocketWatchers PROVE SocketFed(w)
  <2>1. w \in Watchers /\ received[w] = <<>> /\ visit[w] = "gone"
    BY <1>2 DEF StreamAssumption
  <2>2. UpTo(ResumeFrom(w)) = {}
    BY DEF StreamInit, UpTo
  <2> QED
    BY <2>1, <2>2, NothingListed DEF SocketFed
<1>5. ReadersTallied
  <2>1. ASSUME NEW h \in Hosts PROVE streams[h] = Cardinality(Readers(h))
    <3>1. Readers(h) = {}
      BY <1>2 DEF Readers
    <3> QED
      BY <3>1, FS_EmptySet DEF StreamInit
  <2> QED
    BY <1>2, <2>1 DEF ReadersTallied
<1>6. WiredWhileWatched
  BY <1>2 DEF WiredWhileWatched, Attached, StreamInit
<1>7. stored \subseteq 0 .. (emitted - 1)
  BY DEF StreamInit
<1> QED
  BY <1>3, <1>4, <1>5, <1>6, <1>7 DEF StreamIInv

\* What a socket has is in the store, so the last of it is before what comes next.
LEMMA ResumeFacts ==
  ASSUME StreamAssumption, StreamIInv, NEW w \in SocketWatchers
  PROVE  /\ ResumeFrom(w) \in Int /\ Before <= ResumeFrom(w) /\ ResumeFrom(w) < emitted
         /\ received[w] # <<>> => ResumeFrom(w) \in stored
<1>1. Lists(received[w], UpTo(ResumeFrom(w)))
  BY DEF StreamIInv, SocketFed
<1>2. /\ emitted \in Nat /\ \A n \in stored : n \in Nat /\ n < emitted
  BY StreamNumbers DEF StreamIInv
<1>3. CASE received[w] = <<>>
  BY <1>2, <1>3 DEF ResumeFrom, Before
<1>4. CASE received[w] # <<>>
  <2>1. Last(received[w]) \in UpTo(ResumeFrom(w)) /\ ResumeFrom(w) = Last(received[w])
    BY <1>1, <1>4, ListFacts DEF ResumeFrom
  <2>2. ResumeFrom(w) \in stored
    BY <2>1 DEF UpTo
  <2> QED
    BY <1>2, <2>2 DEF Before
<1> QED
  BY <1>3, <1>4

LEMMA StreamShows == StreamAssumption /\ StreamIInv => StreamInv
<1> SUFFICES ASSUME StreamAssumption, StreamIInv PROVE StreamInv
  OBVIOUS
<1>1. SocketsMissNothing
  <2> SUFFICES ASSUME NEW w \in SocketWatchers,
                      NEW upTo, upTo = IF visit[w] = "live" /\ ~draining THEN MaxNumber ELSE ResumeFrom(w)
               PROVE  /\ Range(received[w]) = {n \in stored : n <= upTo}
                      /\ \A i, j \in DOMAIN received[w] : i < j => received[w][i] < received[w][j]
    BY DEF SocketsMissNothing
  <2>1. SocketFed(w) /\ \A n \in stored : n \in Nat /\ n <= MaxNumber - 1 /\ MaxNumber \in Nat
    BY StreamNumbers DEF StreamIInv
  <2>2. Range(received[w]) = UpTo(ResumeFrom(w))
    BY <2>1 DEF SocketFed, Lists
  <2>3. UpTo(ResumeFrom(w)) = {n \in stored : n <= upTo}
    <3>1. CASE visit[w] = "live" /\ ~draining
      <4>1. upTo = MaxNumber /\ \A n \in stored : n <= ResumeFrom(w)
        BY <2>1, <3>1 DEF SocketFed
      <4>2. \A n \in stored : n <= upTo
        BY <2>1, <4>1
      <4> QED
        BY <4>1, <4>2 DEF UpTo
    <3>2. CASE ~(visit[w] = "live" /\ ~draining)
      BY <3>2 DEF UpTo
    <3> QED
      BY <3>1, <3>2
  <2>4. \A i \in DOMAIN received[w] : \A j \in DOMAIN received[w] : i < j => received[w][i] < received[w][j]
    BY <2>1 DEF SocketFed, Lists
  <2> QED
    BY <2>2, <2>3, <2>4
<1> QED
  BY <1>1 DEF StreamInv, StreamIInv

-----------------------------------------------------------------------------
LEMMA EmitEventStep ==
  ASSUME StreamAssumption, StreamIInv, NEW ends \in BOOLEAN, EmitEvent(ends)
  PROVE  StreamIInv'
<1> USE DEF EmitEvent
<1>1. /\ emitted \in Nat /\ MaxNumber \in Nat /\ emitted < MaxNumber
      /\ \A n \in stored : n \in Nat /\ n < emitted
  BY StreamNumbers DEF StreamIInv
<1>2. stored' \subseteq 0 .. (emitted' - 1) /\ stored \subseteq stored'
      /\ \A n \in stored' : n \in stored \/ n = emitted
  BY <1>1
<1>3. StreamTypeOK'
  <2>1. emitted' \in 0 .. MaxNumber /\ stored' \subseteq 0 .. (MaxNumber - 1)
    BY <1>1, <1>2
  <2>2. lastEvent' \in NoEvent .. (MaxNumber - 1)
    BY <1>1 DEF NoEvent
  <2>3. draining' \in BOOLEAN
    BY DEF StreamIInv, StreamTypeOK
  <2> QED
    BY <2>1, <2>2, <2>3 DEF StreamIInv, StreamTypeOK
<1>4. ASSUME NEW w \in SocketWatchers PROVE SocketFed(w)'
  <2>1. SocketFed(w) /\ ResumeFrom(w) \in Int /\ ResumeFrom(w) < emitted
    BY ResumeFacts DEF StreamIInv
  <2>2. ResumeFrom(w)' = ResumeFrom(w)
    BY DEF ResumeFrom
  <2>3. UpTo(ResumeFrom(w))' = UpTo(ResumeFrom(w))
    <3>1. UpTo(ResumeFrom(w))' = {n \in stored' : n <= ResumeFrom(w)}
      BY <2>2 DEF UpTo
    <3>2. ~(emitted <= ResumeFrom(w))
      BY <1>1, <2>1
    <3> QED
      BY <1>2, <3>1, <3>2 DEF UpTo
  <2>4. visit[w] = "live" => draining'
    <3>1. w \in Watchers
      BY DEF StreamAssumption
    <3>2. visit[w] = "live" => w \in Attached
      BY <3>1 DEF Attached
    <3> QED
      BY <3>2 DEF StreamIInv, WiredWhileWatched
  <2> QED
    BY <2>1, <2>2, <2>3, <2>4 DEF SocketFed
<1>5. ReadersTallied' /\ WiredWhileWatched'
  BY DEF StreamIInv, ReadersTallied, Readers, WiredWhileWatched, Attached
<1> QED
  BY <1>2, <1>3, <1>4, <1>5 DEF StreamIInv

\* The steps of the connections leave what was numbered and what went out alone.
Untold == UNCHANGED <<emitted, stored, received>>

LEMMA StillFed ==
  ASSUME Untold, NEW w \in SocketWatchers, SocketFed(w),
         visit'[w] = "live" => /\ place'[w] = ResumeFrom(w)
                               /\ draining' \/ (visit[w] = "live" /\ draining' = draining)
  PROVE  SocketFed(w)'
<1>1. ResumeFrom(w)' = ResumeFrom(w) /\ UpTo(ResumeFrom(w))' = UpTo(ResumeFrom(w))
  BY DEF Untold, ResumeFrom, UpTo
<1> QED
  BY <1>1 DEF SocketFed, Untold

LEMMA UpgradeStep ==
  ASSUME StreamAssumption, StreamIInv, NEW w \in SocketWatchers, Upgrade(w)
  PROVE  StreamIInv'
<1> USE DEF Upgrade
<1>0. w \in Watchers /\ Untold /\ visit \in [Watchers -> {"gone", "challenged", "live", "closing", "failed"}]
  BY DEF StreamAssumption, Untold, StreamIInv, StreamTypeOK
<1>1. StreamTypeOK'
  <2>1. HostOf[w] \in Hosts
    BY <1>0 DEF Hosts
  <2>2. slots' \in [Hosts -> 0 .. MaxConnections]
    <3>1. slots \in [Hosts -> 0 .. MaxConnections] /\ MaxConnections \in Nat
      BY StreamNumbers DEF StreamIInv, StreamTypeOK
    <3>2. slots[HostOf[w]] + 1 \in 0 .. MaxConnections
      BY <2>1, <3>1
    <3> QED
      BY <3>1, <3>2
  <2>3. visits' \in [Watchers -> 0 .. MaxVisits]
    <3>1. visits \in [Watchers -> 0 .. MaxVisits] /\ MaxVisits \in Nat
      BY StreamNumbers DEF StreamIInv, StreamTypeOK
    <3>2. visits[w] + 1 \in 0 .. MaxVisits
      BY <1>0, <3>1
    <3> QED
      BY <3>1, <3>2
  <2>4. visit' \in [Watchers -> {"gone", "challenged", "live", "closing", "failed"}]
    BY <1>0
  <2> QED
    BY <2>2, <2>3, <2>4 DEF StreamIInv, StreamTypeOK
<1>2. \A v \in Watchers : visit'[v] = IF v = w THEN "challenged" ELSE visit[v]
  BY <1>0
<1>3. ASSUME NEW v \in SocketWatchers PROVE SocketFed(v)'
  <2>1. SocketFed(v) /\ v \in Watchers
    BY DEF StreamIInv, StreamAssumption
  <2>2. visit'[v] = "live" => visit[v] = "live"
    BY <1>2, <2>1
  <2> QED
    BY <1>0, <2>1, <2>2, StillFed DEF SocketFed
<1>4. \A v \in Watchers \ SocketWatchers : visit'[v] = visit[v]
  BY <1>2
<1>5. ReadersTallied'
  <2>1. \A h : Readers(h)' = Readers(h)
    BY <1>4 DEF Readers
  <2> QED
    BY <1>4, <2>1 DEF ReadersTallied, StreamIInv
<1>6. Attached' = Attached
  BY <1>0, <1>2 DEF Attached
<1>7. WiredWhileWatched'
  BY <1>6 DEF WiredWhileWatched, StreamIInv
<1> QED
  BY <1>0, <1>1, <1>3, <1>5, <1>7 DEF StreamIInv, Untold

LEMMA AuthenticateStep ==
  ASSUME StreamAssumption, StreamIInv, NEW w \in SocketWatchers, Authenticate(w)
  PROVE  StreamIInv'
<1> USE DEF Authenticate, Attach
<1>0. w \in Watchers /\ Untold /\ visit \in [Watchers -> {"gone", "challenged", "live", "closing", "failed"}]
      /\ place \in [Watchers -> Before .. (MaxNumber - 1)]
  BY DEF StreamAssumption, Untold, StreamIInv, StreamTypeOK
<1>1. StreamTypeOK'
  <2>1. ResumeFrom(w) \in Before .. (MaxNumber - 1)
    <3>1. /\ ResumeFrom(w) \in Int /\ Before <= ResumeFrom(w) /\ ResumeFrom(w) < emitted
          /\ emitted \in Nat /\ MaxNumber \in Nat /\ emitted <= MaxNumber
      BY ResumeFacts, StreamNumbers DEF StreamIInv
    <3> QED
      BY <3>1 DEF Before
  <2>2. place' \in [Watchers -> Before .. (MaxNumber - 1)]
    BY <1>0, <2>1
  <2>3. visit' \in [Watchers -> {"gone", "challenged", "live", "closing", "failed"}]
    BY <1>0
  <2> QED
    BY <2>2, <2>3 DEF StreamIInv, StreamTypeOK
<1>2. \A v \in Watchers : /\ visit'[v] = IF v = w THEN "live" ELSE visit[v]
                          /\ place'[v] = IF v = w THEN ResumeFrom(w) ELSE place[v]
  BY <1>0
<1>3. ASSUME NEW v \in SocketWatchers PROVE SocketFed(v)'
  <2>1. SocketFed(v) /\ v \in Watchers
    BY DEF StreamIInv, StreamAssumption
  <2>2. visit'[v] = "live" => place'[v] = ResumeFrom(v)
    BY <1>2, <2>1 DEF SocketFed
  <2>3. visit'[v] = "live" => /\ place'[v] = ResumeFrom(v)
                              /\ draining' \/ (visit[v] = "live" /\ draining' = draining)
    BY <2>2
  <2> QED
    BY <1>0, <2>1, <2>3, StillFed
<1>4. \A v \in Watchers \ SocketWatchers : visit'[v] = visit[v]
  BY <1>2
<1>5. ReadersTallied'
  <2>1. \A h : Readers(h)' = Readers(h)
    BY <1>4 DEF Readers
  <2> QED
    BY <1>4, <2>1 DEF ReadersTallied, StreamIInv
<1>6. w \in Attached'
  BY <1>0, <1>2 DEF Attached
<1>7. WiredWhileWatched'
  BY <1>6 DEF WiredWhileWatched
<1> QED
  BY <1>0, <1>1, <1>3, <1>5, <1>7 DEF StreamIInv, Untold

LEMMA CloseSocketStep ==
  ASSUME StreamAssumption, StreamIInv, NEW w, CloseSocket(w)
  PROVE  StreamIInv'
<1> USE DEF CloseSocket
<1>0. /\ w \in Watchers /\ w \in SocketWatchers /\ Untold
      /\ visit \in [Watchers -> {"gone", "challenged", "live", "closing", "failed"}]
  BY DEF StreamAssumption, Untold, StreamIInv, StreamTypeOK
<1>1. StreamTypeOK'
  <2>1. visit' \in [Watchers -> {"gone", "challenged", "live", "closing", "failed"}]
    BY <1>0
  <2> QED
    BY <2>1 DEF StreamIInv, StreamTypeOK
<1>2. \A v \in Watchers : visit'[v] = IF v = w THEN "closing" ELSE visit[v]
  BY <1>0
<1>3. ASSUME NEW v \in SocketWatchers PROVE SocketFed(v)'
  <2>1. SocketFed(v) /\ v \in Watchers
    BY DEF StreamIInv, StreamAssumption
  <2>2. visit'[v] = "live" => visit[v] = "live"
    BY <1>2, <2>1
  <2> QED
    BY <1>0, <2>1, <2>2, StillFed DEF SocketFed
<1>4. \A v \in Watchers \ SocketWatchers : visit'[v] = visit[v]
  BY <1>0, <1>2
<1>5. ReadersTallied'
  <2>1. \A h : Readers(h)' = Readers(h)
    BY <1>4 DEF Readers
  <2> QED
    BY <1>4, <2>1 DEF ReadersTallied, StreamIInv
<1>6. Attached' = Attached
  BY <1>0, <1>2 DEF Attached
<1>7. WiredWhileWatched'
  BY <1>6 DEF WiredWhileWatched, StreamIInv
<1> QED
  BY <1>0, <1>1, <1>3, <1>5, <1>7 DEF StreamIInv, Untold

LEMMA SocketEventStep ==
  ASSUME StreamAssumption, StreamIInv, NEW w, SocketEvent(w)
  PROVE  StreamIInv'
<1> USE DEF SocketEvent
<1>0. /\ w \in Watchers /\ w \in SocketWatchers /\ Untold
      /\ visit \in [Watchers -> {"gone", "challenged", "live", "closing", "failed"}]
  BY DEF StreamAssumption, Untold, StreamIInv, StreamTypeOK
<1>2. PICK s \in {"gone", "failed"} : visit' = [visit EXCEPT ![w] = s]
  BY <1>0
<1>3. \A v \in Watchers : visit'[v] = IF v = w THEN s ELSE visit[v]
  BY <1>0, <1>2
<1>4. StreamTypeOK'
  <2>1. visit' \in [Watchers -> {"gone", "challenged", "live", "closing", "failed"}]
    BY <1>0, <1>2
  <2>2. slots' \in [Hosts -> 0 .. MaxConnections]
    <3> DEFINE h == HostOf[w]
    <3>1. slots \in [Hosts -> 0 .. MaxConnections] /\ MaxConnections \in Nat /\ h \in Hosts
      BY <1>0, StreamNumbers DEF StreamIInv, StreamTypeOK
    <3>2. slots[h] = 0 \/ slots[h] - 1 \in 0 .. MaxConnections
      BY <3>1
    <3>3. slots' = IF slots[h] = 0 THEN slots ELSE [slots EXCEPT ![h] = slots[h] - 1]
      BY DEF SlotReturned
    <3> HIDE DEF h
    <3> QED
      BY <3>1, <3>2, <3>3
  <2>3. wired' \in BOOLEAN
    BY DEF StreamIInv, StreamTypeOK, StillWired
  <2> QED
    BY <2>1, <2>2, <2>3 DEF StreamIInv, StreamTypeOK
<1>5. ASSUME NEW v \in SocketWatchers PROVE SocketFed(v)'
  <2>1. SocketFed(v) /\ v \in Watchers
    BY DEF StreamIInv, StreamAssumption
  <2>2. visit'[v] = "live" => visit[v] = "live"
    BY <1>3, <2>1
  <2> QED
    BY <1>0, <2>1, <2>2, StillFed DEF SocketFed
<1>6. \A v \in Watchers \ SocketWatchers : visit'[v] = visit[v]
  BY <1>0, <1>3
<1>7. ReadersTallied'
  <2>1. \A h : Readers(h)' = Readers(h)
    BY <1>6 DEF Readers
  <2> QED
    BY <1>6, <2>1 DEF ReadersTallied, StreamIInv
<1>8. Attached' = Attached \ {w}
  BY <1>0, <1>3 DEF Attached
<1>9. WiredWhileWatched'
  BY <1>8 DEF WiredWhileWatched, StreamIInv, StillWired
<1> QED
  BY <1>0, <1>4, <1>5, <1>7, <1>9 DEF StreamIInv, Untold

\* A reader comes or goes, and is counted at its address alone.
Recounted(w, s, d) == /\ visit' = [visit EXCEPT ![w] = s] /\ visit[w] # s
                      /\ \/ s = "live" /\ d = 1
                         \/ s = "gone" /\ d = -1
                      /\ streams' = [streams EXCEPT ![HostOf[w]] = streams[HostOf[w]] + d]

LEMMA TallyMoves ==
  ASSUME StreamAssumption, StreamIInv, NEW w \in Watchers \ SocketWatchers, NEW s, NEW d, Recounted(w, s, d)
  PROVE  /\ ReadersTallied'
         /\ \A v \in Watchers : visit'[v] = IF v = w THEN s ELSE visit[v]
         /\ visit' \in [Watchers -> {"gone", "challenged", "live", "closing", "failed"}]
         /\ streams' \in [Hosts -> Nat]
         /\ \A h \in Hosts : streams'[h] = IF h = HostOf[w] THEN streams[h] + d ELSE streams[h]
<1> USE DEF Recounted
<1>00. d \in Int
  OBVIOUS
<1>0. /\ visit \in [Watchers -> {"gone", "challenged", "live", "closing", "failed"}]
      /\ streams \in [Hosts -> 0 .. MaxConnections] /\ HostOf[w] \in Hosts /\ MaxConnections \in Nat
  BY StreamNumbers DEF StreamIInv, StreamTypeOK
<1>1. /\ \A v \in Watchers : visit'[v] = IF v = w THEN s ELSE visit[v]
      /\ visit' \in [Watchers -> {"gone", "challenged", "live", "closing", "failed"}]
  BY <1>0
<1>2. \A h \in Hosts : streams'[h] = IF h = HostOf[w] THEN streams[h] + d ELSE streams[h]
  BY <1>0, <1>00
<1>3. ASSUME NEW h \in Hosts PROVE streams'[h] = Cardinality(Readers(h)') /\ streams'[h] \in Nat
  <2>1. IsFiniteSet(Readers(h)) /\ IsFiniteSet(Readers(h)') /\ Cardinality(Readers(h)) \in Nat
        /\ Cardinality(Readers(h)') \in Nat
    <3>1. IsFiniteSet(Watchers) /\ Readers(h) \subseteq Watchers /\ Readers(h)' \subseteq Watchers
      BY DEF StreamAssumption, Readers
    <3> QED
      BY <3>1, FS_Subset, FS_CardinalityType
  <2>2. streams[h] = Cardinality(Readers(h))
    BY DEF StreamIInv, ReadersTallied
  <2>3. CASE h # HostOf[w]
    <3>1. Readers(h)' = Readers(h)
      BY <1>1, <2>3 DEF Readers
    <3> QED
      BY <1>2, <2>1, <2>2, <2>3, <3>1
  <2>4. CASE h = HostOf[w] /\ s = "live"
    <3>1. Readers(h)' = Readers(h) \cup {w} /\ w \notin Readers(h)
      BY <1>1, <2>4 DEF Readers
    <3>2. Cardinality(Readers(h)') = Cardinality(Readers(h)) + 1
      BY <2>1, <3>1, FS_AddElement
    <3> QED
      BY <1>2, <2>1, <2>2, <2>4, <3>2
  <2>5. CASE h = HostOf[w] /\ s = "gone"
    <3>1. visit[w] = "live"
      BY <2>5 DEF StreamIInv, ReadersTallied
    <3>2. Readers(h)' = Readers(h) \ {w} /\ w \in Readers(h)
      BY <1>1, <2>5, <3>1 DEF Readers
    <3>3. Cardinality(Readers(h)') = Cardinality(Readers(h)) - 1
      BY <2>1, <3>2, FS_RemoveElement
    <3> QED
      BY <1>2, <2>1, <2>2, <2>5, <3>3
  <2> QED
    BY <2>3, <2>4, <2>5
<1>4. streams' \in [Hosts -> Nat]
  <2>1. DOMAIN streams' = Hosts /\ streams' = [h \in Hosts |-> streams'[h]]
    BY <1>0
  <2> QED
    BY <1>3, <2>1
<1>5. \A v \in Watchers \ SocketWatchers : visit'[v] \in {"gone", "live"}
  BY <1>1 DEF StreamIInv, ReadersTallied
<1>6. ReadersTallied'
  BY <1>3, <1>5 DEF ReadersTallied, Hosts
<1> QED
  BY <1>1, <1>2, <1>4, <1>6

LEMMA OpenStreamStep ==
  ASSUME StreamAssumption, StreamIInv, NEW w \in Watchers \ SocketWatchers, OpenStream(w)
  PROVE  StreamIInv'
<1> USE DEF OpenStream, Attach
<1>0. Untold /\ place \in [Watchers -> Before .. (MaxNumber - 1)] /\ MaxNumber \in Nat
      /\ MaxConnections \in Nat /\ MaxVisits \in Nat
  BY StreamNumbers DEF Untold, StreamIInv, StreamTypeOK
<1>1. /\ ReadersTallied'
      /\ \A v \in Watchers : visit'[v] = IF v = w THEN "live" ELSE visit[v]
      /\ visit' \in [Watchers -> {"gone", "challenged", "live", "closing", "failed"}]
      /\ streams' \in [Hosts -> Nat]
      /\ \A h \in Hosts : streams'[h] = IF h = HostOf[w] THEN streams[h] + 1 ELSE streams[h]
  <2> DEFINE s == "live"
             d == 1
  <2>1. Recounted(w, s, d)
    BY DEF Recounted
  <2> HIDE DEF s, d
  <2>2. /\ ReadersTallied'
        /\ \A v \in Watchers : visit'[v] = IF v = w THEN s ELSE visit[v]
        /\ visit' \in [Watchers -> {"gone", "challenged", "live", "closing", "failed"}]
        /\ streams' \in [Hosts -> Nat]
        /\ \A h \in Hosts : streams'[h] = IF h = HostOf[w] THEN streams[h] + d ELSE streams[h]
    BY <2>1, TallyMoves
  <2> QED
    BY <2>2 DEF s, d
<1>2. \A v \in SocketWatchers : v # w /\ v \in Watchers
  BY DEF StreamAssumption
<1>3. \A v \in Watchers : v # w => place'[v] = place[v]
  BY <1>0
<1>4. StreamTypeOK'
  <2>1. ResumeFrom(w) \in Before .. (MaxNumber - 1)
    <3>1. CASE received[w] = <<>>
      BY <1>0, <3>1 DEF ResumeFrom, Before
    <3>2. CASE received[w] # <<>>
      <4>1. received[w] \in Seq(0 .. (MaxNumber - 1))
        BY DEF StreamIInv, StreamTypeOK
      <4>2. Len(received[w]) \in 1 .. Len(received[w]) /\ received[w][Len(received[w])] \in 0 .. (MaxNumber - 1)
        BY <3>2, <4>1, SeqFacts
      <4> QED
        BY <1>0, <3>2, <4>2 DEF ResumeFrom, Last, Before
    <3> QED
      BY <3>1, <3>2
  <2>2. place' \in [Watchers -> Before .. (MaxNumber - 1)]
    BY <1>0, <2>1
  <2>3. visits' \in [Watchers -> 0 .. MaxVisits]
    <3>1. visits \in [Watchers -> 0 .. MaxVisits]
      BY DEF StreamIInv, StreamTypeOK
    <3>2. visits[w] + 1 \in 0 .. MaxVisits
      BY <1>0, <3>1
    <3> QED
      BY <3>1, <3>2
  <2>4. streams' \in [Hosts -> 0 .. MaxConnections]
    <3>1. streams \in [Hosts -> 0 .. MaxConnections] /\ HostOf[w] \in Hosts
      BY StreamNumbers DEF StreamIInv, StreamTypeOK
    <3>2. streams[HostOf[w]] + 1 \in 0 .. MaxConnections
      BY <1>0, <3>1
    <3> QED
      BY <3>1, <3>2
  <2> QED
    BY <1>1, <2>2, <2>3, <2>4 DEF StreamIInv, StreamTypeOK
<1>5. ASSUME NEW v \in SocketWatchers PROVE SocketFed(v)'
  <2>1. SocketFed(v) /\ visit'[v] = visit[v] /\ place'[v] = place[v]
    BY <1>1, <1>2, <1>3 DEF StreamIInv
  <2>2. visit'[v] = "live" => place'[v] = ResumeFrom(v)
    BY <2>1 DEF SocketFed
  <2>3. visit'[v] = "live" => /\ place'[v] = ResumeFrom(v)
                              /\ draining' \/ (visit[v] = "live" /\ draining' = draining)
    BY <2>2
  <2> QED
    BY <1>0, <2>1, <2>3, StillFed
<1>6. w \in Attached'
  BY <1>1 DEF Attached
<1>7. WiredWhileWatched'
  BY <1>6 DEF WiredWhileWatched
<1> QED
  BY <1>0, <1>1, <1>4, <1>5, <1>7 DEF StreamIInv, Untold

LEMMA CloseStreamStep ==
  ASSUME StreamAssumption, StreamIInv, NEW w \in Watchers \ SocketWatchers, CloseStream(w)
  PROVE  StreamIInv'
<1> USE DEF CloseStream
<1>0. Untold /\ MaxConnections \in Nat
  BY StreamNumbers DEF Untold, StreamIInv
<1>1. /\ ReadersTallied'
      /\ \A v \in Watchers : visit'[v] = IF v = w THEN "gone" ELSE visit[v]
      /\ visit' \in [Watchers -> {"gone", "challenged", "live", "closing", "failed"}]
      /\ streams' \in [Hosts -> Nat]
      /\ \A h \in Hosts : streams'[h] = IF h = HostOf[w] THEN streams[h] + (-1) ELSE streams[h]
  <2> DEFINE s == "gone"
             d == -1
  <2>2. Recounted(w, s, d)
    <3>1. streams \in [Hosts -> 0 .. MaxConnections] /\ HostOf[w] \in Hosts
      BY StreamNumbers DEF StreamIInv, StreamTypeOK
    <3>2. streams[HostOf[w]] + d = streams[HostOf[w]] - 1
      BY <1>0, <3>1
    <3> QED
      BY <3>2 DEF Recounted
  <2> HIDE DEF s, d
  <2>3. /\ ReadersTallied'
        /\ \A v \in Watchers : visit'[v] = IF v = w THEN s ELSE visit[v]
        /\ visit' \in [Watchers -> {"gone", "challenged", "live", "closing", "failed"}]
        /\ streams' \in [Hosts -> Nat]
        /\ \A h \in Hosts : streams'[h] = IF h = HostOf[w] THEN streams[h] + d ELSE streams[h]
    BY <2>2, TallyMoves
  <2> QED
    BY <2>3 DEF s, d
<1>2. \A v \in SocketWatchers : v # w /\ v \in Watchers
  BY DEF StreamAssumption
<1>3. StreamTypeOK'
  <2>1. streams' \in [Hosts -> 0 .. MaxConnections]
    <3>1. streams \in [Hosts -> 0 .. MaxConnections]
      BY DEF StreamIInv, StreamTypeOK
    <3>2. \A h \in Hosts : streams'[h] \in Nat /\ streams'[h] <= MaxConnections
      BY <1>0, <1>1, <3>1
    <3> QED
      BY <1>0, <1>1, <3>2
  <2>2. wired' \in BOOLEAN
    BY DEF StreamIInv, StreamTypeOK, StillWired
  <2> QED
    BY <1>1, <2>1, <2>2 DEF StreamIInv, StreamTypeOK
<1>4. ASSUME NEW v \in SocketWatchers PROVE SocketFed(v)'
  <2>1. SocketFed(v) /\ visit'[v] = visit[v]
    BY <1>1, <1>2 DEF StreamIInv
  <2> QED
    BY <1>0, <2>1, StillFed DEF SocketFed
<1>5. Attached' = Attached \ {w} /\ w \in Attached
  BY <1>1 DEF Attached
<1>6. WiredWhileWatched'
  BY <1>5 DEF WiredWhileWatched, StreamIInv, StillWired
<1> QED
  BY <1>0, <1>1, <1>3, <1>4, <1>6 DEF StreamIInv, Untold

-----------------------------------------------------------------------------
LEMMA ReadFromFacts ==
  ASSUME StreamAssumption, StreamTypeOK, Attached # {}
  PROVE  ReadFrom \in Int /\ \A w \in Attached : ReadFrom <= place[w]
<1>1. \A w \in Attached : place[w] \in Int /\ -1 <= place[w]
  BY StreamNumbers DEF Before
<1> DEFINE P == {place[w] + 1 : w \in Attached}
<1>2. P \subseteq Nat /\ P # {}
  BY <1>1
<1> HIDE DEF P
<1>3. PICK m \in P : \A k \in P : m <= k
  BY <1>2, LeastExists
<1>4. PICK v \in Attached : m = place[v] + 1
  BY DEF P
<1>5. \A w \in Attached : place[v] <= place[w]
  <2> SUFFICES ASSUME NEW w \in Attached PROVE place[v] <= place[w]
    OBVIOUS
  <2>1. m <= place[w] + 1
    BY <1>3 DEF P
  <2> QED
    BY <1>1, <1>4, <2>1
<1> DEFINE Q == {place[w] : w \in Attached}
<1>6. \E n \in Q : \A w \in Attached : n <= place[w]
  BY <1>5
<1>7. ReadFrom \in Q /\ \A w \in Attached : ReadFrom <= place[w]
  BY <1>6 DEF ReadFrom
<1> QED
  BY <1>1, <1>7

\* The rows due to a watcher are those after its cursor, up to the end of the page; a
\* short page ends where the store does.
LEMMA DueFacts ==
  ASSUME StreamAssumption, StreamTypeOK, NEW w \in Attached
  PROVE  /\ Lists(Due(w), {n \in stored : place[w] < n /\ n <= Through(Page)})
         /\ Len(Page) # PageSize => \A n \in stored : n <= Through(Page)
         /\ Due(w) \in Seq(0 .. (MaxNumber - 1)) /\ Len(Due(w)) \in Nat
         /\ Due(w) # <<>> => Last(Due(w)) \in stored
<1>1. /\ ReadFrom \in Int /\ ReadFrom <= place[w] /\ place[w] \in Int
      /\ stored \subseteq Nat /\ stored \subseteq 0 .. (MaxNumber - 1) /\ PageSize \in Nat
  BY ReadFromFacts, StreamNumbers DEF StreamTypeOK
<1>2. ReadSoFar(Page, PageSize)
  BY <1>1, PageFacts
<1> DEFINE T == {n \in stored : ReadFrom < n /\ n <= Through(Page)}
           U == {n \in stored : place[w] < n /\ n <= Through(Page)}
           V == {n \in T : n > place[w]}
<1>3. Lists(Page, T)
  BY <1>2 DEF ReadSoFar
<1>4. Lists(Due(w), V)
  <2> HIDE DEF T
  <2> QED
    BY <1>1, <1>3, PastFacts DEF Due
<1>5. V = U
  <2>1. \A n \in stored : n \in Int
    BY <1>1
  <2>2. \A n \in stored : place[w] < n => ReadFrom < n
    BY <1>1, <2>1
  <2>3. \A n \in stored : n > place[w] <=> place[w] < n
    BY <1>1, <2>1
  <2> QED
    BY <2>2, <2>3
<1>6. Lists(Due(w), U)
  BY <1>4, <1>5
<1> HIDE DEF U, T, V
<1>7. Due(w) \in Seq(U) /\ Len(Due(w)) \in Nat /\ (Due(w) # <<>> => Last(Due(w)) \in U)
  BY <1>6, ListFacts
<1>8. U \subseteq stored
  BY DEF U
<1>9. Due(w) \in Seq(0 .. (MaxNumber - 1))
  <2> DEFINE S == 0 .. (MaxNumber - 1)
  <2>1. U \subseteq S
    BY <1>1, <1>8
  <2> HIDE DEF S
  <2>2. Due(w) \in [1 .. Len(Due(w)) -> U]
    BY <1>7, SeqFacts, LenProperties, SeqDef
  <2>3. Due(w) \in [1 .. Len(Due(w)) -> S]
    BY <2>1, <2>2
  <2>4. Due(w) \in Seq(S)
    BY <1>7, <2>3, SeqDef
  <2> QED
    BY <2>4 DEF S
<1>10. Len(Page) # PageSize => \A n \in stored : n <= Through(Page)
  BY <1>2 DEF ReadSoFar
<1> QED
  BY <1>6, <1>7, <1>8, <1>9, <1>10 DEF U

LEMMA TakenFacts ==
  ASSUME StreamAssumption, StreamTypeOK, NEW w \in Attached, NEW o \in Taken(w)
  PROVE  /\ o \in Seq(0 .. (MaxNumber - 1))
         /\ visit[w] = "closing" => o = <<>>
         /\ visit[w] = "live" /\ w \in SocketWatchers => o = Due(w)
<1> DEFINE S == 0 .. (MaxNumber - 1)
<1>1. Due(w) \in Seq(S) /\ Len(Due(w)) \in Nat
  BY DueFacts
<1> HIDE DEF S
<1>2. CASE visit[w] = "closing"
  <2>1. o = <<>> /\ <<>> \in Seq(S)
    BY <1>2, EmptySeq DEF Taken
  <2> QED
    BY <1>2, <2>1 DEF S
<1>3. CASE visit[w] # "closing" /\ w \in SocketWatchers
  BY <1>1, <1>3 DEF Taken, S
<1>4. CASE visit[w] # "closing" /\ w \notin SocketWatchers
  <2>1. PICK k \in 0 .. Len(Due(w)) : o = SubSeq(Due(w), 1, k)
    BY <1>4 DEF Taken
  <2>2. \A i \in 1 .. k : i \in 1 .. Len(Due(w)) /\ k \in Int
    BY <1>1
  <2>3. \A i \in 1 .. k : Due(w)[i] \in S
    BY <1>1, <2>2, SeqFacts
  <2>4. k \in Int
    BY <1>1
  <2> DEFINE d == Due(w)
  <2> HIDE DEF d
  <2>5. SubSeq(d, 1, k) \in Seq(S)
    <3>1. \A i \in 1 .. k : d[i] \in S
      BY <2>3 DEF d
    <3> QED
      BY <2>4, <3>1, SubSeqProperties
  <2> QED
    BY <1>4, <2>1, <2>5 DEF d, S
<1> QED
  BY <1>2, <1>3, <1>4

LEMMA DrainPageStep ==
  ASSUME StreamAssumption, StreamIInv, DrainPage
  PROVE  StreamIInv'
<1> DEFINE Live == {"gone", "challenged", "live", "closing", "failed"}
<1>0. /\ visit \in [Watchers -> Live] /\ place \in [Watchers -> Before .. (MaxNumber - 1)]
      /\ streams \in [Hosts -> 0 .. MaxConnections] /\ MaxConnections \in Nat /\ MaxNumber \in Nat
      /\ \A n \in stored : n \in 0 .. (MaxNumber - 1)
      /\ SocketWatchers \subseteq Watchers /\ Attached \subseteq Watchers /\ IsFiniteSet(Watchers)
      /\ \A w \in Watchers : received[w] \in Seq(0 .. (MaxNumber - 1)) /\ place[w] \in Int
  BY StreamNumbers DEF StreamIInv, StreamTypeOK, StreamAssumption
<1>1. PICK out \in [Attached -> UNION {Taken(w) : w \in Attached}] :
         LET done == {w \in Attached \ SocketWatchers : Ends(out[w])}
         IN  /\ \A w \in Attached : out[w] \in Taken(w)
             /\ received' = [w \in Watchers |-> IF w \in Attached THEN received[w] \o out[w]
                                                                 ELSE received[w]]
             /\ place' = [w \in Watchers |-> IF w \in Attached /\ Due(w) # <<>>
                                             THEN Last(Due(w)) ELSE place[w]]
             /\ visit' = [w \in Watchers |-> IF w \in done THEN "gone" ELSE visit[w]]
             /\ streams' = [h \in Hosts |->
                              streams[h] - Cardinality({w \in done : HostOf[w] = h})]
             /\ wired' = (wired /\ Attached \ done # {})
  BY DEF DrainPage
<1>2. draining' = (Len(Page) = PageSize) /\ UNCHANGED <<emitted, stored, lastEvent, visits, slots>>
  BY DEF DrainPage
<1> DEFINE done == {w \in Attached \ SocketWatchers : Ends(out[w])}
<1>3. done \subseteq Watchers \ SocketWatchers /\ \A w \in done : visit[w] = "live" /\ w \in Attached
  BY <1>0 DEF StreamIInv, ReadersTallied, Attached
<1>4. \A w \in Watchers :
        /\ received'[w] = IF w \in Attached THEN received[w] \o out[w] ELSE received[w]
        /\ place'[w] = IF w \in Attached /\ Due(w) # <<>> THEN Last(Due(w)) ELSE place[w]
        /\ visit'[w] = IF w \in done THEN "gone" ELSE visit[w]
  BY <1>1
<1>5. \A h \in Hosts : streams'[h] = streams[h] - Cardinality({w \in done : HostOf[w] = h})
  BY <1>1
<1>6. wired' = (wired /\ Attached \ done # {})
  BY <1>1
<1>7. \A w \in Attached : out[w] \in Taken(w)
  BY <1>1
<1>8. /\ DOMAIN streams' = Hosts /\ visit' \in [Watchers -> Live]
      /\ streams' = [h \in Hosts |-> streams'[h]]
      /\ place' = [w \in Watchers |-> place'[w]]
  BY <1>0, <1>1
<1> HIDE DEF done, Live
<1>9. \A w \in Attached : /\ out[w] \in Seq(0 .. (MaxNumber - 1))
                          /\ visit[w] = "closing" => out[w] = <<>>
                          /\ visit[w] = "live" /\ w \in SocketWatchers => out[w] = Due(w)
  BY <1>7, TakenFacts DEF StreamIInv
<1>10. ASSUME NEW h \in Hosts
       PROVE  streams'[h] = Cardinality(Readers(h)') /\ streams'[h] \in 0 .. MaxConnections
  <2> DEFINE G == {w \in done : HostOf[w] = h}
  <2>1. G \subseteq Readers(h) /\ Readers(h)' = Readers(h) \ G /\ Readers(h) \cap G = G
    BY <1>3, <1>4 DEF Readers
  <2>2. IsFiniteSet(Readers(h)) /\ streams[h] = Cardinality(Readers(h)) /\ IsFiniteSet(G)
    <3>1. Readers(h) \subseteq Watchers
      BY DEF Readers
    <3>2. IsFiniteSet(Readers(h))
      BY <1>0, <3>1, FS_Subset
    <3>3. IsFiniteSet(G)
      BY <2>1, <3>2, FS_Subset
    <3> QED
      BY <3>2, <3>3 DEF StreamIInv, ReadersTallied
  <2>3. streams'[h] = streams[h] - Cardinality(G)
    BY <1>5
  <2> HIDE DEF G
  <2>4. /\ IsFiniteSet(Readers(h) \ G)
        /\ Cardinality(Readers(h) \ G) = Cardinality(Readers(h)) - Cardinality(G)
    BY <2>1, <2>2, FS_Difference
  <2>5. Cardinality(Readers(h) \ G) \in Nat /\ Cardinality(G) \in Nat /\ Cardinality(Readers(h)) \in Nat
    BY <2>2, <2>4, FS_CardinalityType
  <2>6. streams[h] \in 0 .. MaxConnections
    BY <1>0
  <2>7. streams'[h] = Cardinality(Readers(h)')
    BY <2>1, <2>2, <2>3, <2>4
  <2>8. streams'[h] \in 0 .. MaxConnections
    BY <1>0, <2>2, <2>3, <2>4, <2>5, <2>6
  <2> QED
    BY <2>7, <2>8
<1>11. ReadersTallied'
  <2>1. \A w \in Watchers \ SocketWatchers : visit'[w] \in {"gone", "live"}
    BY <1>4 DEF StreamIInv, ReadersTallied
  <2> QED
    BY <1>10, <2>1 DEF ReadersTallied, Hosts
<1>12. WiredWhileWatched'
  <2>1. Attached' = Attached \ done
    BY <1>3, <1>4 DEF Attached
  <2>2. WiredWhileWatched
    BY DEF StreamIInv
  <2> QED
    BY <1>6, <2>1, <2>2 DEF WiredWhileWatched
<1>13. StreamTypeOK'
  <2>1. streams' \in [Hosts -> 0 .. MaxConnections]
    BY <1>8, <1>10
  <2>2. place' \in [Watchers -> Before .. (MaxNumber - 1)]
    <3>1. ASSUME NEW w \in Watchers PROVE place'[w] \in Before .. (MaxNumber - 1)
      <4>1. CASE w \in Attached /\ Due(w) # <<>>
        <5>1. Last(Due(w)) \in stored
          BY <4>1, DueFacts DEF StreamIInv
        <5>2. Last(Due(w)) \in 0 .. (MaxNumber - 1)
          BY <1>0, <5>1
        <5>3. \A n \in 0 .. (MaxNumber - 1) : n \in Before .. (MaxNumber - 1)
          BY DEF Before
        <5>4. place'[w] = Last(Due(w))
          BY <1>4, <4>1
        <5> QED
          BY <5>2, <5>3, <5>4
      <4>2. CASE ~(w \in Attached /\ Due(w) # <<>>)
        <5>1. place'[w] = place[w]
          BY <1>4, <4>2
        <5> QED
          BY <1>0, <5>1
      <4> QED
        BY <4>1, <4>2
    <3> QED
      BY <1>8, <3>1
  <2>3. \A w \in Watchers : received'[w] \in Seq(0 .. (MaxNumber - 1))
    <3> DEFINE S == 0 .. (MaxNumber - 1)
    <3>1. \A w \in Watchers : received[w] \in Seq(S) /\ (w \in Attached => out[w] \in Seq(S))
      BY <1>0, <1>9
    <3> HIDE DEF S
    <3>2. ASSUME NEW w \in Watchers PROVE received'[w] \in Seq(S)
      <4>1. CASE w \in Attached
        <5>1. received[w] \o out[w] \in Seq(S)
          BY <3>1, <4>1, ConcatProperties
        <5> QED
          BY <1>4, <4>1, <5>1
      <4>2. CASE w \notin Attached
        BY <1>4, <3>1, <4>2
      <4> QED
        BY <4>1, <4>2
    <3> QED
      BY <3>2 DEF S
  <2>4. wired' \in BOOLEAN /\ draining' \in BOOLEAN
    BY <1>2, <1>6 DEF StreamIInv, StreamTypeOK
  <2>5. /\ emitted' \in 0 .. MaxNumber /\ stored' \subseteq 0 .. (MaxNumber - 1)
        /\ lastEvent' \in NoEvent .. (MaxNumber - 1)
        /\ visits' \in [Watchers -> 0 .. MaxVisits] /\ slots' \in [Hosts -> 0 .. MaxConnections]
    BY <1>2 DEF StreamIInv, StreamTypeOK
  <2> QED
    BY <1>8, <2>1, <2>2, <2>3, <2>4, <2>5 DEF StreamTypeOK, Live
<1>14. ASSUME NEW w \in SocketWatchers PROVE SocketFed(w)'
  <2>0. w \in Watchers /\ SocketFed(w) /\ w \notin done
    BY <1>0, <1>3 DEF StreamIInv
  <2>1. visit'[w] = visit[w]
    BY <1>4, <2>0
  <2>2. CASE visit[w] # "live"
    <3>1. received'[w] = received[w]
      <4>1. CASE w \in Attached
        <5>1. out[w] = <<>>
          BY <1>9, <2>2, <4>1 DEF Attached
        <5>2. received[w] \o <<>> = received[w]
          BY <1>0, <2>0, ConcatEmptySeq
        <5> QED
          BY <1>4, <2>0, <4>1, <5>1, <5>2
      <4>2. CASE w \notin Attached
        BY <1>4, <2>0, <4>2
      <4> QED
        BY <4>1, <4>2
    <3>2. ResumeFrom(w)' = ResumeFrom(w) /\ UpTo(ResumeFrom(w))' = UpTo(ResumeFrom(w))
      BY <1>2, <3>1 DEF ResumeFrom, UpTo
    <3> QED
      BY <2>0, <2>1, <2>2, <3>1, <3>2 DEF SocketFed
  <2>3. CASE visit[w] = "live"
    <3>1. w \in Attached /\ out[w] = Due(w) /\ place[w] = ResumeFrom(w)
      BY <1>9, <2>0, <2>3 DEF Attached, SocketFed
    <3> DEFINE R == ResumeFrom(w)
               r == received[w]
               q == Due(w)
               T == UpTo(R)
               U == {n \in stored : R < n /\ n <= Through(Page)}
               N == IF q = <<>> THEN R ELSE Last(q)
    <3>2. Lists(r, T) /\ Lists(q, U) /\ R \in Int
      <4>1. Lists(r, T)
        BY <2>0 DEF SocketFed
      <4>2. place[w] \in Int
        BY <1>0, <2>0
      <4>3. Lists(q, {n \in stored : place[w] < n /\ n <= Through(Page)})
        BY <3>1, DueFacts DEF StreamIInv
      <4> QED
        BY <3>1, <4>1, <4>2, <4>3
    <3>3. Len(Page) # PageSize => \A n \in stored : n <= Through(Page)
      BY <3>1, DueFacts DEF StreamIInv
    <3>4. \A n \in stored : n \in Int
      BY <1>0
    <3>5. Below(T, U)
      BY <3>2, <3>4 DEF Below, UpTo
    <3>6. received'[w] = r \o q
      BY <1>4, <2>0, <3>1
    <3>7. /\ q # <<>> => /\ Last(q) \in U /\ \A x \in U : x <= Last(q)
          /\ q = <<>> <=> U = {}
      <4> HIDE DEF q, U
      <4> QED
        BY <3>2, ListFacts
    <3>8. /\ Lists(r \o q, T \cup U)
          /\ q = <<>> => r \o q = r
          /\ q # <<>> => r \o q # <<>> /\ Last(r \o q) = Last(q)
      <4> HIDE DEF r, q, T, U
      <4> QED
        BY <3>2, <3>5, ListOn
    <3>9. ResumeFrom(w)' = N
      <4>1. ResumeFrom(w)' = IF received'[w] = <<>> THEN Before ELSE Last(received'[w])
        BY DEF ResumeFrom
      <4>2. CASE q = <<>>
        BY <3>6, <3>8, <4>1, <4>2 DEF ResumeFrom
      <4>3. CASE q # <<>>
        BY <3>6, <3>8, <4>1, <4>3
      <4> QED
        BY <4>2, <4>3
    <3>10. UpTo(N) = T \cup U
      <4>1. CASE q = <<>>
        BY <3>7, <4>1
      <4>2. CASE q # <<>>
        <5> DEFINE m == Last(q)
        <5>1. m \in U /\ \A x \in U : x <= m
          BY <3>7, <4>2
        <5>2. m \in Int /\ R < m /\ m <= Through(Page) /\ N = m
          BY <3>4, <4>2, <5>1
        <5> HIDE DEF m, N, R
        <5>3. ASSUME NEW n \in stored PROVE n <= m <=> n <= R \/ n \in U
          <6>1. n \in Int
            BY <3>4
          <6>2. CASE n <= R
            BY <3>2, <5>2, <6>1, <6>2
          <6>3. CASE R < n
            <7>1. n <= m => n \in U
              <8>1. ASSUME n <= m PROVE n <= Through(Page)
                <9>1. Through(Page) \in Int
                  <10>1. ReadSoFar(Page, PageSize)
                    <11>1. /\ Attached # {} /\ ReadFrom \in Int /\ PageSize \in Nat
                           /\ stored \subseteq Nat
                      BY <3>1, ReadFromFacts, StreamNumbers DEF StreamIInv
                    <11> QED
                      BY <11>1, PageFacts
                  <10> QED
                    BY <10>1 DEF ReadSoFar
                <9> QED
                  BY <5>2, <6>1, <8>1, <9>1
              <8> QED
                BY <6>3, <8>1
            <7> QED
              BY <3>2, <5>1, <6>1, <6>3, <7>1
          <6> QED
            BY <3>2, <6>1, <6>2, <6>3
        <5>4. {n \in stored : n <= m} = {n \in stored : n <= R} \cup U
          BY <5>3
        <5> QED
          BY <5>2, <5>4 DEF UpTo
      <4> QED
        BY <4>1, <4>2
    <3>11. UpTo(ResumeFrom(w))' = UpTo(N)
      BY <1>2, <3>9 DEF UpTo
    <3>12. Lists(received[w], UpTo(ResumeFrom(w)))'
      BY <3>6, <3>8, <3>10, <3>11 DEF Lists
    <3>13. place'[w] = N
      BY <1>4, <2>0, <3>1
    <3>14. ASSUME ~draining' PROVE \A n \in stored : n <= N
      <4>1. \A n \in stored : n <= Through(Page)
        BY <1>2, <3>3, <3>14
      <4>2. ASSUME NEW n \in stored PROVE n \in T \cup U
        <5>1. n <= R \/ R < n
          BY <3>2, <3>4
        <5> QED
          BY <4>1, <5>1 DEF UpTo
      <4>3. \A n \in stored : n \in UpTo(N)
        BY <3>10, <4>2
      <4> QED
        BY <4>3 DEF UpTo
    <3> HIDE DEF N
    <3>15. visit'[w] = "live" /\ ~draining' => \A n \in stored' : n <= ResumeFrom(w)'
      BY <1>2, <3>9, <3>14
    <3> QED
      BY <3>9, <3>12, <3>13, <3>15 DEF SocketFed
  <2> QED
    BY <2>2, <2>3
<1> QED
  BY <1>2, <1>11, <1>12, <1>13, <1>14 DEF StreamIInv

LEMMA StreamStep == StreamAssumption /\ StreamIInv /\ [StreamNext]_streamVars => StreamIInv'
<1> SUFFICES ASSUME StreamAssumption, StreamIInv, [StreamNext]_streamVars PROVE StreamIInv'
  OBVIOUS
<1>1. CASE \E ends \in BOOLEAN : EmitEvent(ends)
  BY <1>1, EmitEventStep
<1>2. CASE DrainPage
  BY <1>2, DrainPageStep
<1>3. CASE \E w \in SocketWatchers : \/ Upgrade(w) \/ Authenticate(w)
                                     \/ CloseSocket(w) \/ SocketEvent(w)
  BY <1>3, UpgradeStep, AuthenticateStep, CloseSocketStep, SocketEventStep
<1>4. CASE \E w \in Watchers \ SocketWatchers : OpenStream(w) \/ CloseStream(w)
  BY <1>4, OpenStreamStep, CloseStreamStep
<1>5. CASE UNCHANGED streamVars
  <2>1. StreamTypeOK' /\ stored' \subseteq 0 .. (emitted' - 1)
    BY <1>5 DEF streamVars, StreamIInv, StreamTypeOK
  <2>2. ASSUME NEW w \in SocketWatchers PROVE SocketFed(w)'
    BY <1>5 DEF streamVars, StreamIInv, SocketFed, ResumeFrom, UpTo
  <2>3. ReadersTallied' /\ WiredWhileWatched'
    BY <1>5 DEF streamVars, StreamIInv, ReadersTallied, Readers, WiredWhileWatched, Attached
  <2> QED
    BY <2>1, <2>2, <2>3 DEF StreamIInv
<1> QED
  BY <1>1, <1>2, <1>3, <1>4, <1>5 DEF StreamNext

THEOREM StreamHolds == StreamSpec => []StreamInv
<1>1. StreamInit => StreamIInv
  BY StreamStart, StreamAssumption
<1>2. StreamIInv /\ [StreamNext]_streamVars => StreamIInv'
  BY StreamStep, StreamAssumption
<1>3. StreamIInv => StreamInv
  BY StreamShows, StreamAssumption
<1> QED
  BY <1>1, <1>2, <1>3, PTL DEF StreamSpec

THEOREM EventsHold == RetentionSpec /\ StreamSpec => []EventsInv
<1>1. RetentionInv /\ StreamInv => EventsInv
  BY DEF EventsInv
<1> QED
  BY <1>1, RetentionHolds, StreamHolds, PTL
=============================================================================
