------------------------- MODULE BundleStreamProofs -------------------------
(***************************************************************************)
(* What the upload page may rely on, for any number of files and workers   *)
(* whose transactions draw event numbers in one order and commit them in   *)
(* another, and wherever the bootstrap of the WebSocket falls among them.  *)
(***************************************************************************)
EXTENDS BundleStream, SequenceTheorems, FiniteSetTheorems, WellFoundedInduction, TLAPS

(* The tables of two events, or sets of events, put together.              *)
LEMMA OverEvents ==
  ASSUME NEW events, NEW others
  PROVE  /\ DOMAIN Over(events, others) = DOMAIN events \cup DOMAIN others
         /\ \A n \in DOMAIN events : Over(events, others)[n] = events[n]
         /\ \A n \in DOMAIN others \ DOMAIN events : Over(events, others)[n] = others[n]
BY DEF Over

(* One event.                                                              *)
LEMMA RowEvents ==
  ASSUME NEW n, NEW event
  PROVE  DOMAIN Row(n, event) = {n} /\ Row(n, event)[n] = event
BY DEF Row

(* The handler and the page do not look at open transactions, and workers  *)
(* do not look at the handler.                                             *)
LEMMA ServesStays ==
  ASSUME Serves, UNCHANGED <<version, log, server, page, raced>>
  PROVE  Serves'
BY DEF Serves, NotAhead, ShownBelow, ShownAbove, BatchIsWhole, ClosedByEnd, Unseen, EventsOf

(* Nor does the handler change what the workers see.                       *)
LEMMA LedgerStays ==
  ASSUME Ledger, UNCHANGED database
  PROVE  Ledger'
BY DEF Ledger, database, Holds, CountsOn, HoldsAlone, FilesFirst, Counted, TerminalLast,
       EventsOf, FileEvents

(* A transaction begins that ends or claims a job nobody else writes.      *)
LEMMA BeginKeeps ==
  ASSUME StreamInv, NEW w \in Workers, NEW j \in Jobs, NEW status \in JobStatuses,
         NEW todo \in Seq({"file_updated", "bundle_terminal"}), Begin(w, j, status, todo),
         \/ held[w] = None /\ jobStatus[j] = "queued" /\ status = "running"
         \/ held[w] = j /\ status # "running",
         \A v \in Workers : tx[v].job # j,
         \A i \in 1..Len(todo) : todo[i] = KindOf(j)
  PROVE  StreamInv'
PROOF
  <1> DEFINE t == [job |-> j, status |-> status, todo |-> todo, wrote |-> NoEvents]
  <1>1. /\ tx' = [tx EXCEPT ![w] = t]
        /\ UNCHANGED <<jobStatus, version, log, lastNo, held, server, page, raced>>
    BY DEF Begin
  <1>2. tx'[w] = t /\ \A v \in Workers \ {w} : tx'[v] = tx[v]
    BY <1>1 DEF StreamInv, TypeOK
  <1>3. DOMAIN t.wrote = {} /\ j # None
    BY StreamNamesAssumption DEF NoEvents, Jobs
  <1>4. TypeOK'
    BY <1>1, <1>2 DEF StreamInv, TypeOK, EventOf, KindOf, Jobs
  <1>5. \A v \in Workers : Holds(v)'
    BY <1>1, <1>2, <1>3 DEF StreamInv, Ledger, Holds
  <1>6. \A v \in Workers : CountsOn(v)'
    <2>1. \A v \in Workers \ {w} : CountsOn(v)'
      BY <1>1, <1>2 DEF StreamInv, Ledger, CountsOn, EventsOf, FileEvents
    <2>2. CountsOn(w)'
      BY <1>1, <1>2, <1>3 DEF CountsOn, KindOf
    <2> QED BY <2>1, <2>2
  <1>7. \A u, v \in Workers : u # v => HoldsAlone(u, v)'
    BY <1>1, <1>2, <1>3 DEF StreamInv, Ledger, HoldsAlone
  <1>8. FilesFirst' /\ (\A f \in Files : Counted(f)') /\ TerminalLast'
    BY <1>1 DEF StreamInv, Ledger, FilesFirst, Counted, TerminalLast, EventsOf, FileEvents
  <1>9. Serves'
    BY <1>1, ServesStays DEF StreamInv
  <1> QED BY <1>4, <1>5, <1>6, <1>7, <1>8, <1>9 DEF StreamInv, Ledger

(* claim_next_job passes over locked rows.                                 *)
LEMMA ClaimKeeps ==
  ASSUME StreamInv, NEW w \in Workers, Claim(w)
  PROVE  StreamInv'
PROOF
  <1> DEFINE todo(j) == IF j \in Files THEN <<"file_updated">> ELSE <<>>
  <1>1. PICK j \in Jobs : /\ jobStatus[j] = "queued" /\ ~Locked(j)
                          /\ Begin(w, j, "running", todo(j))
    BY DEF Claim
  <1>2. held[w] = None
    BY DEF Claim
  <1>3. \A v \in Workers : tx[v].job # j
    BY <1>1 DEF Locked
  <1>4. /\ todo(j) \in Seq({"file_updated", "bundle_terminal"})
        /\ \A i \in 1..Len(todo(j)) : todo(j)[i] = KindOf(j)
    <2>1. CASE j \in Files
      BY <2>1 DEF KindOf
    <2>2. CASE j \notin Files
      BY <2>2
    <2> QED BY <2>1, <2>2
  <1> HIDE DEF todo
  <1> QED BY <1>1, <1>2, <1>3, <1>4, BeginKeeps DEF JobStatuses

(* The worker that executes a job is the only one that writes it.          *)
LEMMA ExecutedAlone ==
  ASSUME StreamInv, NEW w \in Workers, NEW j \in Jobs, held[w] = j, Idle(w)
  PROVE  \A v \in Workers : tx[v].job # j
PROOF
  <1> SUFFICES ASSUME NEW v \in Workers, tx[v].job = j
               PROVE  FALSE
    OBVIOUS
  <1>1. j # None /\ Holds(v) /\ Holds(w)
    BY StreamNamesAssumption DEF StreamInv, Ledger, Jobs
  <1>2. jobStatus[j] = "running"
    BY <1>1 DEF Holds
  <1>3. held[v] = j
    BY <1>1, <1>2 DEF Holds
  <1>4. v # w
    BY <1>1 DEF Idle, NoTx
  <1> QED BY <1>1, <1>3, <1>4 DEF StreamInv, Ledger, HoldsAlone

(* The end of an execution announces the file once, or twice when the      *)
(* failure was retried.                                                    *)
LEMMA EndFileKeeps ==
  ASSUME StreamInv, NEW w \in Workers, EndFile(w)
  PROVE  StreamInv'
PROOF
  <1> DEFINE f == held[w]
  <1>1. f \in Files /\ f \in Jobs /\ Idle(w)
    BY DEF EndFile, Jobs
  <1>2. \A v \in Workers : tx[v].job # f
    BY <1>1, ExecutedAlone
  <1>3. PICK status \in JobStatuses \ {"running"}, todo \in {<<"file_updated">>, <<"file_updated", "file_updated">>} :
          Begin(w, f, status, todo)
    BY DEF EndFile, Retried, JobStatuses
  <1>4. /\ todo \in Seq({"file_updated", "bundle_terminal"})
        /\ \A i \in 1..Len(todo) : todo[i] = KindOf(f)
    <2>1. CASE todo = <<"file_updated">>
      BY <1>1, <2>1 DEF KindOf
    <2>2. CASE todo = <<"file_updated", "file_updated">>
      BY <1>1, <2>2 DEF KindOf
    <2> QED BY <1>3, <2>1, <2>2
  <1> HIDE DEF f
  <1>5. held[w] = f
    BY DEF f
  <1> QED BY <1>1, <1>2, <1>3, <1>4, <1>5, BeginKeeps

(* The end of a finalize announces the end of the bundle.                  *)
LEMMA EndFinalizeKeeps ==
  ASSUME StreamInv, NEW w \in Workers, EndFinalize(w)
  PROVE  StreamInv'
PROOF
  <1>1. held[w] = Finalize /\ Finalize \in Jobs /\ Idle(w)
    BY DEF EndFinalize, Jobs
  <1>2. \A v \in Workers : tx[v].job # Finalize
    BY <1>1, ExecutedAlone
  <1>3. PICK status \in JobStatuses \ {"running"} : Begin(w, Finalize, status, <<"bundle_terminal">>)
    BY DEF EndFinalize, Retried, JobStatuses
  <1>4. /\ <<"bundle_terminal">> \in Seq({"file_updated", "bundle_terminal"})
        /\ \A i \in 1..Len(<<"bundle_terminal">>) : <<"bundle_terminal">>[i] = KindOf(Finalize)
    BY StreamNamesAssumption DEF KindOf
  <1> QED BY <1>1, <1>2, <1>3, <1>4, BeginKeeps

(* The rest of the events a transaction has still to insert.               *)
LEMMA RestOf ==
  ASSUME NEW S, NEW s \in Seq(S), s # <<>>
  PROVE  /\ Len(s) \in Nat /\ Len(s) > 0 /\ Head(s) = s[1]
         /\ Tail(s) \in Seq(S) /\ Len(Tail(s)) = Len(s) - 1
         /\ \A i \in 1..(Len(s) - 1) : Tail(s)[i] = s[i + 1]
BY EmptySeq, HeadTailProperties

(* An open transaction has written finitely many events, all of its job.   *)
LEMMA WroteFinite ==
  ASSUME StreamInv, NEW w \in Workers, tx[w].job \in Jobs
  PROVE  /\ IsFiniteSet(DOMAIN tx[w].wrote) /\ Cardinality(DOMAIN tx[w].wrote) \in Nat
         /\ EventsOf(tx[w].job, tx[w].wrote) = DOMAIN tx[w].wrote
         /\ \A f \in Files \ {tx[w].job} : EventsOf(f, tx[w].wrote) = {}
PROOF
  <1>1. CountsOn(w) /\ lastNo \in Nat
    BY DEF StreamInv, Ledger, TypeOK
  <1>2. IsFiniteSet(1..lastNo)
    BY <1>1, FS_Interval
  <1>3. DOMAIN tx[w].wrote \in SUBSET (1..lastNo)
    BY <1>1 DEF CountsOn
  <1>4. IsFiniteSet(DOMAIN tx[w].wrote)
    BY <1>2, <1>3, FS_Subset
  <1>5. Cardinality(DOMAIN tx[w].wrote) \in Nat
    BY <1>4, FS_CardinalityType
  <1>6. \A n \in DOMAIN tx[w].wrote : tx[w].wrote[n].file = tx[w].job
    BY <1>1 DEF CountsOn, EventOf
  <1> QED BY <1>4, <1>5, <1>6 DEF EventsOf

(* An event is inserted: it has the highest number of all, and the next    *)
(* version of its file.                                                    *)
LEMMA EmitKeeps ==
  ASSUME StreamInv, NEW w \in Workers, Emit(w)
  PROVE  StreamInv'
PROOF
  <1> DEFINE t == tx[w]
             j == t.job
             wrote == t.wrote
             n == lastNo + 1
             event == [kind |-> Head(t.todo), file |-> j,
                       version |-> IF j \in Files
                                     THEN version[j] + 1 + Cardinality(EventsOf(j, wrote))
                                     ELSE 0]
             after == Over(Row(n, event), wrote)
             u == [t EXCEPT !.todo = Tail(t.todo), !.wrote = after]
  <1>1. /\ t.todo # <<>> /\ tx' = [tx EXCEPT ![w] = u] /\ lastNo' = n
        /\ UNCHANGED <<jobStatus, version, log, held, server, page, raced>>
    BY DEF Emit
  <1>2. /\ TypeOK /\ Holds(w) /\ CountsOn(w)
        /\ t \in [job : Jobs \cup {None}, status : JobStatuses,
                  todo : Seq({"file_updated", "bundle_terminal"}), wrote : {wrote}]
    BY DEF StreamInv, Ledger, TypeOK
  <1>3. j \in Jobs /\ j # None
    BY <1>1, <1>2, StreamNamesAssumption DEF Holds, NoTx, Jobs
  <1>4. /\ u.job = j /\ u.status = t.status /\ u.todo = Tail(t.todo) /\ u.wrote = after
        /\ tx'[w] = u /\ \A v \in Workers \ {w} : tx'[v] = tx[v]
        /\ u \in [job : Jobs \cup {None}, status : JobStatuses,
                  todo : Seq({"file_updated", "bundle_terminal"}), wrote : {after}]
    <2>1. Tail(t.todo) \in Seq({"file_updated", "bundle_terminal"})
      BY <1>1, <1>2, RestOf
    <2> QED BY <1>1, <1>2, <2>1 DEF TypeOK
  <1>5. /\ DOMAIN after = {n} \cup DOMAIN wrote /\ after[n] = event
        /\ n \notin DOMAIN wrote /\ n \in Nat
        /\ \A k \in DOMAIN wrote : after[k] = wrote[k]
    <2>1. DOMAIN Row(n, event) = {n} /\ Row(n, event)[n] = event
      BY RowEvents
    <2>2. n \notin DOMAIN wrote /\ n \in Nat
      BY <1>2 DEF CountsOn, TypeOK
    <2> HIDE DEF event, wrote
    <2>3. /\ DOMAIN after = DOMAIN Row(n, event) \cup DOMAIN wrote
          /\ \A k \in DOMAIN Row(n, event) : after[k] = Row(n, event)[k]
          /\ \A k \in DOMAIN wrote \ DOMAIN Row(n, event) : after[k] = wrote[k]
      BY OverEvents
    <2> QED BY <2>1, <2>2, <2>3
  <1>6. event \in EventOf(j) /\ event.version \in Nat
    <2>1. Head(t.todo) = KindOf(j)
      BY <1>1, <1>2, RestOf DEF CountsOn
    <2>2. j \in Files => version[j] \in Nat /\ Cardinality(EventsOf(j, wrote)) \in Nat
      BY <1>2, <1>3, WroteFinite DEF TypeOK
    <2> QED BY <2>1, <2>2 DEF EventOf
  <1>7. TypeOK'
    <2>1. DOMAIN log \subseteq 1..n
      BY <1>2 DEF TypeOK
    <2>2. DOMAIN tx' = Workers
      BY <1>1, <1>2 DEF TypeOK
    <2>3. \A v \in Workers :
            tx'[v] \in [job : Jobs \cup {None}, status : JobStatuses,
                        todo : Seq({"file_updated", "bundle_terminal"}), wrote : {tx'[v].wrote}]
      BY <1>2, <1>4, ZenonT(40) DEF TypeOK
    <2> QED BY <1>1, <1>2, <1>5, <2>1, <2>2, <2>3 DEF TypeOK, EventOf, KindOf
  <1> HIDE DEF event, after, u
  <1>8. \A v \in Workers : Holds(v)'
    BY <1>1, <1>3, <1>4 DEF StreamInv, Ledger, Holds
  <1>9. \A v \in Workers \ {w} : CountsOn(v)'
    <2>1. 1..lastNo \subseteq 1..n
      BY <1>2 DEF TypeOK
    <2> QED BY <1>1, <1>4, <2>1 DEF StreamInv, Ledger, CountsOn, EventsOf, FileEvents, KindOf
  <1>10. CountsOn(w)'
    <2>1. \A i \in 1..Len(u.todo) : u.todo[i] = KindOf(j)
      <3>1. /\ Len(t.todo) \in Nat /\ Len(u.todo) = Len(t.todo) - 1
            /\ \A i \in 1..(Len(t.todo) - 1) : u.todo[i] = t.todo[i + 1]
        BY <1>1, <1>2, <1>4, RestOf
      <3> QED BY <1>2, <3>1 DEF CountsOn
    <2>2. \A m \in DOMAIN log : m < n
      BY <1>2 DEF TypeOK
    <2>3. DOMAIN after \subseteq (1..n) \ DOMAIN log
      BY <1>2, <1>5, <2>2 DEF CountsOn, TypeOK
    <2>4. \A k \in DOMAIN after :
            /\ after[k] \in EventOf(j)
            /\ \A m \in IF j \in Files THEN EventsOf(j, log) ELSE FileEvents : m < k
      BY <1>2, <1>5, <1>6, <2>2 DEF CountsOn, EventsOf, FileEvents
    <2>5. ASSUME j \in Files
          PROVE  /\ \A k \in DOMAIN after :
                      after[k].version \in (version[j] + 1)..(version[j] + Cardinality(DOMAIN after))
                 /\ \E k \in DOMAIN after : after[k].version = version[j] + Cardinality(DOMAIN after)
                 /\ \A m, k \in DOMAIN after : m < k => after[m].version < after[k].version
      <3>1. /\ IsFiniteSet(DOMAIN wrote) /\ Cardinality(DOMAIN wrote) \in Nat
            /\ EventsOf(j, wrote) = DOMAIN wrote
        BY <1>3, WroteFinite
      <3>2. Cardinality(DOMAIN after) = Cardinality(DOMAIN wrote) + 1
        BY <1>5, <3>1, FS_AddElement
      <3>3. event.version = version[j] + Cardinality(DOMAIN after) /\ version[j] \in Nat
        BY <1>2, <2>5, <3>1, <3>2 DEF TypeOK, event
      <3>4. \A k \in DOMAIN wrote :
              /\ k < n /\ k \in Nat
              /\ wrote[k].version \in (version[j] + 1)..(version[j] + Cardinality(DOMAIN wrote))
        BY <1>2, <2>5 DEF CountsOn, TypeOK
      <3>5. \A m, k \in DOMAIN wrote : m < k => wrote[m].version < wrote[k].version
        BY <1>2, <2>5 DEF CountsOn
      <3> DEFINE count == Cardinality(DOMAIN wrote)
      <3>6. count \in Nat /\ Cardinality(DOMAIN after) = count + 1
        BY <3>1, <3>2
      <3> HIDE DEF count, n
      <3>7. \A k \in DOMAIN after : k = n \/ (k \in DOMAIN wrote /\ after[k] = wrote[k])
        BY <1>5
      <3>8. event.version = version[j] + (count + 1) /\ after[n] = event /\ n \in DOMAIN after
        BY <1>5, <3>3, <3>6
      <3>9. \A k \in DOMAIN wrote : wrote[k].version \in (version[j] + 1)..(version[j] + count)
        BY <3>4 DEF count
      <3>10. \A k \in DOMAIN after :
               after[k].version \in (version[j] + 1)..(version[j] + (count + 1))
        <4> SUFFICES ASSUME NEW k \in DOMAIN after
                     PROVE  after[k].version \in (version[j] + 1)..(version[j] + (count + 1))
          OBVIOUS
        <4>1. CASE k = n
          BY <4>1, <3>3, <3>6, <3>8
        <4>2. CASE k \in DOMAIN wrote /\ after[k] = wrote[k]
          BY <4>2, <3>3, <3>6, <3>9
        <4> QED BY <3>7, <4>1, <4>2
      <3>11. ASSUME NEW m \in DOMAIN after, NEW k \in DOMAIN after, m < k
             PROVE  after[m].version < after[k].version
        <4>1. m \in DOMAIN wrote /\ after[m] = wrote[m] /\ m < n
          BY <3>4, <3>7, <3>11, <1>5
        <4>2. CASE k = n
          BY <4>1, <4>2, <3>3, <3>6, <3>8, <3>9
        <4>3. CASE k \in DOMAIN wrote /\ after[k] = wrote[k]
          BY <4>1, <4>3, <3>5, <3>11
        <4> QED BY <3>7, <4>2, <4>3
      <3> QED BY <3>6, <3>8, <3>10, <3>11
    <2> QED BY <1>1, <1>4, <2>1, <2>3, <2>4, <2>5 DEF CountsOn, EventsOf, FileEvents, KindOf, EventOf
  <1>11. \A v, x \in Workers : v # x => HoldsAlone(v, x)'
    <2>1. \A v \in Workers : n \notin DOMAIN tx[v].wrote
      BY <1>2 DEF StreamInv, Ledger, CountsOn, TypeOK
    <2> QED BY <1>1, <1>4, <1>5, <2>1 DEF StreamInv, Ledger, HoldsAlone
  <1>12. FilesFirst' /\ (\A f \in Files : Counted(f)') /\ TerminalLast'
    BY <1>1 DEF StreamInv, Ledger, FilesFirst, Counted, TerminalLast, EventsOf, FileEvents
  <1>13. Serves'
    BY <1>1, ServesStays DEF StreamInv
  <1> QED BY <1>7, <1>8, <1>9, <1>10, <1>11, <1>12, <1>13 DEF StreamInv, Ledger

-----------------------------------------------------------------------------
(* The handler.                                                            *)

(* The greatest and the least of some event numbers.                       *)
LEMMA LeastNumber ==
  ASSUME NEW S \in SUBSET Nat, S # {}
  PROVE  Min(S) \in S /\ \A m \in S : Min(S) <= m
PROOF
  <1> DEFINE less == OpToRel(<, Nat)
  <1>1. PICK n \in S : \A m \in S : ~(<<m, n>> \in less)
    BY WFMin, NatLessThanWellFounded
  <1>2. \A m, k \in Nat : m < k => <<m, k>> \in less
    BY DEF OpToRel
  <1> HIDE DEF less
  <1>3. \A m \in S : n <= m
    <2> SUFFICES ASSUME NEW m \in S
                 PROVE  n <= m
      OBVIOUS
    <2>1. m \in Nat /\ n \in Nat /\ ~(m < n)
      BY <1>1, <1>2
    <2> QED BY <2>1
  <1> QED BY <1>3 DEF Min

(* The greatest of event numbers that have a bound.                        *)
LEMMA GreatestNumber ==
  ASSUME NEW S \in SUBSET Nat, S # {}, NEW bound \in Nat, \A m \in S : m <= bound
  PROVE  Max(S) \in S /\ \A m \in S : m <= Max(S)
PROOF
  <1> DEFINE above == {k \in Nat : \A m \in S : m <= k}
  <1>1. above \in SUBSET Nat /\ above # {}
    OBVIOUS
  <1>2. Min(above) \in above /\ \A k \in above : Min(above) <= k
    BY <1>1, LeastNumber
  <1> DEFINE top == Min(above)
  <1>3. top \in Nat /\ \A m \in S : m <= top
    BY <1>2
  <1>4. \A k \in Nat : (\A m \in S : m <= k) => top <= k
    BY <1>2
  <1> HIDE DEF top, above
  <1>5. top \in S
    <2> SUFFICES ASSUME top \notin S
                 PROVE  FALSE
      OBVIOUS
    <2>1. \A m \in S : m \in Nat /\ m < top
      BY <1>3
    <2>2. top - 1 \in Nat
      <3>1. PICK m \in S : TRUE
        OBVIOUS
      <3> QED BY <1>3, <2>1, <3>1
    <2>3. \A m \in S : m <= top - 1
      BY <1>3, <2>1
    <2> QED BY <1>3, <1>4, <2>2, <2>3
  <1> QED BY <1>3, <1>5 DEF Max

(* The snapshot is read.                                                   *)
LEMMA ReadFilesKeeps ==
  ASSUME StreamInv, ReadFiles
  PROVE  StreamInv'
PROOF
  <1>1. /\ server.pc = "off" /\ UNCHANGED database /\ UNCHANGED <<page, raced>>
        /\ server' = [server EXCEPT !.pc = "cursor", !.version = version]
        /\ UNCHANGED <<jobStatus, version, lastNo, log, held, tx>>
    BY DEF ReadFiles, database
  <1>2. TypeOK /\ Serves
    BY DEF StreamInv
  <1>3. /\ server'.pc = "cursor" /\ server'.version = version
        /\ server'.cursor = server.cursor /\ server'.toSend = server.toSend
    BY <1>1, <1>2 DEF TypeOK
  <1>4. TypeOK'
    BY <1>1, <1>2 DEF TypeOK
  <1>5. Ledger'
    BY <1>1, LedgerStays DEF StreamInv
  <1>6. NotAhead'
    BY <1>1, <1>2, <1>3 DEF Serves, NotAhead, TypeOK
  <1>7. ShownBelow'
    BY <1>1, <1>2, <1>3 DEF Serves, ShownBelow, EventsOf
  <1>8. Serves'
    BY <1>1, <1>2, <1>3, <1>6, <1>7 DEF Serves, Unseen, ClosedByEnd
  <1> QED BY <1>4, <1>5, <1>8 DEF StreamInv

(* The cursor is read.  No event of the log is above it, and if no commit  *)
(* slipped in between, the snapshot is what the log amounts to.            *)
LEMMA ReadCursorKeeps ==
  ASSUME StreamInv, ReadCursor
  PROVE  StreamInv'
PROOF
  <1>1. /\ server.pc = "cursor" /\ UNCHANGED database /\ raced' = raced
        /\ server' = [server EXCEPT !.pc = "stream", !.cursor = LastCommitted]
        /\ page' = [page EXCEPT !.version = server.version]
        /\ UNCHANGED <<jobStatus, version, lastNo, log, held, tx>>
    BY DEF ReadCursor, database
  <1>2. TypeOK /\ Serves
    BY DEF StreamInv
  <1>3. /\ LastCommitted \in {0} \cup DOMAIN log /\ LastCommitted \in Nat
        /\ \A n \in DOMAIN log : n <= LastCommitted
    <2>1. {0} \cup DOMAIN log \in SUBSET Nat /\ lastNo \in Nat
          /\ \A m \in {0} \cup DOMAIN log : m <= lastNo
      BY <1>2 DEF TypeOK
    <2> QED BY <2>1, GreatestNumber DEF LastCommitted
  <1>4. /\ server'.pc = "stream" /\ server'.version = server.version
        /\ server'.cursor = LastCommitted /\ server'.toSend = server.toSend
        /\ page'.version = server.version
    BY <1>1, <1>2 DEF TypeOK
  <1>5. TypeOK'
    BY <1>1, <1>2, <1>3 DEF TypeOK
  <1>6. Ledger'
    BY <1>1, LedgerStays DEF StreamInv
  <1>7. NotAhead'
    BY <1>1, <1>2, <1>4 DEF Serves, NotAhead
  <1>8. Unseen' = {} /\ \A n \in DOMAIN log' : n <= server'.cursor /\ ~(n > server'.cursor)
    BY <1>1, <1>2, <1>3, <1>4 DEF Unseen, TypeOK
  <1>9. ShownBelow'
    BY <1>8 DEF ShownBelow, EventsOf
  <1>10. ~raced => ShownAbove'
    <2> SUFFICES ASSUME ~raced, NEW f \in Files, NEW n \in EventsOf(f, log)
                 PROVE  log[n].version <= page'.version[f]
      BY <1>1 DEF ShownAbove, EventsOf
    <2>1. Counted(f) /\ server.version = version
      BY <1>1, <1>2 DEF StreamInv, Ledger, Serves
    <2> QED BY <1>4, <2>1 DEF Counted
  <1> QED BY <1>1, <1>3, <1>4, <1>5, <1>6, <1>7, <1>8, <1>9, <1>10
          DEF StreamInv, Serves, BatchIsWhole, ClosedByEnd

(* A poll fetches all that is above the cursor.                            *)
LEMMA PollKeeps ==
  ASSUME StreamInv, Poll
  PROVE  StreamInv'
PROOF
  <1>1. /\ server.pc = "stream" /\ UNCHANGED database /\ UNCHANGED <<page, raced>>
        /\ server' = [server EXCEPT !.toSend = Unseen]
        /\ UNCHANGED <<jobStatus, version, lastNo, log, held, tx>>
    BY DEF Poll, Batch, database
  <1>2. TypeOK /\ Serves
    BY DEF StreamInv
  <1>3. /\ server'.pc = "stream" /\ server'.version = server.version
        /\ server'.cursor = server.cursor /\ server'.toSend = Unseen /\ Unseen' = Unseen
    BY <1>1, <1>2 DEF TypeOK, Unseen
  <1>4. TypeOK'
    <2>1. Unseen \subseteq Nat
      BY <1>2 DEF Unseen, TypeOK
    <2> QED BY <1>1, <1>2, <2>1 DEF TypeOK
  <1>5. Ledger'
    BY <1>1, LedgerStays DEF StreamInv
  <1>6. NotAhead' /\ ShownBelow' /\ BatchIsWhole' /\ (ShownAbove' <=> ShownAbove)
    BY <1>1, <1>2, <1>3 DEF Serves, NotAhead, ShownBelow, ShownAbove, BatchIsWhole, EventsOf
  <1> QED BY <1>1, <1>2, <1>3, <1>4, <1>5, <1>6 DEF StreamInv, Serves, ClosedByEnd

(* What the next message is, and that none of the batch was overtaken.     *)
LEMMA NextIsLeast ==
  ASSUME StreamInv, server.toSend # {}
  PROVE  /\ NextToSend \in server.toSend /\ NextToSend \in DOMAIN log /\ NextToSend \in Nat
         /\ NextToSend > server.cursor
         /\ \A m \in server.toSend : NextToSend <= m
PROOF
  <1>1. /\ server.toSend \in SUBSET Nat /\ server.toSend \subseteq Unseen
    BY DEF StreamInv, TypeOK, Serves
  <1> QED BY <1>1, LeastNumber DEF NextToSend, Unseen

(* A message is sent: the page takes a newer state of one file, or the     *)
(* stream ends.                                                            *)
LEMMA SendKeeps ==
  ASSUME StreamInv, Send
  PROVE  StreamInv' /\ \A f \in Files : page'.version[f] >= page.version[f]
PROOF
  <1> DEFINE n == NextToSend
  <1>1. /\ server.pc = "stream" /\ server.toSend # {} /\ UNCHANGED database /\ raced' = raced
        /\ server' = [server EXCEPT !.cursor = n, !.toSend = server.toSend \ {n},
                        !.pc = IF log[n].kind = "bundle_terminal" THEN "closed" ELSE server.pc]
        /\ page' = Applied(page, log[n])
        /\ UNCHANGED <<jobStatus, version, lastNo, log, held, tx>>
    BY DEF Send, database
  <1>2. TypeOK /\ Serves /\ Ledger
    BY DEF StreamInv
  <1>3. /\ n \in server.toSend /\ n \in DOMAIN log /\ n \in Nat /\ n > server.cursor
        /\ \A m \in server.toSend : n <= m
    BY <1>1, NextIsLeast
  <1> HIDE DEF n
  <1>4. /\ server'.cursor = n /\ server'.toSend = server.toSend \ {n}
        /\ server'.version = server.version
        /\ server'.pc = IF log[n].kind = "bundle_terminal" THEN "closed" ELSE "stream"
    BY <1>1, <1>2 DEF TypeOK
  <1>5. /\ DOMAIN log \subseteq Nat /\ server.cursor \in Nat
        /\ \A f \in Files : page.version[f] \in Nat /\ version[f] \in Nat
        /\ \A f \in Files : \A m \in EventsOf(f, log) : log[m].version \in Nat
    BY <1>2 DEF TypeOK, EventsOf, EventOf
  <1> DEFINE shown(f) == IF n \in EventsOf(f, log) THEN log[n].version ELSE page.version[f]
  <1>6. page' \in [open : BOOLEAN, version : [Files -> Nat]] /\ \A f \in Files : page'.version[f] = shown(f)
    <2>1. PICK j \in Jobs : log[n] \in EventOf(j)
      BY <1>2, <1>3 DEF TypeOK
    <2>2. CASE j \in Files
      <3>1. page' = [page EXCEPT !.version[j] = log[n].version] /\ log[n].version \in Nat
        BY <1>1, <2>1, <2>2 DEF Applied, EventOf, KindOf
      <3>2. \A f \in Files : n \in EventsOf(f, log) <=> f = j
        BY <1>3, <2>1 DEF EventsOf, EventOf
      <3> QED BY <1>2, <2>2, <3>1, <3>2 DEF TypeOK
    <2>3. CASE j \notin Files
      <3>1. page' = [page EXCEPT !.open = FALSE]
        BY <1>1, <2>1, <2>3 DEF Applied, EventOf, KindOf
      <3>2. \A f \in Files : n \notin EventsOf(f, log)
        BY <2>1, <2>3 DEF EventsOf, EventOf
      <3> QED BY <1>2, <3>1, <3>2 DEF TypeOK
    <2> QED BY <2>2, <2>3
  <1>7. \A f \in Files : page'.version[f] >= page.version[f]
    <2> SUFFICES ASSUME NEW f \in Files, n \in EventsOf(f, log)
                 PROVE  log[n].version >= page.version[f]
      BY <1>5, <1>6
    <2> QED BY <1>2, <1>3 DEF Serves, ShownBelow
  <1>8. TypeOK'
    BY <1>1, <1>2, <1>3, <1>6 DEF TypeOK
  <1>9. Ledger'
    BY <1>1, <1>2, LedgerStays
  <1>10. NotAhead'
    <2>1. ASSUME NEW f \in Files
          PROVE  shown(f) <= version[f]
      <3>1. CASE n \in EventsOf(f, log)
        BY <1>2, <1>5, <3>1 DEF Ledger, Counted
      <3>2. CASE n \notin EventsOf(f, log)
        BY <1>2, <3>2 DEF Serves, NotAhead
      <3> QED BY <3>1, <3>2
    <2> QED BY <1>1, <1>2, <1>4, <1>6, <2>1 DEF Serves, NotAhead
  <1>11. ShownBelow'
    <2> SUFFICES ASSUME NEW f \in Files, NEW m \in EventsOf(f, log), m > n
                 PROVE  log[m].version >= shown(f)
      BY <1>1, <1>4, <1>6 DEF ShownBelow, EventsOf
    <2>1. m \in Nat /\ m > server.cursor /\ log[m].version \in Nat
      BY <1>3, <1>5 DEF EventsOf
    <2>2. CASE n \in EventsOf(f, log)
      <3>1. log[n].version < log[m].version /\ log[n].version \in Nat
        BY <1>2, <1>3, <1>5, <2>1, <2>2 DEF Ledger, Counted
      <3> QED BY <2>1, <2>2, <3>1
    <2>3. CASE n \notin EventsOf(f, log)
      BY <1>2, <2>1, <2>3 DEF Serves, ShownBelow
    <2> QED BY <2>2, <2>3
  <1>12. ~raced => ShownAbove'
    <2> SUFFICES ASSUME ~raced, NEW f \in Files, NEW m \in EventsOf(f, log), m <= n
                 PROVE  log[m].version <= page'.version[f]
      BY <1>1, <1>4 DEF ShownAbove, EventsOf
    <2>1. m \in Nat /\ m \in DOMAIN log /\ log[m].version \in Nat
          /\ page'.version[f] \in Nat /\ page.version[f] \in Nat
      BY <1>5, <1>6 DEF EventsOf
    <2>2. CASE m <= server.cursor
      <3>1. log[m].version <= page.version[f]
        BY <1>1, <1>2, <2>2 DEF Serves, ShownAbove
      <3> QED BY <1>7, <2>1, <3>1
    <2>3. CASE m > server.cursor
      <3>1. m \in server.toSend
        BY <1>1, <1>2, <1>3, <2>1, <2>3 DEF Serves, BatchIsWhole, Unseen
      <3>2. m = n
        BY <1>3, <2>1, <3>1
      <3> QED BY <1>6, <2>1, <3>2
    <2> QED BY <1>5, <2>1, <2>2, <2>3
  <1>13. Unseen' = {m \in Unseen : m > n} /\ server'.toSend \subseteq Unseen'
    <2>1. Unseen' = {m \in Unseen : m > n}
      BY <1>1, <1>3, <1>4, <1>5 DEF Unseen
    <2>2. \A m \in server.toSend \ {n} : m \in Unseen /\ m \in Nat /\ m > n
      BY <1>2, <1>3, <1>5 DEF Serves, Unseen
    <2> QED BY <1>4, <2>1, <2>2
  <1>14. ~raced => BatchIsWhole'
    <2> SUFFICES ASSUME ~raced, NEW m \in Unseen', NEW k \in server'.toSend, m <= k
                 PROVE  m \in server'.toSend
      BY DEF BatchIsWhole
    <2>1. m \in Unseen /\ m > n /\ k \in server.toSend /\ m # n
      BY <1>3, <1>4, <1>13
    <2> QED BY <1>1, <1>2, <1>4, <2>1 DEF Serves, BatchIsWhole
  <1>15. Serves'
    BY <1>1, <1>3, <1>4, <1>10, <1>11, <1>12, <1>13, <1>14 DEF Serves
  <1> QED BY <1>7, <1>8, <1>9, <1>15 DEF StreamInv

(* The socket breaks.                                                      *)
LEMMA DisconnectKeeps ==
  ASSUME StreamInv, Disconnect
  PROVE  StreamInv' /\ page'.version = page.version
PROOF
  <1>1. /\ server.pc = "stream" /\ UNCHANGED database /\ raced' = raced
        /\ server' = [server EXCEPT !.pc = "closed"] /\ page' = [page EXCEPT !.open = FALSE]
        /\ UNCHANGED <<jobStatus, version, lastNo, log, held, tx>>
    BY DEF Disconnect, database
  <1>2. TypeOK /\ Serves
    BY DEF StreamInv
  <1>3. /\ server'.pc = "closed" /\ server'.version = server.version
        /\ server'.cursor = server.cursor /\ server'.toSend = server.toSend
        /\ page'.version = page.version /\ Unseen' = Unseen
    BY <1>1, <1>2 DEF TypeOK, Unseen
  <1>4. TypeOK'
    BY <1>1, <1>2 DEF TypeOK
  <1>5. Ledger'
    BY <1>1, LedgerStays DEF StreamInv
  <1>6. NotAhead' /\ ShownBelow' /\ (ShownAbove' <=> ShownAbove)
    BY <1>1, <1>2, <1>3 DEF Serves, NotAhead, ShownBelow, ShownAbove, EventsOf
  <1> QED BY <1>1, <1>2, <1>3, <1>4, <1>5, <1>6 DEF StreamInv, Serves

-----------------------------------------------------------------------------
(* The commit.                                                             *)

(* A transaction writes a job that has not ended.                          *)
LEMMA WritesOpenJob ==
  ASSUME StreamInv, NEW w \in Workers, tx[w].job # None
  PROVE  /\ tx[w].job \in Jobs /\ tx[w].status \in JobStatuses
         /\ jobStatus[tx[w].job] \in {"queued", "running"}
         /\ tx[w].status = "running" => held[w] = None /\ jobStatus[tx[w].job] = "queued"
         /\ tx[w].job \in Files => jobStatus[Finalize] = "absent"
PROOF
  <1>1. Holds(w) /\ tx[w].job \in Jobs /\ tx[w].status \in JobStatuses
    BY DEF StreamInv, Ledger, TypeOK
  <1>2. jobStatus[tx[w].job] \in {"queued", "running"}
    BY <1>1 DEF Holds
  <1>3. tx[w].job \in Files => jobStatus[Finalize] = "absent"
    BY <1>2 DEF StreamInv, Ledger, FilesFirst, EndStatuses
  <1> QED BY <1>1, <1>2, <1>3 DEF Holds

(* What a commit does to the statuses: the job of the transaction gets the *)
(* one that was written, and the finalize job may appear after the files.  *)
CommittedStatus(w) ==
  /\ jobStatus' \in [Jobs -> JobStatuses \cup {"absent"}]
  /\ jobStatus'[tx[w].job] = tx[w].status
  /\ \A i \in Jobs \ {tx[w].job} :
       \/ jobStatus'[i] = jobStatus[i]
       \/ /\ i = Finalize /\ jobStatus[i] = "absent" /\ jobStatus'[i] = "queued"
          /\ \A f \in Files : jobStatus'[f] \in EndStatuses

(* The commit as maybe_enqueue_finalize_job leaves the statuses.           *)
LEMMA CommitStatus ==
  ASSUME StreamInv, NEW w \in Workers, Commit(w)
  PROVE  CommittedStatus(w)
PROOF
  <1> DEFINE j == tx[w].job
             status == tx[w].status
             js == [jobStatus EXCEPT ![j] = status]
  <1>1. /\ j # None
        /\ jobStatus' = IF FinalizeDue(js) THEN [js EXCEPT ![Finalize] = "queued"] ELSE js
    BY DEF Commit
  <1>2. /\ jobStatus \in [Jobs -> JobStatuses \cup {"absent"}] /\ j \in Jobs /\ status \in JobStatuses
        /\ status # "absent"
    BY <1>1, WritesOpenJob DEF StreamInv, TypeOK, JobStatuses
  <1>3. /\ js \in [Jobs -> JobStatuses \cup {"absent"}] /\ js[j] = status
        /\ \A i \in Jobs \ {j} : js[i] = jobStatus[i]
    BY <1>2
  <1> HIDE DEF js
  <1>4. CASE ~FinalizeDue(js)
    BY <1>1, <1>3, <1>4 DEF CommittedStatus
  <1>5. CASE FinalizeDue(js)
    <2>1. /\ js[Finalize] = "absent" /\ j # Finalize /\ Finalize \in Jobs
          /\ \A f \in Files : js[f] \in EndStatuses
      BY <1>2, <1>3, <1>5 DEF FinalizeDue, EndStatuses, Jobs
    <2>2. /\ jobStatus' \in [Jobs -> JobStatuses \cup {"absent"}] /\ jobStatus'[Finalize] = "queued"
          /\ \A i \in Jobs \ {Finalize} : jobStatus'[i] = js[i]
      BY <1>1, <1>3, <1>5, <2>1 DEF JobStatuses
    <2>3. \A f \in Files : f \in Jobs \ {Finalize} /\ jobStatus'[f] \in EndStatuses
      BY <2>1, <2>2, StreamNamesAssumption DEF Jobs
    <2>4. \A i \in Jobs \ {j} :
            jobStatus'[i] = jobStatus[i] \/
            (i = Finalize /\ jobStatus[i] = "absent" /\ jobStatus'[i] = "queued")
      BY <1>3, <2>1, <2>2
    <2>5. jobStatus'[j] = status
      BY <1>2, <1>3, <2>1, <2>2
    <2> QED BY <2>2, <2>3, <2>4, <2>5 DEF CommittedStatus
  <1> QED BY <1>4, <1>5

(* A job another worker holds or writes is not touched.                    *)
LEMMA OthersStay ==
  ASSUME StreamInv, NEW w \in Workers, Commit(w), NEW v \in Workers \ {w}
  PROVE  /\ held[v] # None => held[v] # tx[w].job /\ jobStatus'[held[v]] = jobStatus[held[v]]
         /\ tx[v].job # None =>
              tx[v].job # tx[w].job /\ jobStatus'[tx[v].job] = jobStatus[tx[v].job]
PROOF
  <1>1. CommittedStatus(w) /\ tx[w].job # None
    BY CommitStatus DEF Commit
  <1>2. Holds(v) /\ Holds(w) /\ HoldsAlone(v, w) /\ HoldsAlone(w, v) /\ held[v] \in Jobs \cup {None}
    BY DEF StreamInv, Ledger, TypeOK
  <1>3. held[v] # None => held[v] # tx[w].job
    BY <1>1, <1>2 DEF Holds, HoldsAlone
  <1>4. tx[v].job # None => tx[v].job # tx[w].job /\ tx[v].job \in Jobs
                            /\ jobStatus[tx[v].job] \in {"queued", "running"}
    BY <1>2, WritesOpenJob DEF HoldsAlone
  <1>5. held[v] # None => jobStatus[held[v]] = "running"
    BY <1>2 DEF Holds
  <1> QED BY <1>1, <1>2, <1>3, <1>4, <1>5 DEF CommittedStatus

(* Who holds and writes what, after a commit.                              *)
LEMMA CommitHolds ==
  ASSUME StreamInv, NEW w \in Workers, Commit(w)
  PROVE  /\ \A v \in Workers : Holds(v)'
         /\ \A u, v \in Workers : u # v => HoldsAlone(u, v)'
         /\ FilesFirst'
PROOF
  <1> DEFINE j == tx[w].job
             status == tx[w].status
  <1>1. /\ j # None /\ CommittedStatus(w)
        /\ held' = [held EXCEPT ![w] = IF status = "running" THEN j ELSE None]
        /\ tx' = [tx EXCEPT ![w] = NoTx]
    BY CommitStatus DEF Commit
  <1>2. /\ j \in Jobs /\ jobStatus[j] \in {"queued", "running"}
        /\ j \in Files => jobStatus[Finalize] = "absent"
    BY <1>1, WritesOpenJob
  <1>3. /\ held'[w] = (IF status = "running" THEN j ELSE None) /\ tx'[w] = NoTx
        /\ \A v \in Workers \ {w} : held'[v] = held[v] /\ tx'[v] = tx[v]
    BY <1>1 DEF StreamInv, TypeOK
  <1>4. NoTx.job = None /\ DOMAIN NoTx.wrote = {}
    BY DEF NoTx, NoEvents
  <1>5. \A v \in Workers \ {w} : Holds(v)'
    BY <1>3, OthersStay DEF StreamInv, Ledger, Holds
  <1>6. Holds(w)'
    BY <1>1, <1>3, <1>4 DEF Holds, CommittedStatus
  <1>7. \A u, v \in Workers : u # v => HoldsAlone(u, v)'
    BY <1>3, <1>4, OthersStay DEF StreamInv, Ledger, HoldsAlone
  <1>8. FilesFirst'
    <2>1. CASE jobStatus[Finalize] # "absent"
      <3>1. j \notin Files /\ \A f \in Files : f \in Jobs \ {j} /\ f # Finalize
        BY <1>2, <2>1, StreamNamesAssumption DEF Jobs
      <3>2. \A f \in Files : jobStatus'[f] = jobStatus[f]
        BY <1>1, <3>1 DEF CommittedStatus
      <3> QED BY <2>1, <3>2 DEF StreamInv, Ledger, FilesFirst
    <2>2. CASE jobStatus[Finalize] = "absent"
      <3>1. Finalize \in Jobs \ {j}
        BY <1>2, <2>2 DEF Jobs
      <3> QED BY <1>1, <2>2, <3>1 DEF CommittedStatus, FilesFirst
    <2> QED BY <2>1, <2>2
  <1> QED BY <1>5, <1>6, <1>7, <1>8

(* What a commit does to the log: a file has its events as before, and the *)
(* file of the transaction those that were written, all above them.        *)
CommittedEvents(w) ==
  LET j == tx[w].job
      wrote == tx[w].wrote
  IN /\ DOMAIN log' = DOMAIN log \cup DOMAIN wrote /\ DOMAIN log \cap DOMAIN wrote = {}
     /\ \A n \in DOMAIN log : log'[n] = log[n]
     /\ \A n \in DOMAIN wrote : log'[n] = wrote[n] /\ wrote[n] \in EventOf(j) /\ n \in 1..lastNo
     /\ \A i \in Jobs \ {j} : EventsOf(i, log') = EventsOf(i, log)
     /\ EventsOf(j, log') = EventsOf(j, log) \cup DOMAIN wrote
     /\ \A f \in Files \ {j} : version'[f] = version[f]
     /\ j \in Files => version'[j] = version[j] + Cardinality(DOMAIN wrote)
     /\ Cardinality(DOMAIN wrote) \in Nat /\ version' \in [Files -> Nat]

(* The written events become those of the log.                             *)
LEMMA CommitEvents ==
  ASSUME StreamInv, NEW w \in Workers, Commit(w)
  PROVE  CommittedEvents(w)
PROOF
  <1> DEFINE j == tx[w].job
             wrote == tx[w].wrote
  <1>1. /\ j # None /\ log' = Over(log, wrote)
        /\ version' = [f \in Files |-> version[f] + Cardinality(EventsOf(f, wrote))]
    BY DEF Commit
  <1>2. j \in Jobs /\ CountsOn(w) /\ TypeOK
    BY <1>1, WritesOpenJob DEF StreamInv, Ledger
  <1>3. DOMAIN log \cap DOMAIN wrote = {} /\ \A n \in DOMAIN wrote : wrote[n] \in EventOf(j) /\ n \in 1..lastNo
    BY <1>2 DEF CountsOn
  <1>4. /\ DOMAIN log' = DOMAIN log \cup DOMAIN wrote
        /\ \A n \in DOMAIN log : log'[n] = log[n]
        /\ \A n \in DOMAIN wrote : log'[n] = wrote[n]
    <2> HIDE DEF wrote
    <2>1. /\ DOMAIN Over(log, wrote) = DOMAIN log \cup DOMAIN wrote
          /\ \A n \in DOMAIN log : Over(log, wrote)[n] = log[n]
          /\ \A n \in DOMAIN wrote \ DOMAIN log : Over(log, wrote)[n] = wrote[n]
      BY OverEvents
    <2>2. \A n \in DOMAIN wrote : n \in DOMAIN wrote \ DOMAIN log
      BY <1>3
    <2> QED BY <1>1, <2>1, <2>2
  <1>5. \A n \in DOMAIN wrote : wrote[n].file = j
    BY <1>3 DEF EventOf
  <1>6. /\ \A i \in Jobs \ {j} : EventsOf(i, log') = EventsOf(i, log)
        /\ EventsOf(j, log') = EventsOf(j, log) \cup DOMAIN wrote
    BY <1>4, <1>5 DEF EventsOf
  <1>7. /\ Cardinality(DOMAIN wrote) \in Nat /\ EventsOf(j, wrote) = DOMAIN wrote
        /\ \A f \in Files \ {j} : EventsOf(f, wrote) = {}
    BY <1>2, WroteFinite DEF StreamInv
  <1>8. Cardinality({}) = 0
    BY FS_EmptySet
  <1>9. /\ \A f \in Files \ {j} : version'[f] = version[f]
        /\ j \in Files => version'[j] = version[j] + Cardinality(DOMAIN wrote)
        /\ version' \in [Files -> Nat]
    <2>1. \A f \in Files : version[f] \in Nat
      BY <1>2 DEF TypeOK
    <2>2. \A f \in Files \ {j} : version'[f] = version[f]
      BY <1>1, <1>7, <1>8, <2>1
    <2>3. j \in Files => version'[j] = version[j] + Cardinality(DOMAIN wrote)
      BY <1>1, <1>7
    <2>4. DOMAIN version' = Files /\ version' = [f \in Files |-> version'[f]]
      BY <1>1
    <2>5. \A f \in Files : version'[f] \in Nat
      BY <1>7, <2>1, <2>2, <2>3
    <2> QED BY <2>2, <2>3, <2>4, <2>5
  <1> QED BY <1>3, <1>4, <1>6, <1>7, <1>9 DEF CommittedEvents

(* The committed events still count up to the version of the file.         *)
LEMMA CommitCounted ==
  ASSUME StreamInv, NEW w \in Workers, Commit(w), NEW f \in Files
  PROVE  Counted(f)'
PROOF
  <1> DEFINE wrote == tx[w].wrote
             count == Cardinality(DOMAIN wrote)
  <1>1. CommittedEvents(w) /\ Counted(f) /\ CountsOn(w) /\ version[f] \in Nat
    BY CommitEvents DEF StreamInv, Ledger, TypeOK
  <1>2. CASE f # tx[w].job
    <2>1. EventsOf(f, log') = EventsOf(f, log) /\ version'[f] = version[f]
      BY <1>1, <1>2 DEF CommittedEvents, Jobs
    <2>2. \A n \in EventsOf(f, log) : log'[n] = log[n]
      BY <1>1 DEF CommittedEvents, EventsOf
    <2> QED BY <1>1, <2>1, <2>2 DEF Counted
  <1>3. CASE f = tx[w].job
    <2>1. /\ EventsOf(f, log') = EventsOf(f, log) \cup DOMAIN wrote
          /\ version'[f] = version[f] + count /\ count \in Nat
          /\ \A n \in EventsOf(f, log) : log'[n] = log[n] /\ n \in Nat
          /\ \A n \in DOMAIN wrote : log'[n] = wrote[n] /\ n \in Nat
      BY <1>1, <1>3 DEF CommittedEvents, EventsOf, StreamInv, TypeOK
    <2>2. /\ \A n \in DOMAIN wrote : wrote[n].version \in (version[f] + 1)..(version[f] + count)
          /\ DOMAIN wrote # {} => \E n \in DOMAIN wrote : wrote[n].version = version[f] + count
          /\ \A m, n \in DOMAIN wrote : m < n => wrote[m].version < wrote[n].version
          /\ \A n \in DOMAIN wrote : \A m \in EventsOf(f, log) : m < n
      BY <1>1, <1>3 DEF CountsOn
    <2>3. DOMAIN wrote = {} => count = 0
      BY FS_EmptySet
    <2>4. /\ \A n \in EventsOf(f, log) : log[n].version \in 1..version[f]
          /\ version[f] # 0 => \E n \in EventsOf(f, log) : log[n].version = version[f]
          /\ \A m, n \in EventsOf(f, log) : m < n => log[m].version < log[n].version
      BY <1>1 DEF Counted
    <2> HIDE DEF wrote, count
    <2>5. \A n \in EventsOf(f, log') : log'[n].version \in 1..version'[f]
      BY <1>1, <2>1, <2>2, <2>4
    <2>6. version'[f] # 0 => \E n \in EventsOf(f, log') : log'[n].version = version'[f]
      <3>1. CASE DOMAIN wrote = {}
        BY <1>1, <2>1, <2>3, <2>4, <3>1
      <3>2. CASE DOMAIN wrote # {}
        BY <2>1, <2>2, <3>2
      <3> QED BY <3>1, <3>2
    <2>7. ASSUME NEW m \in EventsOf(f, log'), NEW n \in EventsOf(f, log'), m < n
          PROVE  log'[m].version < log'[n].version
      <3>1. CASE m \in EventsOf(f, log) /\ n \in EventsOf(f, log)
        BY <2>1, <2>4, <2>7, <3>1
      <3>2. CASE m \in EventsOf(f, log) /\ n \in DOMAIN wrote
        BY <1>1, <2>1, <2>2, <2>4, <3>2
      <3>3. CASE m \in DOMAIN wrote /\ n \in EventsOf(f, log)
        BY <2>1, <2>2, <2>7, <3>3
      <3>4. CASE m \in DOMAIN wrote /\ n \in DOMAIN wrote
        BY <2>1, <2>2, <2>7, <3>4
      <3> QED BY <2>1, <3>1, <3>2, <3>3, <3>4
    <2> QED BY <2>5, <2>6, <2>7 DEF Counted
  <1> QED BY <1>2, <1>3

(* Once the finalize job is there, no commit adds an event of a file.      *)
LEMMA FileEventsEnd ==
  ASSUME StreamInv, NEW w \in Workers, Commit(w), jobStatus[Finalize] # "absent"
  PROVE  FileEvents' = FileEvents /\ tx[w].job = Finalize
PROOF
  <1>1. CommittedEvents(w) /\ tx[w].job \in Jobs \ Files
    BY CommitEvents, WritesOpenJob DEF Commit
  <1>2. \A f \in Files : EventsOf(f, log') = EventsOf(f, log)
    BY <1>1 DEF CommittedEvents, Jobs
  <1>3. FileEvents' = UNION {EventsOf(f, log') : f \in Files}
    BY DEF FileEvents, EventsOf
  <1>4. FileEvents' = FileEvents
    BY <1>2, <1>3 DEF FileEvents
  <1> QED BY <1>1, <1>4 DEF Jobs

(* bundle_terminal stays above the events of all files.                    *)
LEMMA CommitTerminalLast ==
  ASSUME StreamInv, NEW w \in Workers, Commit(w)
  PROVE  TerminalLast'
PROOF
  <1> SUFFICES ASSUME NEW n \in EventsOf(Finalize, log')
               PROVE  jobStatus'[Finalize] # "absent" /\ \A m \in FileEvents' : m < n
    BY DEF TerminalLast, EventsOf
  <1>1. /\ CommittedEvents(w) /\ CommittedStatus(w) /\ CountsOn(w) /\ TerminalLast
        /\ Finalize \in Jobs /\ tx[w].job # None
    BY CommitEvents, CommitStatus DEF StreamInv, Ledger, Jobs, Commit
  <1>2. jobStatus[Finalize] # "absent"
    <2>1. CASE n \in EventsOf(Finalize, log)
      BY <1>1, <2>1 DEF TerminalLast
    <2>2. CASE n \notin EventsOf(Finalize, log)
      <3>1. tx[w].job = Finalize
        BY <1>1, <2>2 DEF CommittedEvents
      <3> QED BY <1>1, <3>1, WritesOpenJob
    <2> QED BY <2>1, <2>2
  <1>3. FileEvents' = FileEvents /\ tx[w].job = Finalize
    BY <1>2, FileEventsEnd
  <1>4. jobStatus'[Finalize] # "absent"
    BY <1>1, <1>3, WritesOpenJob DEF CommittedStatus, JobStatuses
  <1>5. \A m \in FileEvents : m < n
    <2>1. CASE n \in EventsOf(Finalize, log)
      BY <1>1, <2>1 DEF TerminalLast
    <2>2. CASE n \in DOMAIN tx[w].wrote
      BY <1>1, <1>3, <2>2, StreamNamesAssumption DEF CountsOn
    <2> QED BY <1>1, <1>3, <2>1, <2>2 DEF CommittedEvents
  <1> QED BY <1>3, <1>4, <1>5

(* The open transactions of others go on counting from there.              *)
LEMMA CommitCountsOn ==
  ASSUME StreamInv, NEW w \in Workers, Commit(w), NEW v \in Workers
  PROVE  CountsOn(v)'
PROOF
  <1>1. /\ CommittedEvents(w) /\ tx' = [tx EXCEPT ![w] = NoTx] /\ lastNo' = lastNo
        /\ tx[w].job # None /\ TypeOK /\ DOMAIN tx = Workers
    BY CommitEvents DEF Commit, StreamInv, TypeOK
  <1>2. ASSUME tx'[v] = NoTx
        PROVE  CountsOn(v)'
    <2>1. /\ tx'[v].todo = <<>> /\ DOMAIN tx'[v].wrote = {} /\ Len(<<>>) = 0
      BY <1>2 DEF NoTx, NoEvents
    <2> QED BY <2>1 DEF CountsOn
  <1>3. CASE v = w
    BY <1>1, <1>2, <1>3
  <1>4. CASE v # w
    <2> DEFINE i == tx[v].job
               wrote == tx[v].wrote
    <2>1. tx'[v] = tx[v] /\ CountsOn(v) /\ Holds(v) /\ HoldsAlone(v, w)
      BY <1>1, <1>4 DEF StreamInv, Ledger
    <2>2. CASE i = None
      BY <1>2, <2>1, <2>2 DEF Holds
    <2>3. CASE i # None
      <3>1. i \in Jobs /\ i # tx[w].job /\ jobStatus[i] \in {"queued", "running"}
        BY <2>1, <2>3, WritesOpenJob DEF HoldsAlone
      <3>2. DOMAIN wrote \subseteq (1..lastNo) \ DOMAIN log'
        BY <1>1, <2>1 DEF CountsOn, HoldsAlone, CommittedEvents
      <3>3. EventsOf(i, log') = EventsOf(i, log)
        BY <1>1, <3>1 DEF CommittedEvents
      <3>4. i \in Files => version'[i] = version[i]
        BY <1>1, <3>1 DEF CommittedEvents
      <3>5. i \notin Files => FileEvents' = FileEvents
        BY <3>1, FileEventsEnd DEF Jobs
      <3>6. (EventsOf(i, log))' = EventsOf(i, log')
        BY <2>1 DEF EventsOf
      <3> QED BY <1>1, <2>1, <3>2, <3>3, <3>4, <3>5 DEF CountsOn, KindOf, EventOf, EventsOf
    <2> QED BY <2>2, <2>3
  <1> QED BY <1>3, <1>4

(* A commit keeps the tables within their domains.                         *)
LEMMA CommitTypes ==
  ASSUME StreamInv, NEW w \in Workers, Commit(w)
  PROVE  TypeOK'
PROOF
  <1>1. /\ TypeOK /\ CommittedEvents(w) /\ CommittedStatus(w) /\ tx[w].job \in Jobs
        /\ held' = [held EXCEPT ![w] = IF tx[w].status = "running" THEN tx[w].job ELSE None]
        /\ tx' = [tx EXCEPT ![w] = NoTx]
        /\ raced' = (raced \/ Bypasses(tx[w].wrote))
        /\ UNCHANGED <<lastNo, server, page>>
    BY CommitEvents, CommitStatus, WritesOpenJob DEF StreamInv, Commit
  <1>2. \A n \in DOMAIN log' : n \in 1..lastNo /\ \E j \in Jobs : log'[n] \in EventOf(j)
    BY <1>1 DEF CommittedEvents, TypeOK
  <1>3. /\ DOMAIN tx' = Workers /\ tx'[w] = NoTx
        /\ \A v \in Workers \ {w} : tx'[v] = tx[v]
    BY <1>1 DEF TypeOK
  <1>4. NoTx \in [job : Jobs \cup {None}, status : JobStatuses,
                  todo : Seq({"file_updated", "bundle_terminal"}), wrote : {NoTx.wrote}]
    BY DEF NoTx, JobStatuses
  <1>5. \A v \in Workers :
          tx'[v] \in [job : Jobs \cup {None}, status : JobStatuses,
                      todo : Seq({"file_updated", "bundle_terminal"}), wrote : {tx'[v].wrote}]
    BY <1>1, <1>3, <1>4 DEF TypeOK
  <1>6. held' \in [Workers -> Jobs \cup {None}] /\ raced' \in BOOLEAN
    BY <1>1 DEF TypeOK, Bypasses
  <1>7. version' \in [Files -> Nat] /\ jobStatus' \in [Jobs -> JobStatuses \cup {"absent"}]
    BY <1>1 DEF CommittedEvents, CommittedStatus
  <1> QED BY <1>1, <1>2, <1>3, <1>5, <1>6, <1>7 DEF TypeOK, EventOf, KindOf

(* What a commit adds is newer than what the page shows; and unless it     *)
(* bypasses the handler, it is above the cursor and the open batch.        *)
LEMMA CommitServes ==
  ASSUME StreamInv, NEW w \in Workers, Commit(w)
  PROVE  Serves'
PROOF
  <1> DEFINE j == tx[w].job
             wrote == tx[w].wrote
  <1>1. /\ TypeOK /\ Serves /\ Ledger /\ CommittedEvents(w) /\ CountsOn(w) /\ j # None /\ j \in Jobs
        /\ raced' = (raced \/ Bypasses(wrote)) /\ UNCHANGED <<lastNo, server, page>>
    BY CommitEvents, WritesOpenJob DEF StreamInv, Commit, Ledger
  <1>2. /\ server.cursor \in Nat /\ server.toSend \subseteq Nat /\ DOMAIN log \subseteq Nat
        /\ DOMAIN log' \subseteq Nat
        /\ \A f \in Files : page.version[f] \in Nat /\ version[f] \in Nat /\ version'[f] \in Nat
                            /\ server.version[f] \in Nat
    BY <1>1 DEF TypeOK, CommittedEvents
  <1>3. \A f \in Files : version'[f] >= version[f]
    BY <1>1, <1>2 DEF CommittedEvents
  <1>4. /\ server.cursor \in {0} \cup DOMAIN log' /\ server.toSend \subseteq Unseen'
    BY <1>1 DEF Serves, Unseen, CommittedEvents
  <1>5. NotAhead'
    <2> SUFFICES ASSUME NEW f \in Files
                 PROVE  page.version[f] <= version'[f] /\ server.version[f] <= version'[f]
      BY <1>1 DEF NotAhead
    <2>1. page.version[f] <= version[f] /\ server.version[f] <= version[f]
      BY <1>1 DEF Serves, NotAhead
    <2> QED BY <1>2, <1>3, <2>1
  (* The events of a file after the commit: an old one, or one written.    *)
  <1>6. ASSUME NEW f \in Files, NEW n \in EventsOf(f, log')
        PROVE  \/ n \in EventsOf(f, log) /\ log'[n] = log[n]
               \/ f = j /\ n \in DOMAIN wrote /\ log'[n].version > version[f] /\ log'[n].version \in Nat
    <2>1. n \in EventsOf(f, log) \/ (f = j /\ n \in DOMAIN wrote)
      BY <1>1, <1>6 DEF CommittedEvents, Jobs
    <2>2. ASSUME n \in EventsOf(f, log)
          PROVE  log'[n] = log[n]
      BY <1>1, <2>2 DEF CommittedEvents, EventsOf
    <2>3. ASSUME f = j, n \in DOMAIN wrote
          PROVE  log'[n].version > version[f] /\ log'[n].version \in Nat
      <3>1. log'[n] = wrote[n] /\ Cardinality(DOMAIN wrote) \in Nat
        BY <1>1, <2>3 DEF CommittedEvents
      <3>2. wrote[n].version \in (version[f] + 1)..(version[f] + Cardinality(DOMAIN wrote))
        BY <1>1, <2>3 DEF CountsOn
      <3> QED BY <1>2, <3>1, <3>2
    <2> QED BY <2>1, <2>2, <2>3
  <1>7. ShownBelow'
    <2> SUFFICES ASSUME NEW f \in Files, NEW n \in EventsOf(f, log'), n > server.cursor
                 PROVE  log'[n].version >= page.version[f]
      BY <1>1 DEF ShownBelow, EventsOf
    <2>1. CASE n \in EventsOf(f, log) /\ log'[n] = log[n]
      BY <1>1, <2>1 DEF Serves, ShownBelow
    <2>2. CASE log'[n].version > version[f] /\ log'[n].version \in Nat
      <3>1. page.version[f] <= version[f]
        BY <1>1 DEF Serves, NotAhead
      <3> QED BY <1>2, <2>2, <3>1
    <2> QED BY <1>6, <2>1, <2>2
  <1>8. server.pc = "cursor" /\ ~raced' => server.version = version'
    <2> SUFFICES ASSUME server.pc = "cursor", ~raced'
                 PROVE  server.version = version'
      OBVIOUS
    <2>1. DOMAIN wrote = {} /\ server.version = version
      BY <1>1 DEF Bypasses, Serves
    <2>2. Cardinality({}) = 0
      BY FS_EmptySet
    <2>3. \A f \in Files : version'[f] = version[f]
      BY <1>1, <1>2, <2>1, <2>2 DEF CommittedEvents
    <2>4. version \in [Files -> Nat] /\ version' \in [Files -> Nat]
      BY <1>1 DEF TypeOK, CommittedEvents
    <2> QED BY <2>1, <2>3, <2>4
  (* Unless it bypasses the handler, every new event is above the cursor   *)
  (* and above the batch, whose numbers are all taken.                     *)
  <1>9. ASSUME server.pc = "stream", ~raced', NEW n \in DOMAIN wrote
        PROVE  n > server.cursor /\ \A m \in server.toSend : ~(n <= m)
    <2>1. \A m \in {server.cursor} \cup server.toSend : ~(n < m)
      BY <1>1, <1>9 DEF Bypasses
    <2>2. n \in Nat /\ n # 0 /\ n \notin DOMAIN log
      BY <1>1, <1>2 DEF CommittedEvents, TypeOK
    <2>3. n # server.cursor /\ n \notin server.toSend
      BY <1>1, <2>2 DEF Serves, Unseen
    <2> QED BY <1>2, <2>1, <2>2, <2>3
  <1>10. server.pc = "stream" /\ ~raced' => ShownAbove'
    <2> SUFFICES ASSUME server.pc = "stream", ~raced', NEW f \in Files,
                        NEW n \in EventsOf(f, log'), n <= server.cursor
                 PROVE  log'[n].version <= page.version[f]
      BY <1>1 DEF ShownAbove, EventsOf
    <2>1. n \in Nat /\ ~raced
      BY <1>1, <1>2 DEF EventsOf
    <2>2. n \notin DOMAIN wrote
      BY <1>2, <1>9, <2>1
    <2>3. n \in EventsOf(f, log) /\ log'[n] = log[n]
      BY <1>6, <2>2
    <2> QED BY <1>1, <2>1, <2>3 DEF Serves, ShownAbove
  <1>11. server.pc = "stream" /\ ~raced' => BatchIsWhole'
    <2> SUFFICES ASSUME server.pc = "stream", ~raced', NEW n \in Unseen',
                        NEW m \in server.toSend, n <= m
                 PROVE  n \in server.toSend
      BY <1>1 DEF BatchIsWhole
    <2>1. n \in DOMAIN log' /\ n > server.cursor /\ ~raced
      BY <1>1 DEF Unseen
    <2>2. n \in DOMAIN log
      BY <1>1, <1>9, <2>1 DEF CommittedEvents
    <2> QED BY <1>1, <2>1, <2>2 DEF Serves, BatchIsWhole, Unseen
  <1>12. ClosedByEnd' /\ ~raced' => ShownAbove'
    <2> SUFFICES ASSUME ClosedByEnd', ~raced', NEW f \in Files,
                        NEW n \in EventsOf(f, log'), n <= server.cursor
                 PROVE  log'[n].version <= page.version[f]
      BY <1>1 DEF ShownAbove, EventsOf
    <2>1. server.cursor \in DOMAIN log /\ log'[server.cursor] = log[server.cursor] /\ ~raced
      <3>1. server.cursor \in DOMAIN log' /\ server.cursor # 0
        BY <1>1, <1>2 DEF ClosedByEnd, CommittedEvents, TypeOK
      <3> QED BY <1>1, <3>1 DEF Serves, CommittedEvents
    <2>2. ClosedByEnd
      BY <1>1, <2>1 DEF ClosedByEnd
    <2>3. server.cursor \in EventsOf(Finalize, log)
      <3>1. PICK i \in Jobs : log[server.cursor] \in EventOf(i)
        BY <1>1, <2>1 DEF TypeOK
      <3> QED BY <2>1, <2>2, <3>1 DEF ClosedByEnd, EventOf, KindOf, EventsOf, Jobs
    <2>4. jobStatus[Finalize] # "absent"
      BY <1>1, <2>3 DEF Ledger, TerminalLast
    <2>5. j \notin Files
      BY <1>1, <2>4, WritesOpenJob
    <2>6. n \in EventsOf(f, log) /\ log'[n] = log[n]
      BY <1>6, <2>5
    <2> QED BY <1>1, <2>1, <2>2, <2>6 DEF Serves, ShownAbove
  <1>13. server.pc \in {"off", "cursor"} => page.version = [f \in Files |-> 0] /\ server.toSend = {}
    BY <1>1 DEF Serves
  <1> HIDE DEF j, wrote
  <1> QED BY <1>1, <1>4, <1>5, <1>7, <1>8, <1>10, <1>11, <1>12, <1>13 DEF Serves

(* The commit, for all parts of the invariant.                             *)
LEMMA CommitKeeps ==
  ASSUME StreamInv, NEW w \in Workers, Commit(w)
  PROVE  StreamInv'
BY CommitTypes, CommitHolds, CommitCounted, CommitTerminalLast, CommitCountsOn, CommitServes
   DEF StreamInv, Ledger

-----------------------------------------------------------------------------
(* The theorems.                                                           *)

(* Before the first claim there is no event and the page knows no file.    *)
LEMMA InitStream == Init => StreamInv
PROOF
  <1> SUFFICES ASSUME Init
               PROVE  StreamInv
    OBVIOUS
  <1>1. DOMAIN log = {} /\ DOMAIN NoTx.wrote = {} /\ NoTx.job = None /\ NoTx.todo = <<>>
        /\ \A w \in Workers : tx[w] = NoTx
    BY DEF Init, NoEvents, NoTx
  <1>2. TypeOK
    <2>1. NoTx \in [job : Jobs \cup {None}, status : JobStatuses,
                    todo : Seq({"file_updated", "bundle_terminal"}), wrote : {NoTx.wrote}]
      BY DEF NoTx, JobStatuses
    <2> QED BY <1>1, <2>1 DEF Init, TypeOK, JobStatuses
  <1>3. Finalize \in Jobs /\ Finalize \notin Files
    BY StreamNamesAssumption DEF Jobs
  <1>4. Ledger
    <2>1. \A w \in Workers : Holds(w) /\ CountsOn(w)
      BY <1>1 DEF Init, Holds, CountsOn
    <2>2. \A v, w \in Workers : HoldsAlone(v, w)
      BY <1>1 DEF Init, HoldsAlone
    <2>3. FilesFirst
      BY <1>3 DEF Init, FilesFirst
    <2>4. TerminalLast /\ \A f \in Files : Counted(f)
      BY <1>1 DEF Init, TerminalLast, Counted, EventsOf
    <2> QED BY <2>1, <2>2, <2>3, <2>4 DEF Ledger
  <1>5. Serves
    BY <1>1 DEF Init, Serves, NotAhead, ShownBelow, ClosedByEnd, EventsOf, Unseen
  <1> QED BY <1>2, <1>4, <1>5 DEF StreamInv

(* Every step of workers, handler and page.                                *)
LEMMA StepStream ==
  ASSUME StreamInv, [Next]_vars
  PROVE  StreamInv'
PROOF
  <1>1. ASSUME NEW w \in Workers, Work(w)
        PROVE  StreamInv'
    BY <1>1, ClaimKeeps, EndFileKeeps, EndFinalizeKeeps, EmitKeeps, CommitKeeps DEF Work
  <1>2. ASSUME Serve
        PROVE  StreamInv'
    BY <1>2, ReadFilesKeeps, ReadCursorKeeps, PollKeeps, SendKeeps DEF Serve
  <1>3. ASSUME UNCHANGED vars
        PROVE  StreamInv'
    <2>1. Ledger'
      BY <1>3, LedgerStays DEF StreamInv, vars, database
    <2>2. Serves'
      BY <1>3, ServesStays DEF StreamInv, vars
    <2>3. TypeOK'
      BY <1>3 DEF StreamInv, TypeOK, vars
    <2> QED BY <2>1, <2>2, <2>3 DEF StreamInv
  <1> QED BY <1>1, <1>2, <1>3, DisconnectKeeps DEF Next

(* The inductive invariant of log, handler and page.                       *)
THEOREM StreamInvariance == Spec => []StreamInv
BY InitStream, StepStream, PTL DEF Spec

(* However snapshot, cursor and polls of the WebSocket fall among the      *)
(* commits, the page never goes back to an older state of a file.          *)
THEOREM PageMovesOn == Spec => PageNeverRegresses
PROOF
  <1>1. ASSUME StreamInv, [Next]_vars
        PROVE  [\A f \in Files : page'.version[f] >= page.version[f]]_vars
    <2>1. /\ \A f \in Files : page.version[f] \in Nat /\ server.version[f] \in Nat
          /\ page \in [open : BOOLEAN, version : [Files -> Nat]] /\ Serves
      BY <1>1 DEF StreamInv, TypeOK
    <2>2. ASSUME page' = page
          PROVE  \A f \in Files : page'.version[f] >= page.version[f]
      BY <2>1, <2>2
    <2>3. ASSUME NEW w \in Workers, Work(w)
          PROVE  page' = page
      BY <2>3 DEF Work, Claim, EndFile, EndFinalize, Emit, Commit, Begin
    <2>4. ASSUME ReadFiles \/ Poll
          PROVE  page' = page
      BY <2>4 DEF ReadFiles, Poll
    <2>5. ASSUME ReadCursor
          PROVE  \A f \in Files : page'.version[f] >= page.version[f]
      <3>1. page'.version = server.version /\ page.version = [f \in Files |-> 0]
        BY <2>1, <2>5 DEF ReadCursor, Serves
      <3> QED BY <2>1, <3>1
    <2>6. ASSUME Send
          PROVE  \A f \in Files : page'.version[f] >= page.version[f]
      BY <1>1, <2>6, SendKeeps
    <2>7. ASSUME Disconnect
          PROVE  \A f \in Files : page'.version[f] >= page.version[f]
      BY <1>1, <2>1, <2>7, DisconnectKeeps
    <2> QED BY <1>1, <2>2, <2>3, <2>4, <2>5, <2>6, <2>7 DEF Next, Serve
  <1> QED BY <1>1, StreamInvariance, PTL DEF Spec, PageNeverRegresses

(* A connected page that was sent everything, and past which no commit     *)
(* slipped, shows every file as the queue has it.                          *)
THEOREM CaughtUpIsCurrent == Spec => []CaughtUpPageIsCurrent
PROOF
  <1>1. ASSUME StreamInv
        PROVE  CaughtUpPageIsCurrent
    <2> SUFFICES ASSUME server.pc = "stream", Unseen = {}, ~raced, NEW f \in Files
                 PROVE  page.version[f] = version[f]
      BY <1>1 DEF CaughtUpPageIsCurrent, StreamInv, TypeOK
    <2>1. /\ ShownAbove /\ NotAhead /\ Counted(f)
          /\ page.version[f] \in Nat /\ version[f] \in Nat
          /\ DOMAIN log \subseteq Nat /\ server.cursor \in Nat
      BY <1>1 DEF StreamInv, Serves, Ledger, TypeOK
    <2>2. \A n \in EventsOf(f, log) : n <= server.cursor
      BY <2>1 DEF EventsOf, Unseen
    <2>3. version[f] # 0 => version[f] <= page.version[f]
      BY <2>1, <2>2 DEF Counted, ShownAbove
    <2> QED BY <2>1, <2>3 DEF NotAhead
  <1> QED BY <1>1, StreamInvariance, PTL

(* When bundle_terminal closed the stream, the page shows the last state   *)
(* of every file: no event of a file is above the terminal event.          *)
THEOREM ClosedIsComplete == Spec => []ClosedPageIsComplete
PROOF
  <1>1. ASSUME StreamInv
        PROVE  ClosedPageIsComplete
    <2> SUFFICES ASSUME ClosedByEnd, ~raced, NEW f \in Files
                 PROVE  page.version[f] = version[f]
      BY <1>1 DEF ClosedPageIsComplete, ClosedByEnd, StreamInv, TypeOK
    <2>1. /\ ShownAbove /\ NotAhead /\ Counted(f) /\ TerminalLast
          /\ page.version[f] \in Nat /\ version[f] \in Nat
          /\ DOMAIN log \subseteq Nat /\ server.cursor \in Nat
      BY <1>1 DEF StreamInv, Serves, Ledger, TypeOK
    <2>2. server.cursor \in EventsOf(Finalize, log)
      <3>1. PICK i \in Jobs : log[server.cursor] \in EventOf(i)
        BY <1>1 DEF ClosedByEnd, StreamInv, TypeOK
      <3> QED BY <3>1 DEF ClosedByEnd, EventOf, KindOf, EventsOf, Jobs
    <2>3. \A n \in EventsOf(f, log) : n \in Nat /\ n < server.cursor
      BY <2>1, <2>2 DEF TerminalLast, FileEvents, EventsOf
    <2>4. version[f] # 0 => version[f] <= page.version[f]
      BY <2>1, <2>3 DEF Counted, ShownAbove
    <2> QED BY <2>1, <2>4 DEF NotAhead
  <1> QED BY <1>1, StreamInvariance, PTL
=============================================================================
