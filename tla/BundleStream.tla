---------------------------- MODULE BundleStream ----------------------------
(***************************************************************************)
(* How the progress of one bundle reaches the upload page.  Worker         *)
(* transactions append ingest_events whose sequence_no is drawn when the   *)
(* row is inserted but seen only when the transaction commits;             *)
(* bundle_events_ws reads the file rows and then the last sequence_no, in  *)
(* separate statements; stream_bundle_events polls for what is newer than  *)
(* its cursor; the page folds the messages into its view.                  *)
(*                                                                         *)
(* The workers appear with what they write about files and about the end   *)
(* of the bundle.  The state of a file is told by its version, the number  *)
(* of file_updated events it has.  bundle_updated and diagnostic_logged    *)
(* events are left out: the page only displays their counts and messages.  *)
(* No file waits for another one here: PairOrder in IngestQueue is about   *)
(* the order of files, this module about the order of what is told.        *)
(***************************************************************************)
EXTENDS Integers, Sequences, FiniteSets, FiniteSetsExt

CONSTANTS
  Files, Workers,
  Finalize,     \* the finalize job of the bundle
  None,         \* no job
  MaxAttempts

ASSUME StreamNamesAssumption == Finalize \notin Files /\ None \notin Files \cup {Finalize}

Jobs == Files \cup {Finalize}

VARIABLES
  jobStatus,  \* committed status of every job
  version,    \* how many committed file_updated events a file has
  tries,      \* committed attempts of a job
  log,        \* the committed events: a function of their sequence_no
  lastNo,     \* the last sequence_no drawn
  held,       \* the job a worker executes, or None
  tx,         \* the open transaction of a worker
  server,     \* the WebSocket handler
  page,       \* what the page shows, and whether its socket is open
  raced       \* a commit slipped past the cursor of the handler

vars == <<jobStatus, version, tries, log, lastNo, held, tx, server, page, raced>>
database == <<jobStatus, version, tries, log, lastNo, held, tx>>

(* Events are functions of their sequence_no: one event, and those of two  *)
(* transactions.                                                           *)
Row(n, event) == [k \in {n} |-> event]
Over(events, others) ==
  [n \in DOMAIN events \cup DOMAIN others |->
     IF n \in DOMAIN events THEN events[n] ELSE others[n]]
NoEvents == [n \in {} |-> None]

NoTx == [job |-> None, status |-> "queued", todo |-> <<>>, wrote |-> NoEvents]

Init ==
  /\ jobStatus = [j \in Jobs |-> IF j \in Files THEN "queued" ELSE "absent"]
  /\ version = [f \in Files |-> 0]
  /\ tries = [j \in Jobs |-> 0]
  /\ log = NoEvents
  /\ lastNo = 0
  /\ held = [w \in Workers |-> None]
  /\ tx = [w \in Workers |-> NoTx]
  /\ server = [pc |-> "off", cursor |-> 0, version |-> version, toSend |-> {}]
  /\ page = [open |-> TRUE, version |-> version]
  /\ raced = FALSE

-----------------------------------------------------------------------------
(* The transactions of the workers.  Begin says what the transaction       *)
(* leaves the job as and which events it inserts.                          *)

Idle(w) == tx[w] = NoTx
Locked(j) == \E w \in Workers : tx[w].job = j
Begin(w, j, status, todo) ==
  /\ tx' = [tx EXCEPT ![w] = [job |-> j, status |-> status, todo |-> todo, wrote |-> NoEvents]]
  /\ UNCHANGED <<jobStatus, version, tries, log, lastNo, held, server, page, raced>>

(* claim_next_job; the claim of the finalize job announces nothing.        *)
Claim(w) ==
  /\ held[w] = None /\ Idle(w)
  /\ \E j \in Jobs :
       /\ jobStatus[j] = "queued" /\ ~Locked(j)
       /\ Begin(w, j, "running", IF j \in Files THEN <<"file_updated">> ELSE <<>>)

Retried(j) == IF tries[j] >= MaxAttempts THEN "failed_terminal" ELSE "queued"

(* mark_job_succeeded, or mark_job_failed and retry_failed_job.            *)
EndFile(w) ==
  LET f == held[w]
  IN /\ f \in Files /\ Idle(w)
     /\ \/ \E status \in {"succeeded", "failed_terminal"} : Begin(w, f, status, <<"file_updated">>)
        \/ Begin(w, f, Retried(f), <<"file_updated", "file_updated">>)

EndFinalize(w) ==
  /\ held[w] = Finalize /\ Idle(w)
  /\ \E status \in {"succeeded", Retried(Finalize)} :
       Begin(w, Finalize, status, <<"bundle_terminal">>)

EventsOf(f, events) == {n \in DOMAIN events : events[n].file = f}

(* append_ingest_event draws the sequence number.                          *)
Emit(w) ==
  LET kind == Head(tx[w].todo)
      j == tx[w].job
      event == [kind |-> kind, file |-> j,
                version |-> IF j \in Files
                              THEN version[j] + 1 + Cardinality(EventsOf(j, tx[w].wrote))
                              ELSE 0]
  IN /\ tx[w].todo # <<>>
     /\ tx' = [tx EXCEPT ![w].todo = Tail(@), ![w].wrote = Over(Row(lastNo + 1, event), @)]
     /\ lastNo' = lastNo + 1
     /\ UNCHANGED <<jobStatus, version, tries, log, held, server, page, raced>>

(* The commit cannot reach the page any more, whatever the handler does    *)
(* with its cursor: the handler has already read the files and not yet the *)
(* cursor, or an event with a higher number was read before.               *)
Bypasses(events) ==
  \E n \in DOMAIN events :
    \/ server.pc = "cursor"
    \/ server.pc = "stream" /\ \E m \in {server.cursor} \cup server.toSend : n < m

(* Fault: the finalize job is inserted although a file is still running.   *)
FinalizeDueEarly(js) == js[Finalize] = "absent" /\ \E f \in Files : js[f] = "succeeded"

(* maybe_enqueue_finalize_job, at the end of the transactions of files.    *)
(* That two of them can miss each other is the subject of IngestRunner.    *)
FinalizeDue(js) ==
  /\ js[Finalize] = "absent"
  /\ \A f \in Files : js[f] \in {"succeeded", "failed_terminal"}
  /\ \E f \in Files : js[f] = "succeeded"

Commit(w) ==
  LET j == tx[w].job
      status == tx[w].status
      js == [jobStatus EXCEPT ![j] = status]
  IN /\ j # None /\ tx[w].todo = <<>>
     /\ jobStatus' = IF FinalizeDue(js) THEN [js EXCEPT ![Finalize] = "queued"] ELSE js
     /\ version' = [f \in Files |-> version[f] + Cardinality(EventsOf(f, tx[w].wrote))]
     /\ tries' = IF status = "running" THEN [tries EXCEPT ![j] = @ + 1] ELSE tries
     /\ held' = [held EXCEPT ![w] = IF status = "running" THEN j ELSE None]
     /\ log' = Over(log, tx[w].wrote)
     /\ tx' = [tx EXCEPT ![w] = NoTx]
     /\ raced' = (raced \/ Bypasses(tx[w].wrote))
     /\ UNCHANGED <<lastNo, server, page>>

-----------------------------------------------------------------------------
(* The page: applyBundleEvent, and the socket is closed on bundle_terminal.*)
(* Handler and page share nothing but the ordered socket, so a message is  *)
(* applied when it is sent.                                                *)

Applied(view, event) ==
  IF event.kind = "bundle_terminal" THEN [view EXCEPT !.open = FALSE]
  ELSE [view EXCEPT !.version[event.file] = event.version]

(* The WebSocket handler: the files of the snapshot, then the number of    *)
(* the last event the log shows, then the snapshot is sent.                *)
ReadFiles ==
  /\ server.pc = "off"
  /\ server' = [server EXCEPT !.pc = "cursor", !.version = version]
  /\ UNCHANGED <<database, page, raced>>

(* Fault: the cursor is the last number drawn, committed or not.           *)
LastDrawn == lastNo

LastCommitted == Max({0} \cup DOMAIN log)

ReadCursor ==
  /\ server.pc = "cursor"
  /\ server' = [server EXCEPT !.pc = "stream", !.cursor = LastCommitted]
  /\ page' = [page EXCEPT !.version = server.version]
  /\ UNCHANGED <<database, raced>>

Unseen == {n \in DOMAIN log : n > server.cursor}

(* Faults: a poll skips the events that belong to no file; the newest      *)
(* event of a batch is sent first.                                         *)
OfFilesOnly == {n \in Unseen : log[n].kind = "file_updated"}
NewestFirst == Max(server.toSend)

Batch == Unseen
NextToSend == Min(server.toSend)

(* A poll fetches what is new; its events are sent one by one and move the *)
(* cursor, and bundle_terminal ends the stream.                            *)
Poll ==
  /\ server.pc = "stream" /\ server.toSend = {} /\ Batch # {}
  /\ server' = [server EXCEPT !.toSend = Batch]
  /\ UNCHANGED <<database, page, raced>>

Send ==
  LET n == NextToSend
  IN /\ server.pc = "stream" /\ server.toSend # {}
     /\ server' = [server EXCEPT !.cursor = n,
                                 !.toSend = @ \ {n},
                                 !.pc = IF log[n].kind = "bundle_terminal" THEN "closed" ELSE @]
     /\ page' = Applied(page, log[n])
     /\ UNCHANGED <<database, raced>>

(* The connection breaks, and the page does not connect again.             *)
Disconnect ==
  /\ page.open /\ server.pc = "stream"
  /\ server' = [server EXCEPT !.pc = "closed"]
  /\ page' = [page EXCEPT !.open = FALSE]
  /\ UNCHANGED <<database, raced>>

Work(w) == Claim(w) \/ EndFile(w) \/ EndFinalize(w) \/ Emit(w) \/ Commit(w)
Serve == ReadFiles \/ ReadCursor \/ Poll \/ Send
Next == (\E w \in Workers : Work(w)) \/ Serve \/ Disconnect

(* The workers run until nothing is left, and the handler polls until it   *)
(* has sent the terminal event.                                            *)
Fairness == (\A w \in Workers : WF_vars(Work(w))) /\ WF_vars(Serve)
Spec == Init /\ [][Next]_vars /\ Fairness

-----------------------------------------------------------------------------
(* Properties.                                                             *)

(* The file list of the page never goes back to an older state of a file,  *)
(* although snapshot, cursor and events are read at different times and    *)
(* transactions commit in another order than they drew their numbers.      *)
PageNeverRegresses ==
  [][\A f \in Files : page'.version[f] >= page.version[f]]_vars

(* Bypassed commits are the only way to lose an update: otherwise a page   *)
(* that has received everything shows every file as the queue has it.      *)
CaughtUpPageIsCurrent ==
  server.pc = "stream" /\ server.toSend = {} /\ Unseen = {} /\ ~raced => page.version = version

ClosedByEnd ==
  /\ server.pc = "closed"
  /\ server.cursor \in DOMAIN log /\ log[server.cursor].kind = "bundle_terminal"

(* When bundle_terminal closed the stream of a page that missed nothing,   *)
(* the page shows the last state of every file: no file event can follow   *)
(* the end of the bundle or sit above the terminal event in the log.       *)
ClosedPageIsComplete == ClosedByEnd /\ ~raced => page.version = version

(* A page that stays connected and misses nothing is closed by the         *)
(* terminal event once the bundle has one.                                 *)
EndReachesPage ==
  (server.pc = "stream" /\ \E n \in Unseen : log[n].kind = "bundle_terminal") ~> ~page.open

-----------------------------------------------------------------------------
(* The inductive invariant.                                                *)

JobStatuses == {"queued", "running", "succeeded", "failed_terminal"}
EndStatuses == {"succeeded", "failed_terminal"}
KindOf(j) == IF j \in Files THEN "file_updated" ELSE "bundle_terminal"
EventOf(j) == [kind : {KindOf(j)}, file : {j}, version : Nat]
FileEvents == UNION {EventsOf(f, log) : f \in Files}

TypeOK ==
  /\ jobStatus \in [Jobs -> JobStatuses \cup {"absent"}]
  /\ version \in [Files -> Nat]
  /\ lastNo \in Nat
  /\ DOMAIN log \subseteq 1..lastNo
  /\ \A n \in DOMAIN log : \E j \in Jobs : log[n] \in EventOf(j)
  /\ held \in [Workers -> Jobs \cup {None}]
  /\ DOMAIN tx = Workers
  /\ \A w \in Workers :
       tx[w] \in [job : Jobs \cup {None}, status : JobStatuses,
                 todo : Seq({"file_updated", "bundle_terminal"}), wrote : {tx[w].wrote}]
  /\ server \in [pc : {"off", "cursor", "stream", "closed"}, cursor : Nat,
                 version : [Files -> Nat], toSend : SUBSET Nat]
  /\ page \in [open : BOOLEAN, version : [Files -> Nat]]
  /\ raced \in BOOLEAN

(* One worker at most executes or writes a job, and none does so any more  *)
(* when the job has ended.                                                 *)
Holds(w) ==
  /\ held[w] # None => jobStatus[held[w]] = "running"
  /\ tx[w].job = None => tx[w] = NoTx
  /\ tx[w].job # None =>
       \/ held[w] = None /\ jobStatus[tx[w].job] = "queued" /\ tx[w].status = "running"
       \/ held[w] = tx[w].job /\ tx[w].status # "running"
HoldsAlone(v, w) ==
  /\ held[v] # None => held[v] # held[w]
  /\ tx[v].job # None => tx[v].job # tx[w].job
  /\ DOMAIN tx[v].wrote \cap DOMAIN tx[w].wrote = {}

(* The finalize job comes after the last file.                             *)
FilesFirst ==
  jobStatus[Finalize] # "absent" => \A f \in Files : jobStatus[f] \in EndStatuses

(* The committed events of a file count up to its version, in the order of *)
(* their numbers, and bundle_terminal is above all of them.                *)
Counted(f) ==
  /\ \A n \in EventsOf(f, log) : log[n].version \in 1..version[f]
  /\ version[f] # 0 => \E n \in EventsOf(f, log) : log[n].version = version[f]
  /\ \A m, n \in EventsOf(f, log) : m < n => log[m].version < log[n].version
TerminalLast ==
  \A n \in EventsOf(Finalize, log) :
    jobStatus[Finalize] # "absent" /\ \A m \in FileEvents : m < n

(* So will those an open transaction wrote, which come after them.         *)
CountsOn(w) ==
  LET j == tx[w].job
      wrote == tx[w].wrote
  IN /\ \A i \in 1..Len(tx[w].todo) : tx[w].todo[i] = KindOf(j)
     /\ DOMAIN wrote \subseteq (1..lastNo) \ DOMAIN log
     /\ \A n \in DOMAIN wrote :
          /\ wrote[n] \in EventOf(j)
          /\ \A m \in IF j \in Files THEN EventsOf(j, log) ELSE FileEvents : m < n
     /\ j \in Files =>
          /\ \A n \in DOMAIN wrote :
               wrote[n].version \in (version[j] + 1)..(version[j] + Cardinality(DOMAIN wrote))
          /\ DOMAIN wrote # {} =>
               \E n \in DOMAIN wrote : wrote[n].version = version[j] + Cardinality(DOMAIN wrote)
          /\ \A m, n \in DOMAIN wrote : m < n => wrote[m].version < wrote[n].version

(* What the page shows of a file lies between what it was told and what is *)
(* still to be told.                                                       *)
NotAhead ==
  \A f \in Files : page.version[f] <= version[f] /\ server.version[f] <= version[f]
ShownBelow ==
  \A f \in Files : \A n \in EventsOf(f, log) :
    n > server.cursor => log[n].version >= page.version[f]
ShownAbove ==
  \A f \in Files : \A n \in EventsOf(f, log) :
    n <= server.cursor => log[n].version <= page.version[f]

(* A batch has no gap unless a commit slipped in.                          *)
BatchIsWhole ==
  \A n \in Unseen : (\E m \in server.toSend : n <= m) => n \in server.toSend

Serves ==
  /\ server.cursor \in {0} \cup DOMAIN log
  /\ server.toSend \subseteq Unseen
  /\ server.pc \in {"off", "cursor"} => page.version = [f \in Files |-> 0] /\ server.toSend = {}
  /\ NotAhead /\ ShownBelow
  /\ server.pc = "cursor" /\ ~raced => server.version = version
  /\ server.pc = "stream" /\ ~raced => ShownAbove /\ BatchIsWhole
  /\ ClosedByEnd /\ ~raced => ShownAbove

Ledger ==
  /\ \A w \in Workers : Holds(w) /\ CountsOn(w)
  /\ \A v, w \in Workers : v # w => HoldsAlone(v, w)
  /\ FilesFirst
  /\ \A f \in Files : Counted(f)
  /\ TerminalLast

StreamInv == TypeOK /\ Ledger /\ Serves
=============================================================================
