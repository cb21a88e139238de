----------------------------- MODULE ReadModels -----------------------------
(***************************************************************************)
(* The server of the analytics platform: a loop that rebuilds the tables   *)
(* of one DuckDB file from the ledgers, one table after the other, while   *)
(* requests read that file and the trading programs append to the ledgers. *)
(*                                                                         *)
(* A ledger is its number of files and two versions, of the file that      *)
(* sorts last and of the others; a table is what it was built from.  What  *)
(* rows a table gets is in module ReadTables, what a request makes of them *)
(* in Dashboards.  Time between refreshes is not modelled, so neither is   *)
(* the back-off after failures.                                            *)
(***************************************************************************)
EXTENDS Naturals, FiniteSets, Sequences, SequencesExt

CONSTANTS
  Watched, Unwatched, \* the ledgers the fingerprint sees, and those it does not
  Clients,            \* threads that serve requests
  MaxWrites,          \* bound: changes of the ledgers
  MaxFaults,          \* bound: crashes, and tables the database refuses
  MaxRequests         \* bound: requests

Ledgers == Watched \cup Unwatched
Order == SetToSeq(Ledgers)   \* the order the build visits them in

ASSUME ReadModelsConstants ==
  /\ IsFiniteSet(Ledgers) /\ Watched # {} /\ Watched \cap Unwatched = {}
  /\ {MaxWrites, MaxFaults, MaxRequests} \subseteq Nat

VARIABLES
  disk,     \* the ledgers
  writes, faults, requests,
  pc,       \* of the refresh: "idle", "ingest", "connect", "write", "publish"
  fp,       \* the fingerprint taken before the build
  got,      \* the rows of the build, a sequence of what was read in Order
  written,  \* how many tables of this build are written
  tables,   \* the DuckDB file: per ledger the build and what it read
  builds,   \* how many builds reached the database, to name them
  server,   \* AnalyticsRuntime: build_result, _last_source_fp, refresh_error
  open      \* the threads whose request has the file open

vars == <<disk, writes, faults, requests, pc, fp, got, written, tables, builds,
          server, open>>

refreshing == <<pc, fp, got, written, tables, builds, server>>

(* The last line of the newest file may be half-written ("torn"), or have  *)
(* a field of a kind its conversion refuses ("odd").                       *)
Ledger == [files : Nat, last : Nat, older : Nat, line : {"whole", "torn", "odd"}]

NoLedger == [files |-> 0, last |-> 0, older |-> 0, line |-> "whole"]
Unbuilt == [build |-> 0, has |-> NoLedger]

Booted == [up |-> FALSE, build |-> 0, last_fp |-> <<>>, error |-> FALSE]

Init ==
  /\ disk = [l \in Ledgers |-> [files |-> 1, last |-> 0, older |-> 0, line |-> "whole"]]
  /\ writes = 0 /\ faults = 0 /\ requests = 0
  /\ pc = "idle" /\ fp = <<>> /\ got = <<>> /\ written = 0
  /\ tables = [l \in Ledgers |-> Unbuilt]
  /\ builds = 0
  /\ server = Booted
  /\ open = {}

-----------------------------------------------------------------------------
(* The programs that write the ledgers.                                    *)
Writing(l, d) ==
  /\ writes < MaxWrites
  /\ writes' = writes + 1
  /\ disk' = [disk EXCEPT ![l] = d]
  /\ UNCHANGED <<faults, requests, open>> /\ UNCHANGED refreshing

(* An append to the newest file, seen whole, in part, or with a bad field. *)
Append_(l, line) ==
  /\ disk[l].line = "whole"
  /\ Writing(l, [disk[l] EXCEPT !.last = @ + 1, !.line = line])

(* The rest of the line arrives. *)
Complete(l) ==
  /\ disk[l].line = "torn"
  /\ Writing(l, [disk[l] EXCEPT !.last = @ + 1, !.line = "whole"])

(* A new date opens a file that sorts last; an old date may be reopened.   *)
NewFile(l) ==
  /\ disk[l].line = "whole"
  /\ Writing(l, [disk[l] EXCEPT !.files = @ + 1, !.last = @ + 1])
Reopen(l) == disk[l].files > 1 /\ Writing(l, [disk[l] EXCEPT !.older = @ + 1])

-----------------------------------------------------------------------------
(* source_fingerprint: per watched ledger the number of files and the time *)
(* of the last one.                                                        *)
Fingerprint == [l \in Watched |-> <<disk[l].files, disk[l].last>>]

(* refresh_once, up to its first return.  One refresh at a time: a lock.   *)
Begin ==
  /\ pc = "idle"
  /\ IF Fingerprint = server.last_fp
     THEN UNCHANGED <<pc, fp, got, written>>
     ELSE pc' = "ingest" /\ fp' = Fingerprint /\ got' = <<>> /\ written' = 0
  /\ UNCHANGED <<disk, writes, faults, requests, tables, builds, server, open>>

(* Mutant: the fingerprint is kept from a build that failed, which is not tried again. *)
Failed_Recorded ==
  server' = [server EXCEPT !.up = TRUE, !.error = TRUE, !.last_fp = fp] /\ pc' = "idle"

(* The exception handler: what was served before is served on.             *)
Failed == server' = [server EXCEPT !.up = TRUE, !.error = TRUE] /\ pc' = "idle"

(* build_readmodels reads the next ledger into its rows.                   *)
Ingest ==
  /\ pc = "ingest"
  /\ LET d == disk[Order[Len(got) + 1]]
     IN IF d.line = "odd" THEN Failed /\ UNCHANGED got
        ELSE /\ got' = Append(got, IF d.line = "torn" THEN [d EXCEPT !.last = 0] ELSE d)
             /\ pc' = IF Len(got') = Len(Order) THEN "connect" ELSE "ingest"
             /\ UNCHANGED server
  /\ UNCHANGED <<disk, writes, faults, requests, fp, written, tables, builds, open>>

(* connect_rw: the library has one configuration per file and process, so  *)
(* it raises while a request has the file open for reading.                *)
Connect ==
  /\ pc = "connect"
  /\ IF open # {} THEN Failed /\ UNCHANGED builds
     ELSE pc' = "write" /\ builds' = builds + 1 /\ UNCHANGED server
  /\ UNCHANGED <<disk, writes, faults, requests, fp, got, written, tables, open>>

(* _write_table replaces one table, and that is committed.  The library    *)
(* may refuse it: a full disk, a column of mixed types.                    *)
WriteTable ==
  /\ pc = "write"
  /\ tables' = [tables EXCEPT ![Order[written + 1]] =
                  [build |-> builds, has |-> got[written + 1]]]
  /\ written' = written + 1
  /\ pc' = IF written' = Len(Order) THEN "publish" ELSE "write"
  /\ UNCHANGED <<disk, writes, faults, requests, fp, got, builds, server, open>>

Refuse ==
  /\ pc = "write" /\ faults < MaxFaults
  /\ faults' = faults + 1
  /\ Failed
  /\ UNCHANGED <<disk, writes, requests, fp, got, written, tables, builds, open>>

(* Mutant: the fingerprint is taken again when the build is done. *)
Publish_Late ==
  /\ pc = "publish" /\ pc' = "idle"
  /\ server' = [up |-> TRUE, build |-> builds, last_fp |-> Fingerprint, error |-> FALSE]
  /\ UNCHANGED <<disk, writes, faults, requests, fp, got, written, tables, builds, open>>

(* The end of refresh_once.                                                *)
Publish ==
  /\ pc = "publish" /\ pc' = "idle"
  /\ server' = [up |-> TRUE, build |-> builds, last_fp |-> fp, error |-> FALSE]
  /\ UNCHANGED <<disk, writes, faults, requests, fp, got, written, tables, builds, open>>

Refresh == Begin \/ Ingest \/ Connect \/ WriteTable \/ Publish

-----------------------------------------------------------------------------
(* A request: connect_ro, the queries on one connection, close.  While the *)
(* build has the file open the library raises, and the request ends there. *)
(* Requests are served after the refresh of the start.                     *)
Request(c) ==
  /\ server.up /\ c \notin open /\ requests < MaxRequests
  /\ requests' = requests + 1
  /\ open' = IF pc = "write" THEN open ELSE open \cup {c}
  /\ UNCHANGED <<disk, writes, faults>> /\ UNCHANGED refreshing

Answer(c) ==
  /\ c \in open
  /\ open' = open \ {c}
  /\ UNCHANGED <<disk, writes, faults, requests>> /\ UNCHANGED refreshing

(* The process dies and is started again: the file is what is left.        *)
Crash ==
  /\ faults < MaxFaults
  /\ faults' = faults + 1
  /\ pc' = "idle" /\ fp' = <<>> /\ got' = <<>> /\ written' = 0
  /\ server' = Booted /\ open' = {}
  /\ UNCHANGED <<disk, writes, requests, tables, builds>>

-----------------------------------------------------------------------------
Next ==
  \/ \E l \in Ledgers :
       \/ \E line \in {"whole", "torn", "odd"} : Append_(l, line)
       \/ Complete(l) \/ NewFile(l) \/ Reopen(l)
  \/ Begin \/ Ingest \/ Connect \/ WriteTable \/ Refuse \/ Publish
  \/ \E c \in Clients : Request(c) \/ Answer(c)
  \/ Crash

(* The scheduler is a loop that sleeps and refreshes; a request ends.      *)
Spec ==
  Init /\ [][Next]_vars /\ WF_vars(Refresh) /\ \A c \in Clients : WF_vars(Answer(c))

-----------------------------------------------------------------------------
TypeOK ==
  /\ disk \in [Ledgers -> Ledger]
  /\ writes \in 0..MaxWrites /\ faults \in 0..MaxFaults /\ requests \in 0..MaxRequests
  /\ pc \in {"idle", "ingest", "connect", "write", "publish"}
  /\ Len(got) <= Len(Order) /\ written \in 0..Len(Order)
  /\ \A l \in Ledgers : tables[l].build \in 0..builds
  /\ server.up \in BOOLEAN /\ server.error \in BOOLEAN /\ server.build \in 0..builds
  /\ open \subseteq Clients

(* A file whose last line is torn is left out, and shown again when whole. *)
Shown(d) == IF d.line = "torn" THEN 0 ELSE d.last

(* When the server finds nothing new on disk, its tables hold every watched *)
(* ledger as it is, but for changes of files that are not the last: an      *)
(* append between the fingerprint and the read, or a half-written line that *)
(* was skipped, cannot be taken for shown.                                  *)
NothingMissed ==
  pc = "idle" /\ server.last_fp = Fingerprint =>
    \A l \in Watched :
      tables[l].has.files = disk[l].files
      /\ tables[l].has.last = Shown(disk[l])

(* Tables of different builds are served side by side only by a server that *)
(* reports itself degraded, whatever died or was refused between the        *)
(* commits of a build.                                                      *)
MixedIsFlagged ==
  server.up /\ pc = "idle" /\ (\E k, l \in Ledgers : tables[k].build # tables[l].build)
    => server.error

(* The tables served are the ledgers, or are known not to be. *)
ServedTablesHonest == NothingMissed /\ MixedIsFlagged

(* Once programs and requests pause, the tables come to show the watched    *)
(* ledgers, unless a field in some ledger cannot be converted: that stops   *)
(* every later build.                                                       *)
Current ==
  \A l \in Watched :
    tables[l].has.files = disk[l].files /\ tables[l].has.last = Shown(disk[l])
Poisoned == \E l \in Ledgers : disk[l].line = "odd"
ChangesAppear == <>[](Current \/ Poisoned)
=============================================================================
