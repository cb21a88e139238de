--------------------------- MODULE PlatformProofs ---------------------------
(***************************************************************************)
(* That the server of the platform serves what is on disk or knows better, *)
(* for any ledgers, clients, writes and faults; that a reconciliation of   *)
(* the 401k account without drift explains the account, for any tickets,   *)
(* confirmations and syncs; that the trades asked for are on the owner's    *)
(* page; and that the profit of a flat strategy with orders of one size is, *)
(* per share, its cash flow.                                               *)
(*                                                                         *)
(* ServedTablesHonest is about a server at rest.  What makes it so is kept *)
(* through a refresh: versions only grow, so a ledger whose fingerprint is *)
(* still that of the start of the build was read as it is; and the tables  *)
(* written so far are those of the build.                                  *)
(*                                                                         *)
(* CleanReportExplains is about ledgers whose reports were made one after  *)
(* the other.  What makes a report speak of its own sync is that the       *)
(* snapshots of the sync under way are, of their kinds, the newest in the  *)
(* ledger as soon as they are appended, whatever else is appended then.    *)
(*                                                                         *)
(* NewestTicketShown and FlatProfitPerShare are about functions of the     *)
(* ledgers.  What is kept through the steps is only that records can be    *)
(* read; the rest are facts of the tables and of counting: a table has one *)
(* row per trade of a record, and where a symbol has as many sells as buys *)
(* their ranks match each buy with one sell.                               *)
(***************************************************************************)
EXTENDS ReadModels, AnalyticsPlatform, SumFacts, FunctionTheorems

-----------------------------------------------------------------------------
(* The invariants                                                          *)

Prints == [Watched -> Nat \X Nat] \cup {<<>>}
Server == [up : BOOLEAN, build : Nat, last_fp : Prints, error : BOOLEAN]

(* Types, and how far the steps of a refresh have come. *)
Typed ==
  /\ TypeOK
  /\ builds \in Nat /\ fp \in Prints /\ got \in Seq(Ledger) /\ server \in Server
  /\ tables \in [Ledgers -> [build : Nat, has : Ledger]]
  /\ pc # "idle" => fp # <<>>
  /\ pc = "ingest" => Len(got) < Len(Order)
  /\ pc \in {"connect", "write", "publish"} => Len(got) = Len(Order)
  /\ pc \in {"ingest", "connect"} => written = 0
  /\ pc = "write" => written < Len(Order)
  /\ pc = "publish" => written = Len(Order)

(* A fingerprint is of the past; and what it says of a ledger may be true  *)
(* still.                                                                  *)
Past(f, l)  == f[l][1] <= disk[l].files /\ f[l][2] <= disk[l].last
Fresh(f, l) == f[l][1] = disk[l].files /\ f[l][2] = disk[l].last

(* Rows that show a ledger as it is on disk. *)
Showing(rows, l) == rows.files = disk[l].files /\ rows.last = Shown(disk[l])

(* What a refresh has read of a ledger that did not change since it began  *)
(* is the ledger.                                                          *)
BuildHonest ==
  pc # "idle" =>
    /\ \A l \in Watched : Past(fp, l)
    /\ \A i \in 1..Len(got) :
         Order[i] \in Watched /\ Fresh(fp, Order[i]) => Showing(got[i], Order[i])

(* The server builds nothing only if its tables are the ledgers. *)
ServerHonest ==
  /\ server.last_fp # <<>> => \A l \in Watched : Past(server.last_fp, l)
  /\ server.last_fp = Fingerprint =>
       pc = "idle" /\ \A l \in Watched : Showing(tables[l].has, l)

(* The tables are of one build up to where the present one has come. *)
OneBuild ==
  /\ pc \in {"write", "publish"} =>
       \A i \in 1..written : tables[Order[i]] = [build |-> builds, has |-> got[i]]
  /\ server.up /\ ~ server.error /\ pc \notin {"write", "publish"} =>
       \A k, l \in Ledgers : tables[k].build = tables[l].build

-----------------------------------------------------------------------------
(* The build visits every ledger, once. *)
LEMMA OrderVisitsAll ==
  /\ Len(Order) \in Nat \ {0} /\ \A i \in 1..Len(Order) : Order[i] \in Ledgers
  /\ \A l \in Ledgers : \E i \in 1..Len(Order) : Order[i] = l
  /\ \A i, j \in 1..Len(Order) : Order[i] = Order[j] => i = j
<1> DEFINE n == Cardinality(Ledgers)
<1>1. IsFiniteSet(Ledgers) /\ n \in Nat /\ ExistsBijection(1..n, Ledgers)
  BY ReadModelsConstants, FS_CardinalityType
<1>2. \E f \in [1..n -> Ledgers] : IsInjective(f)
  BY <1>1 DEF ExistsBijection, Bijection, Injection, IsInjective
<1>3. Order \in [1..n -> Ledgers] /\ IsInjective(Order)
  BY <1>2 DEF Order, SetToSeq
<1>4. Order \in Seq(Ledgers) /\ Len(Order) = n
  BY <1>1, <1>3
<1>5. Order \in Injection(1..n, Ledgers)
  BY <1>3 DEF Injection, IsInjective
<1>6. IsFiniteSet(1..n) /\ Cardinality(1..n) = n
  BY <1>1, FS_Interval
<1>7. Order \in Surjection(1..n, Ledgers)
  BY <1>1, <1>5, <1>6, FS_Injection
<1>8. n # 0
  BY <1>1, FS_EmptySet, ReadModelsConstants DEF Ledgers
<1> QED
  BY <1>1, <1>3, <1>4, <1>7, <1>8 DEF Surjection, IsInjective

-----------------------------------------------------------------------------
(* What a write does to the ledger written: the versions grow, and only    *)
(* the reopening of an older file leaves the fingerprint as it was.        *)
Grows(d, e) ==
  /\ d.files <= e.files /\ d.last <= e.last
  /\ d.last < e.last \/ (e.files = d.files /\ e.last = d.last /\ e.line = d.line)

Written == \E l \in Ledgers, e \in Ledger : Grows(disk[l], e) /\ Writing(l, e)

Writes ==
  \E l \in Ledgers :
    \/ \E line \in {"whole", "torn", "odd"} : Append_(l, line)
    \/ Complete(l) \/ NewFile(l) \/ Reopen(l)

LEMMA VersionsGrow ==
  ASSUME NEW d \in Ledger, NEW line \in {"whole", "torn", "odd"}, NEW e,
         \/ e = [d EXCEPT !.last = @ + 1, !.line = line]
         \/ e = [d EXCEPT !.files = @ + 1, !.last = @ + 1]
         \/ e = [d EXCEPT !.older = @ + 1]
  PROVE  e \in Ledger /\ Grows(d, e)
<1>1. PICK n \in Nat, v \in Nat, o \in Nat, t \in {"whole", "torn", "odd"} :
        d = [files |-> n, last |-> v, older |-> o, line |-> t]
  BY DEF Ledger
<1>2. CASE e = [d EXCEPT !.last = @ + 1, !.line = line]
  <2>1. e = [files |-> n, last |-> v + 1, older |-> o, line |-> line]
    BY <1>1, <1>2
  <2> QED BY <1>1, <2>1 DEF Ledger, Grows
<1>3. CASE e = [d EXCEPT !.files = @ + 1, !.last = @ + 1]
  <2>1. e = [files |-> n + 1, last |-> v + 1, older |-> o, line |-> t]
    BY <1>1, <1>3
  <2> QED BY <1>1, <2>1 DEF Ledger, Grows
<1>4. CASE e = [d EXCEPT !.older = @ + 1]
  <2>1. e = [files |-> n, last |-> v, older |-> o + 1, line |-> t]
    BY <1>1, <1>4
  <2> QED BY <1>1, <2>1 DEF Ledger, Grows
<1> QED BY <1>2, <1>3, <1>4

LEMMA WritesGrow ==
  ASSUME Typed, Writes
  PROVE  Written
<1>1. PICK l \in Ledgers :
        \/ \E line \in {"whole", "torn", "odd"} : Append_(l, line)
        \/ Complete(l) \/ NewFile(l) \/ Reopen(l)
  BY DEF Writes
<1>2. disk[l] \in Ledger
  BY DEF Typed, TypeOK
<1>3. \A line \in {"whole", "torn", "odd"} : Append_(l, line) => Written
  BY <1>2, VersionsGrow DEF Append_, Written
<1>4. Complete(l) \/ NewFile(l) \/ Reopen(l) => Written
  BY <1>2, VersionsGrow DEF Complete, NewFile, Reopen, Written
<1> QED BY <1>1, <1>3, <1>4

-----------------------------------------------------------------------------
(* Types                                                                   *)

(* A refresh that failed served before and serves on. *)
LEMMA FailedFacts ==
  ASSUME Typed, Failed
  PROVE  /\ pc' = "idle" /\ server' \in Server /\ server'.error
         /\ server'.last_fp = server.last_fp /\ server'.build = server.build
<1>1. PICK u \in BOOLEAN, b \in Nat, f \in Prints, e \in BOOLEAN :
        server = [up |-> u, build |-> b, last_fp |-> f, error |-> e]
  BY DEF Typed, Server
<1>2. server' = [up |-> TRUE, build |-> b, last_fp |-> f, error |-> TRUE]
  BY <1>1 DEF Failed
<1> QED BY <1>1, <1>2 DEF Failed, Server

LEMMA TypedInit == Init => Typed
<1> SUFFICES ASSUME Init PROVE Typed
  OBVIOUS
<1>1. Len(Order) \in Nat /\ {MaxWrites, MaxFaults, MaxRequests} \subseteq Nat
  BY OrderVisitsAll, ReadModelsConstants
<1> QED
  BY <1>1 DEF Init, Typed, TypeOK, Prints, Server, Booted, Unbuilt, NoLedger, Ledger

LEMMA TypedNext == Typed /\ [Next]_vars => Typed'
<1> SUFFICES ASSUME Typed, [Next]_vars PROVE Typed'
  OBVIOUS
<1>1. /\ Len(Order) \in Nat \ {0} /\ \A i \in 1..Len(Order) : Order[i] \in Ledgers
      /\ MaxWrites \in Nat /\ MaxFaults \in Nat /\ MaxRequests \in Nat
  BY OrderVisitsAll, ReadModelsConstants
<1>2. CASE Writes
  <2>1. PICK l \in Ledgers, e \in Ledger : Grows(disk[l], e) /\ Writing(l, e)
    BY <1>2, WritesGrow DEF Written
  <2>2. disk' \in [Ledgers -> Ledger] /\ writes' \in 0..MaxWrites
    BY <1>1, <2>1 DEF Writing, Typed, TypeOK
  <2> QED
    BY <2>1, <2>2 DEF Writing, refreshing, Typed, TypeOK
<1>3. CASE Begin
  <2>1. Fingerprint \in Prints /\ Fingerprint # <<>>
    <3>1. Fingerprint \in [Watched -> Nat \X Nat]
      BY DEF Fingerprint, Typed, TypeOK, Ledger, Ledgers
    <3>2. DOMAIN Fingerprint = Watched /\ DOMAIN <<>> = {}
      BY <3>1
    <3> QED BY <3>1, <3>2, ReadModelsConstants DEF Prints
  <2>2. CASE Fingerprint = server.last_fp
    BY <1>3, <2>2 DEF Begin, Typed, TypeOK
  <2>3. CASE Fingerprint # server.last_fp
    <3>1. /\ pc' = "ingest" /\ fp' = Fingerprint /\ got' = <<>> /\ written' = 0
          /\ UNCHANGED <<disk, writes, faults, requests, tables, builds, server, open>>
      BY <1>3, <2>3 DEF Begin
    <3> QED BY <1>1, <2>1, <3>1 DEF Typed, TypeOK
  <2> QED BY <2>2, <2>3
<1>4. CASE Ingest
  <2>1. Len(got) + 1 \in 1..Len(Order) /\ disk[Order[Len(got) + 1]] \in Ledger
    BY <1>1, <1>4 DEF Ingest, Typed, TypeOK
  <2>2. CASE disk[Order[Len(got) + 1]].line = "odd"
    BY <1>1, <1>4, <2>2, FailedFacts DEF Ingest, Typed, TypeOK, Server
  <2>3. CASE disk[Order[Len(got) + 1]].line # "odd"
    <3> DEFINE d == disk[Order[Len(got) + 1]]
               x == IF d.line = "torn" THEN [d EXCEPT !.last = 0] ELSE d
    <3>1. x \in Ledger
      BY <2>1 DEF Ledger
    <3>2. /\ got' = Append(got, x) /\ UNCHANGED server
          /\ pc' = IF Len(got') = Len(Order) THEN "connect" ELSE "ingest"
      BY <1>4, <2>3 DEF Ingest
    <3> HIDE DEF x
    <3>3. got' \in Seq(Ledger) /\ Len(got') = Len(got) + 1
      BY <3>1, <3>2 DEF Typed
    <3> QED
      BY <1>1, <1>4, <2>1, <3>2, <3>3 DEF Ingest, Typed, TypeOK
  <2> QED BY <2>2, <2>3
<1>5. CASE Connect
  <2>1. CASE open # {}
    <3>1. Failed /\ UNCHANGED <<disk, writes, faults, requests, fp, got, written, tables,
                                open, builds>>
      BY <1>5, <2>1 DEF Connect
    <3> QED BY <1>1, <3>1, FailedFacts DEF Typed, TypeOK, Server
  <2>2. CASE open = {}
    <3>1. /\ pc = "connect" /\ pc' = "write" /\ builds' = builds + 1
          /\ UNCHANGED <<disk, writes, faults, requests, fp, got, written, tables,
                         open, server>>
      BY <1>5, <2>2 DEF Connect
    <3> QED BY <1>1, <3>1 DEF Typed, TypeOK, Server
  <2> QED BY <2>1, <2>2
<1>6. CASE WriteTable
  <2>1. written + 1 \in 1..Len(got) /\ got[written + 1] \in Ledger
    BY <1>6 DEF WriteTable, Typed, TypeOK
  <2>2. tables' \in [Ledgers -> [build : Nat, has : Ledger]]
    BY <1>6, <2>1 DEF WriteTable, Typed
  <2>3. \A l \in Ledgers : tables'[l].build \in 0..builds
    BY <1>6, <2>1 DEF WriteTable, Typed, TypeOK
  <2> QED
    BY <1>1, <1>6, <2>1, <2>2, <2>3 DEF WriteTable, Typed, TypeOK
<1>7. CASE Refuse
  BY <1>1, <1>7, FailedFacts DEF Refuse, Typed, TypeOK, Server
<1>8. CASE Publish
  BY <1>1, <1>8 DEF Publish, Typed, TypeOK, Server
<1>9. ASSUME NEW c \in Clients, Request(c) \/ Answer(c)
      PROVE  Typed'
  BY <1>1, <1>9 DEF Request, Answer, refreshing, Typed, TypeOK
<1>10. CASE Crash
  BY <1>1, <1>10 DEF Crash, Booted, Typed, TypeOK, Server, Prints
<1>11. CASE UNCHANGED vars
  BY <1>11 DEF vars, Typed, TypeOK
<1> QED
  BY <1>2, <1>3, <1>4, <1>5, <1>6, <1>7, <1>8, <1>9, <1>10, <1>11 DEF Next, Writes

-----------------------------------------------------------------------------
(* The steps                                                               *)

Honest == BuildHonest /\ ServerHonest /\ OneBuild

FingerprintRight ==
  /\ Fingerprint \in [Watched -> Nat \X Nat] /\ Fingerprint # <<>>
  /\ \A l \in Watched : Past(Fingerprint, l) /\ Fresh(Fingerprint, l)
  /\ \A f \in Prints \ {<<>>} :
       f = Fingerprint <=> \A l \in Watched : Fresh(f, l)

LEMMA FingerprintFacts == Typed => FingerprintRight
<1> SUFFICES ASSUME Typed PROVE FingerprintRight
  OBVIOUS
<1>1. \A l \in Watched : disk[l].files \in Nat /\ disk[l].last \in Nat
  BY DEF Typed, TypeOK, Ledger, Ledgers
<1>2. Fingerprint \in [Watched -> Nat \X Nat]
  BY <1>1 DEF Fingerprint
<1>3. Fingerprint # <<>>
  <2>1. DOMAIN Fingerprint = Watched /\ DOMAIN <<>> = {}
    BY DEF Fingerprint
  <2> QED BY <2>1, ReadModelsConstants
<1>4. \A l \in Watched : Fingerprint[l][1] = disk[l].files /\ Fingerprint[l][2] = disk[l].last
  BY DEF Fingerprint
<1>5. ASSUME NEW f \in [Watched -> Nat \X Nat], \A l \in Watched : Fresh(f, l)
      PROVE  f = Fingerprint
  <2>1. \A l \in Watched : f[l] = <<f[l][1], f[l][2]>>
    OBVIOUS
  <2>2. \A l \in Watched : f[l] = <<disk[l].files, disk[l].last>>
    BY <1>5, <2>1 DEF Fresh
  <2> QED BY <2>2 DEF Fingerprint
<1> QED BY <1>1, <1>2, <1>3, <1>4, <1>5 DEF Past, Fresh, Prints, FingerprintRight

LEMMA FingerprintFactsAfter == Typed' => FingerprintRight'
  BY FingerprintFacts, PTL

(* A write makes the fingerprint of its ledger a thing of the past, or     *)
(* changes nothing that is shown.                                          *)
LEMMA WriteFacts ==
  ASSUME Typed, Typed', Writes
  PROVE  /\ UNCHANGED <<refreshing, open>>
         /\ \A l \in Watched, f \in Prints \ {<<>>} : Past(f, l) =>
              /\ Past(f, l)'
              /\ Fresh(f, l)' => /\ Fresh(f, l)
                                /\ \A rows : Showing(rows, l) => Showing(rows, l)'
<1>1. PICK w \in Ledgers, e \in Ledger : Grows(disk[w], e) /\ Writing(w, e)
  BY WritesGrow DEF Written
<1>2. /\ UNCHANGED <<refreshing, open>>
      /\ disk' = [disk EXCEPT ![w] = e] /\ disk \in [Ledgers -> Ledger]
  BY <1>1 DEF Writing, Typed, TypeOK
<1>3. ASSUME NEW l \in Watched, NEW f \in Prints \ {<<>>}, Past(f, l)
      PROVE  /\ Past(f, l)'
             /\ Fresh(f, l)' => /\ Fresh(f, l)
                               /\ \A rows : Showing(rows, l) => Showing(rows, l)'
  <2>1. l \in Ledgers /\ f[l][1] \in Nat /\ f[l][2] \in Nat
    BY DEF Prints, Ledgers
  <2>2. /\ disk[l] \in Ledger /\ disk'[l] \in Ledger
        /\ Grows(disk[l], disk'[l])
    BY <1>1, <1>2, <2>1 DEF Grows, Ledger
  <2>3. Past(f, l)'
    BY <1>3, <2>1, <2>2 DEF Past, Grows, Ledger
  <2>4. ASSUME Fresh(f, l)'
        PROVE  /\ disk'[l].files = disk[l].files /\ disk'[l].last = disk[l].last
               /\ disk'[l].line = disk[l].line
    BY <1>3, <2>1, <2>2, <2>4 DEF Past, Fresh, Grows, Ledger
  <2> QED BY <2>3, <2>4 DEF Fresh, Showing, Shown
<1> QED BY <1>2, <1>3

(* A step that leaves ledgers, build and tables alone, or gives up the     *)
(* build.                                                                  *)
LEMMA WriteKeeps ==
  ASSUME Typed, Typed', Honest, Writes
  PROVE  Honest'
<1>1. /\ UNCHANGED <<pc, fp, got, written, tables, builds, server>>
      /\ \A l \in Watched, f \in Prints \ {<<>>} : Past(f, l) =>
           /\ Past(f, l)'
           /\ Fresh(f, l)' => /\ Fresh(f, l)
                             /\ \A rows : Showing(rows, l) => Showing(rows, l)'
  BY WriteFacts DEF refreshing
<1>2. BuildHonest'
  <2>1. SUFFICES ASSUME pc # "idle"
                 PROVE  /\ \A l \in Watched : Past(fp, l)'
                        /\ \A i \in 1..Len(got) : Order[i] \in Watched /\ Fresh(fp, Order[i])'
                             => Showing(got[i], Order[i])'
    BY <1>1 DEF BuildHonest
  <2>2. fp \in Prints \ {<<>>} /\ fp' = fp /\ got' = got
    BY <1>1, <2>1 DEF Typed
  <2>3. \A l \in Watched : Past(fp, l)
    BY <2>1 DEF Honest, BuildHonest
  <2>4. ASSUME NEW i \in 1..Len(got), Order[i] \in Watched, Fresh(fp, Order[i])'
        PROVE  Showing(got[i], Order[i])'
    <3> DEFINE l == Order[i]
               rows == got[i]
    <3>1. Fresh(fp, l) /\ Showing(rows, l)
      BY <1>1, <2>1, <2>2, <2>3, <2>4 DEF Honest, BuildHonest, Fresh
    <3> QED
      BY <1>1, <2>2, <2>3, <2>4, <3>1 DEF Fresh, Showing
  <2>5. ASSUME NEW l \in Watched
        PROVE  Past(fp, l)'
    BY <1>1, <2>2, <2>3 DEF Past
  <2> QED BY <2>4, <2>5
<1>3. ServerHonest'
  <2> DEFINE f == server.last_fp
  <2>1. server' = server /\ f \in Prints
    BY <1>1 DEF Typed, Server
  <2>2. f # <<>> => \A l \in Watched : Past(f, l)'
    BY <1>1, <2>1 DEF Honest, ServerHonest, Past
  <2>3. ASSUME f = Fingerprint'
        PROVE  pc' = "idle" /\ \A l \in Watched : Showing(tables[l].has, l)'
    <3>1. f # <<>> /\ \A l \in Watched : Fresh(f, l)'
      BY <2>1, <2>3, FingerprintFactsAfter DEF FingerprintRight, Fresh
    <3>2. \A l \in Watched : Past(f, l) /\ Fresh(f, l)
      BY <1>1, <2>1, <3>1 DEF Honest, ServerHonest, Fresh
    <3>3. f = Fingerprint
      BY <2>1, <3>1, <3>2, FingerprintFacts DEF FingerprintRight
    <3> QED
      BY <1>1, <2>1, <3>1, <3>2, <3>3 DEF Honest, ServerHonest, Fresh, Showing
  <2> QED BY <1>1, <2>1, <2>2, <2>3 DEF ServerHonest
<1>4. OneBuild'
  BY <1>1 DEF Honest, OneBuild
<1> QED BY <1>2, <1>3, <1>4 DEF Honest

LEMMA RefreshKeeps ==
  ASSUME Typed, Typed', Honest, Begin \/ Ingest \/ Connect \/ WriteTable \/ Publish
  PROVE  Honest'
<1>1. /\ Len(Order) \in Nat \ {0} /\ \A i \in 1..Len(Order) : Order[i] \in Ledgers
      /\ \A l \in Ledgers : \E i \in 1..Len(Order) : Order[i] = l
      /\ \A i, j \in 1..Len(Order) : Order[i] = Order[j] => i = j
  BY OrderVisitsAll
<1>2. FingerprintRight
  BY FingerprintFacts
<1>3. CASE Begin
  <2>1. CASE Fingerprint = server.last_fp
    BY <1>3, <2>1 DEF Begin, Honest, BuildHonest, ServerHonest, OneBuild, Past, Fresh,
       Showing, Shown, Fingerprint
  <2>2. CASE Fingerprint # server.last_fp
    <3>1. /\ pc = "idle" /\ pc' = "ingest" /\ fp' = Fingerprint /\ got' = <<>>
          /\ UNCHANGED <<disk, tables, builds, server>>
      BY <1>3, <2>2 DEF Begin
    <3>2. BuildHonest'
      BY <1>2, <3>1 DEF BuildHonest, FingerprintRight, Past
    <3>3. ServerHonest'
      BY <2>2, <3>1 DEF Honest, ServerHonest, Past, Fingerprint
    <3>4. OneBuild'
      BY <3>1 DEF Honest, OneBuild
    <3> QED BY <3>2, <3>3, <3>4 DEF Honest
  <2> QED BY <2>1, <2>2
<1>4. CASE Ingest
  <2> DEFINE d == disk[Order[Len(got) + 1]]
             x == IF d.line = "torn" THEN [d EXCEPT !.last = 0] ELSE d
  <2>1. d \in Ledger /\ Len(got) + 1 \in 1..Len(Order)
    BY <1>1, <1>4 DEF Ingest, Typed, TypeOK
  <2>2. CASE d.line = "odd"
    <3>1. /\ Failed /\ UNCHANGED <<got, disk, fp, written, tables, builds>>
          /\ pc = "ingest"
      BY <1>4, <2>2 DEF Ingest
    <3> QED
      BY <3>1, FailedFacts DEF Honest, BuildHonest, ServerHonest, OneBuild, Past, Fingerprint
  <2>3. CASE d.line # "odd"
    <3>1. /\ got' = Append(got, x) /\ pc = "ingest" /\ pc' \in {"ingest", "connect"}
          /\ UNCHANGED <<disk, fp, written, tables, builds, server>>
      BY <1>4, <2>3 DEF Ingest
    <3>2. x \in Ledger /\ x.files = d.files /\ x.last = Shown(d)
      BY <2>1 DEF Ledger, Shown
    <3>3. Showing(x, Order[Len(got) + 1])
      BY <3>2 DEF Showing
    <3> HIDE DEF x
    <3>4. /\ Len(got') = Len(got) + 1 /\ got'[Len(got) + 1] = x
          /\ \A i \in 1..Len(got) : got'[i] = got[i]
      BY <3>1, <3>2 DEF Typed
    <3>5. BuildHonest'
      <4>1. \A l \in Watched : Past(fp, l)'
        BY <3>1 DEF Honest, BuildHonest, Past
      <4>2. ASSUME NEW i \in 1..Len(got'), Order[i] \in Watched, Fresh(fp, Order[i])'
            PROVE  Showing(got[i], Order[i])'
        <5>1. CASE i = Len(got) + 1
          BY <3>1, <3>3, <3>4, <5>1 DEF Showing
        <5>2. CASE i \in 1..Len(got)
          BY <3>1, <3>4, <4>2, <5>2 DEF Honest, BuildHonest, Fresh, Showing
        <5> QED BY <3>4, <5>1, <5>2 DEF Typed
      <4> QED BY <4>1, <4>2 DEF BuildHonest
    <3>6. ServerHonest'
      BY <3>1 DEF Honest, ServerHonest, Past, Fingerprint
    <3>7. OneBuild'
      BY <3>1 DEF Honest, OneBuild
    <3> QED BY <3>5, <3>6, <3>7 DEF Honest
  <2> QED BY <2>2, <2>3
<1>5. CASE Connect
  <2>1. CASE open # {}
    <3>1. /\ Failed /\ UNCHANGED <<got, disk, fp, written, tables, builds>>
          /\ pc = "connect"
      BY <1>5, <2>1 DEF Connect
    <3> QED
      BY <3>1, FailedFacts DEF Honest, BuildHonest, ServerHonest, OneBuild, Past, Fingerprint
  <2>2. CASE open = {}
    <3>1. /\ pc = "connect" /\ pc' = "write" /\ written = 0
          /\ UNCHANGED <<got, disk, fp, written, tables, server>>
      BY <1>5, <2>2 DEF Connect, Typed
    <3>2. BuildHonest'
      BY <3>1 DEF Honest, BuildHonest, Past, Fresh, Showing
    <3>3. ServerHonest'
      BY <3>1 DEF Honest, ServerHonest, Past, Fingerprint
    <3>4. OneBuild'
      BY <3>1 DEF OneBuild
    <3> QED BY <3>2, <3>3, <3>4 DEF Honest
  <2> QED BY <2>1, <2>2
<1>6. CASE WriteTable
  <2> DEFINE n == written + 1
  <2>1. /\ n \in 1..Len(Order) /\ n \in 1..Len(got) /\ written \in Nat
        /\ pc = "write" /\ pc' \in {"write", "publish"} /\ written' = n
        /\ tables' = [tables EXCEPT ![Order[n]] = [build |-> builds, has |-> got[n]]]
        /\ UNCHANGED <<disk, fp, got, builds, server>>
    BY <1>6 DEF WriteTable, Typed, TypeOK
  <2>2. BuildHonest'
    BY <2>1 DEF Honest, BuildHonest, Past, Fresh, Showing
  <2>3. ServerHonest'
    BY <2>1 DEF Honest, ServerHonest, Past, Fingerprint
  <2>4. OneBuild'
    <3>1. tables'[Order[n]] = [build |-> builds, has |-> got[n]]
      BY <1>1, <2>1 DEF Typed
    <3>2. ASSUME NEW i \in 1..written
          PROVE  tables'[Order[i]] = [build |-> builds, has |-> got[i]]
      <4>1. i \in 1..Len(Order) /\ i # n
        BY <2>1, <1>1
      <4>2. Order[i] # Order[n] /\ Order[i] \in Ledgers
        BY <1>1, <2>1, <4>1
      <4> QED BY <2>1, <4>2 DEF Honest, OneBuild, Typed
    <3>3. \A i \in 1..n : tables'[Order[i]] = [build |-> builds, has |-> got[i]]
      BY <2>1, <3>1, <3>2
    <3> QED BY <2>1, <3>3 DEF OneBuild
  <2> QED BY <2>2, <2>3, <2>4 DEF Honest
<1>7. CASE Publish
  <2>1. /\ pc = "publish" /\ pc' = "idle" /\ written = Len(Order) /\ Len(got) = Len(Order)
        /\ server'.last_fp = fp /\ fp # <<>> /\ fp \in Prints
        /\ UNCHANGED <<disk, fp, got, written, tables, builds>>
    BY <1>7 DEF Publish, Typed
  <2>2. BuildHonest'
    BY <2>1 DEF BuildHonest
  <2>3. ServerHonest'
    <3>1. \A l \in Watched : Past(server.last_fp, l)'
      BY <2>1 DEF Honest, BuildHonest, Past
    <3>2. ASSUME fp = Fingerprint, NEW l \in Watched
          PROVE  Showing(tables[l].has, l)
      <4>1. PICK i \in 1..Len(Order) : Order[i] = l
        BY <1>1 DEF Ledgers
      <4>2. Fresh(fp, l)
        BY <1>2, <3>2 DEF FingerprintRight
      <4>3. Showing(got[i], l) /\ tables[l] = [build |-> builds, has |-> got[i]]
        BY <2>1, <4>1, <4>2 DEF Honest, BuildHonest, OneBuild
      <4> QED BY <4>3
    <3> QED BY <2>1, <3>1, <3>2 DEF ServerHonest, Fingerprint, Showing
  <2>4. OneBuild'
    <3>1. \A l \in Ledgers : tables[l].build = builds
      <4>1. SUFFICES ASSUME NEW l \in Ledgers PROVE tables[l].build = builds
        OBVIOUS
      <4>2. PICK i \in 1..Len(Order) : Order[i] = l
        BY <1>1
      <4>3. tables[l] = [build |-> builds, has |-> got[i]]
        BY <2>1, <4>2 DEF Honest, OneBuild
      <4> QED BY <4>3
    <3> QED BY <2>1, <3>1 DEF OneBuild
  <2> QED BY <2>2, <2>3, <2>4 DEF Honest
<1> QED BY <1>3, <1>4, <1>5, <1>6, <1>7

LEMMA HonestNext == Typed /\ Typed' /\ Honest /\ [Next]_vars => Honest'
<1> SUFFICES ASSUME Typed, Typed', Honest, [Next]_vars PROVE Honest'
  OBVIOUS
<1>1. CASE Writes
  BY <1>1, WriteKeeps
<1>2. CASE Begin \/ Ingest \/ Connect \/ WriteTable \/ Publish
  BY <1>2, RefreshKeeps
<1>3. CASE Refuse
  <2>1. pc = "write" /\ Failed /\ UNCHANGED <<disk, fp, got, written, tables, builds>>
    BY <1>3 DEF Refuse
  <2> QED
    BY <2>1, FailedFacts DEF Honest, BuildHonest, ServerHonest, OneBuild, Past, Fingerprint
<1>4. CASE Crash
  <2>1. /\ pc' = "idle" /\ server'.last_fp = <<>> /\ server'.up = FALSE
        /\ UNCHANGED <<disk, tables>>
    BY <1>4 DEF Crash, Booted
  <2>2. Fingerprint' # <<>>
    BY FingerprintFactsAfter DEF FingerprintRight
  <2> QED
    BY <2>1, <2>2 DEF Honest, BuildHonest, ServerHonest, OneBuild
<1>5. ASSUME UNCHANGED <<disk, refreshing>>
      PROVE  Honest'
  BY <1>5 DEF refreshing, Honest, BuildHonest, ServerHonest, OneBuild, Past, Fresh,
     Showing, Fingerprint
<1>6. CASE \E c \in Clients : Request(c) \/ Answer(c)
  BY <1>5, <1>6 DEF Request, Answer
<1>7. CASE UNCHANGED vars
  BY <1>5, <1>7 DEF vars, refreshing
<1> QED BY <1>1, <1>2, <1>3, <1>4, <1>6, <1>7 DEF Next, Writes

IInv == Typed /\ Honest

LEMMA IInvAlways == Spec => []IInv
<1>1. Init => IInv
  <2>1. SUFFICES ASSUME Init PROVE Typed /\ Honest
    BY DEF IInv
  <2>2. Typed
    BY <2>1, TypedInit
  <2>3. Fingerprint # <<>>
    BY <2>2, FingerprintFacts DEF FingerprintRight
  <2> QED
    BY <2>1, <2>2, <2>3 DEF IInv, Init, Booted, Honest, BuildHonest, ServerHonest, OneBuild
<1>2. IInv /\ [Next]_vars => IInv'
  BY TypedNext, HonestNext DEF IInv
<1> QED BY <1>1, <1>2, PTL DEF Spec

-----------------------------------------------------------------------------
(* The types of the disk, the refresh, the tables and the server, for any  *)
(* number of ledgers, clients and writes.                                  *)
THEOREM TypeCorrect == Spec => []TypeOK
<1>1. IInv => TypeOK
  BY DEF IInv, Typed
<1> QED BY <1>1, IInvAlways, PTL

(* When the server finds nothing new on disk its tables show every watched *)
(* ledger as it is, and tables of two builds are served flagged only:      *)
(* whatever was appended during the build, torn, refused, killed between   *)
(* two tables, or held open by a request.                                  *)
THEOREM TablesServedHonestly == Spec => []ServedTablesHonest
<1>1. IInv => ServedTablesHonest
  BY DEF IInv, Honest, ServerHonest, OneBuild, ServedTablesHonest, NothingMissed, MixedIsFlagged,
     Showing, Typed, TypeOK
<1> QED BY <1>1, IInvAlways, PTL

-----------------------------------------------------------------------------
(* The reconciliations of the 401k account                                 *)

Kinds == {"account", "positions", "orders"}

(* What is in the ledger of the account is older than a time; or but for   *)
(* one record, which is the newest of its kind.                            *)
OlderThan(schwab, t, ts) == \A i \in DOMAIN schwab : schwab[i].type = t => schwab[i].ts < ts
NewestAt(schwab, d, t, ts, i) ==
  /\ i \in DOMAIN schwab /\ schwab[i].type = t /\ schwab[i].ts = ts /\ schwab[i].day = d
  /\ \A j \in DOMAIN schwab \ {i} : schwab[j].type = t => schwab[j].ts < ts

(* A ledger whose snapshots are of the past and whose clean reports explain. *)
SchwabInOrder(schwab, c) ==
  /\ \E R : schwab \in Seq(R)
  /\ \A i \in DOMAIN schwab : schwab[i].type \in Kinds => schwab[i].ts \in 0..c
  /\ \A i \in DOMAIN schwab : ExplainsIfClean(schwab, i)

(* The snapshots not yet appended, and what the ledger has of the others. *)
Appended(s, ts, schwab, left, d) ==
  \/ /\ left = s
     /\ OlderThan(schwab, "account", ts) /\ OlderThan(schwab, "positions", ts)
  \/ /\ left = <<s[2], s[3]>>
     /\ \E i : NewestAt(schwab, d, "account", ts, i)
     /\ OlderThan(schwab, "positions", ts)
  \/ /\ left = <<s[3]>>
     /\ \E i : NewestAt(schwab, d, "account", ts, i)
     /\ \E i : NewestAt(schwab, d, "positions", ts, i)

SyncUnderWay ==
  \E a \in AccountStates, ts \in 1..clock :
    Appended(Snapshots(a, ts), ts, ledgers.schwab, syncing, today)

(* The inductive invariant. *)
SyncInv ==
  /\ clock \in Nat /\ DOMAIN ledgers = LedgerNames
  /\ SchwabInOrder(ledgers.schwab, clock)
  /\ syncing # <<>> => SyncUnderWay

-----------------------------------------------------------------------------
LEMMA StampedIs ==
  ASSUME NEW r, NEW ts
  PROVE  LET s == Stamped(r, ts)
         IN /\ s.day = today /\ s.ts = ts
            /\ \A f \in DOMAIN r \ {"day", "ts"} : s[f] = r[f]
BY DEF Stamped

LEMMA SnapshotsAre ==
  ASSUME NEW a, NEW ts
  PROVE  LET s == Snapshots(a, ts)
         IN /\ s = <<s[1], s[2], s[3]>>
            /\ s[1].type = "account" /\ s[2].type = "positions" /\ s[3].type = "orders"
            /\ \A i \in 1..3 : s[i].ts = ts /\ s[i].day = today
BY StampedIs DEF Snapshots

LEMMA LatestIs ==
  ASSUME NEW R, NEW schwab \in Seq(R), NEW t, NEW d, NEW ts \in Int, NEW i, NewestAt(schwab, d, t, ts, i),
         \A j \in DOMAIN schwab : schwab[j].type = t => schwab[j].ts \in Int
  PROVE  LatestRecord(schwab, d, t) = schwab[i]
<1> DEFINE of == Filed(schwab, d, t)
           after(k, j) == schwab[k].ts > schwab[j].ts \/ (schwab[k].ts = schwab[j].ts /\ k < j)
           newest(k) == \A j \in of \ {k} : after(k, j)
<1>1. i \in of /\ newest(i)
  BY DEF Filed, NewestAt
<1>2. \A k \in of \ {i} : ~ newest(k)
  <2>1. ASSUME NEW k \in of \ {i} PROVE ~ after(k, i)
    BY DEF Filed, NewestAt
  <2> QED BY <1>1, <2>1
<1>3. (CHOOSE k \in of : newest(k)) = i
  BY <1>1, <1>2
<1> QED BY <1>3 DEF LatestRecord

-----------------------------------------------------------------------------
(* What a report says depends on what is in the ledger before it.          *)
LEMMA StaysExplained ==
  ASSUME NEW R, NEW schwab \in Seq(R), NEW e, NEW i \in DOMAIN schwab,
         ExplainsIfClean(schwab, i)
  PROVE  ExplainsIfClean(Append(schwab, e), i)
<1> DEFINE longer == Append(schwab, e)
           d == schwab[i].day
           before(l, t) == {j \in Filed(l, d, t) : j < i}
<1>1. DOMAIN schwab = 1..Len(schwab) /\ Len(schwab) \in Nat
      /\ DOMAIN longer = 1..(Len(schwab) + 1)
      /\ \A j \in DOMAIN schwab : longer[j] = schwab[j]
  OBVIOUS
<1>2. \A t : before(longer, t) = before(schwab, t)
  BY <1>1 DEF Filed
<1>3. \A t : \A j \in before(longer, t) : j \in DOMAIN schwab
  BY <1>1 DEF Filed
<1> HIDE DEF longer
<1>4. longer[i] = schwab[i]
  BY <1>1
<1> QED
  BY <1>1, <1>2, <1>3, <1>4 DEF ExplainsIfClean, longer

LEMMA DictOf ==
  ASSUME NEW rows, NEW places, NEW Key(_), NEW Value(_)
  PROVE  DOMAIN Dict(rows, places, Key, Value) = {Key(rows[i]) : i \in places}
BY DEF Dict

(* A report without drift has a ticket for every symbol at the broker, and *)
(* a confirmation of each that the account holds.                          *)
LEMMA NoDriftExplains ==
  ASSUME NEW schwab, Report(schwab, today).drift = {},
         NEW s \in DOMAIN BrokerPositions(schwab, today)
  PROVE  LET sent == TicketsOf(schwab, today, s)
         IN /\ sent # {}
            /\ BrokerPositions(schwab, today)[s] # 0 =>
                 \A n \in sent : \E c \in Filed(schwab, today, "confirmation") :
                   schwab[c].id = schwab[n].id
<1> DEFINE confirmed == Confirmations(schwab, today)
           broker == BrokerPositions(schwab, today)
           sent == TicketsOf(schwab, today, s)
           reasons == SymbolReasons(s, schwab, today, confirmed, broker)
<1>1. reasons = {}
  BY DEF Report
<1>2. sent # {}
  BY <1>1 DEF SymbolReasons
<1>3. ASSUME broker[s] # 0, NEW n \in sent
      PROVE  schwab[n].id \in DOMAIN confirmed
  <2>1. IntentReasons(schwab[n], confirmed, broker) = {}
    BY <1>1, <1>2 DEF SymbolReasons
  <2>2. schwab[n].symbol = s
    BY DEF TicketsOf
  <2> QED BY <1>3, <2>1, <2>2 DEF IntentReasons, Unconfirmed
<1>4. DOMAIN confirmed = {schwab[c].id : c \in Filed(schwab, today, "confirmation")}
  BY DEF Confirmations, Dict
<1> QED BY <1>2, <1>3, <1>4

LEMMA ReportExplains ==
  ASSUME NEW R, NEW schwab \in Seq(R), NEW ts \in Int, NEW i, NEW p,
         NewestAt(schwab, today, "account", ts, i), NewestAt(schwab, today, "positions", ts, p),
         \A j \in DOMAIN schwab : schwab[j].type \in Kinds => schwab[j].ts \in Int,
         NEW e, e.type = "reconciliation", e.day = today,
         e.ts = Report(schwab, today).as_of, e.drift = Report(schwab, today).drift
  PROVE  ExplainsIfClean(Append(schwab, e), Len(schwab) + 1)
<1> DEFINE longer == Append(schwab, e)
           last == Len(schwab) + 1
           before(t) == {j \in Filed(longer, today, t) : j < last}
           found == {j \in before("positions") : longer[j].ts = ts}
           held == BrokerPositions(schwab, today)
           sent(s) == {n \in before("ticket") : longer[n].symbol = s}
<1>1. DOMAIN schwab = 1..Len(schwab) /\ Len(schwab) \in Nat
      /\ DOMAIN longer = 1..last /\ longer[last] = e
      /\ \A j \in DOMAIN schwab : longer[j] = schwab[j]
  OBVIOUS
<1>2. \A t : before(t) = Filed(schwab, today, t)
  BY <1>1 DEF Filed
<1>3. LatestRecord(schwab, today, "account") = schwab[i]
      /\ LatestRecord(schwab, today, "positions") = schwab[p]
  BY LatestIs DEF Kinds
<1>4. e.ts = ts /\ held = Quantities(schwab[p].positions)
  BY <1>3 DEF Report, BrokerPositions, NewestAt
<1>5. found = {p}
  BY <1>1, <1>2 DEF NewestAt, Filed
<1>6. \A s : sent(s) = TicketsOf(schwab, today, s)
  BY <1>1, <1>2 DEF TicketsOf, Tickets, Filed
<1>7. \A j \in DOMAIN schwab : longer[j].id = schwab[j].id
  BY <1>1
<1>8. ASSUME e.drift = {}, NEW s \in DOMAIN held
      PROVE  /\ sent(s) # {}
             /\ held[s] # 0 => \A n \in sent(s) :
                  \E c \in before("confirmation") : longer[c].id = longer[n].id
  <2>1. \A t : \A c \in Filed(schwab, today, t) : c \in DOMAIN schwab
    BY DEF Filed
  <2>2. \A n \in sent(s) : n \in DOMAIN schwab
    BY <1>6, <2>1 DEF TicketsOf, Tickets
  <2> HIDE DEF longer, before, sent, held
  <2>3. LET tickets == TicketsOf(schwab, today, s)
        IN /\ tickets # {}
           /\ held[s] # 0 => \A n \in tickets : \E c \in Filed(schwab, today, "confirmation") :
                schwab[c].id = schwab[n].id
    BY <1>8, NoDriftExplains DEF held
  <2> QED BY <1>2, <1>6, <1>7, <2>1, <2>2, <2>3
<1>9. p \in DOMAIN schwab
  BY DEF NewestAt
<1>10. longer[p].positions = schwab[p].positions
  BY <1>1, <1>9
<1> HIDE DEF longer, last, before, found, held, sent
<1>11. longer[last].type = "reconciliation" /\ longer[last].drift = e.drift
       /\ longer[last].ts = ts /\ longer[last].day = today
  BY <1>1, <1>4
<1>12. p \in found
  BY <1>5
<1>13. ExplainsIfClean(longer, last)
  <2> SUFFICES ASSUME e.drift = {}
               PROVE  \E j \in found :
                        /\ found = {j}
                        /\ LET h == Quantities(longer[j].positions)
                           IN \A s \in DOMAIN h :
                                /\ sent(s) # {}
                                /\ h[s] # 0 => \A n \in sent(s) :
                                     \E c \in before("confirmation") :
                                       longer[c].id = longer[n].id
    BY <1>11 DEF ExplainsIfClean, found, before, sent
  <2> QED BY <1>4, <1>5, <1>8, <1>10, <1>12
<1> QED BY <1>13 DEF longer, last

-----------------------------------------------------------------------------
(* The steps.  Appending a record that is not a report keeps what is known *)
(* of the ledger, but for its own kind.                                    *)
LEMMA AppendKeeps ==
  ASSUME NEW R, NEW schwab \in Seq(R), NEW e, NEW t, NEW d, NEW ts, e.type # t
  PROVE  /\ OlderThan(schwab, t, ts) => OlderThan(Append(schwab, e), t, ts)
         /\ \A i : NewestAt(schwab, d, t, ts, i) => NewestAt(Append(schwab, e), d, t, ts, i)
<1>1. DOMAIN schwab = 1..Len(schwab) /\ Len(schwab) \in Nat
      /\ DOMAIN Append(schwab, e) = 1..(Len(schwab) + 1)
      /\ Append(schwab, e)[Len(schwab) + 1] = e
      /\ \A j \in DOMAIN schwab : Append(schwab, e)[j] = schwab[j]
  OBVIOUS
<1> DEFINE longer == Append(schwab, e)
<1> HIDE DEF longer
<1>2. \A j \in DOMAIN longer : j \in DOMAIN schwab \/ longer[j].type # t
  BY <1>1 DEF longer
<1>3. DOMAIN schwab \subseteq DOMAIN longer /\ \A j \in DOMAIN schwab : longer[j] = schwab[j]
  BY <1>1 DEF longer
<1>4. OlderThan(schwab, t, ts) => OlderThan(longer, t, ts)
  BY <1>2, <1>3 DEF OlderThan
<1>5. \A i : NewestAt(schwab, d, t, ts, i) => NewestAt(longer, d, t, ts, i)
  BY <1>2, <1>3 DEF NewestAt
<1> QED BY <1>4, <1>5 DEF longer

LEMMA AppendNewest ==
  ASSUME NEW R, NEW schwab \in Seq(R), NEW e, NEW t, NEW d, NEW ts, e.type = t, e.ts = ts,
         e.day = d, OlderThan(schwab, t, ts)
  PROVE  NewestAt(Append(schwab, e), d, t, ts, Len(schwab) + 1)
<1>1. DOMAIN schwab = 1..Len(schwab) /\ Len(schwab) \in Nat
      /\ DOMAIN Append(schwab, e) = 1..(Len(schwab) + 1)
      /\ Append(schwab, e)[Len(schwab) + 1] = e
      /\ \A j \in DOMAIN schwab : Append(schwab, e)[j] = schwab[j]
  OBVIOUS
<1> QED BY <1>1 DEF OlderThan, NewestAt

LEMMA AppendInOrder ==
  ASSUME NEW schwab, NEW c \in Nat, NEW e, NEW n \in {c, c + 1}, SchwabInOrder(schwab, c),
         e.type \in Kinds => e.ts \in 0..n,
         ExplainsIfClean(Append(schwab, e), Len(schwab) + 1)
  PROVE  SchwabInOrder(Append(schwab, e), n)
<1> DEFINE longer == Append(schwab, e)
<1>1. PICK R : schwab \in Seq(R)
  BY DEF SchwabInOrder
<1>2. longer \in Seq(R \cup {e})
  BY <1>1
<1>3. /\ DOMAIN schwab = 1..Len(schwab) /\ Len(schwab) \in Nat
      /\ DOMAIN longer = 1..(Len(schwab) + 1)
      /\ longer[Len(schwab) + 1] = e
      /\ \A j \in DOMAIN schwab : longer[j] = schwab[j]
  BY <1>1
<1> HIDE DEF longer
<1>4. ASSUME NEW j \in DOMAIN longer, longer[j].type \in Kinds
      PROVE  longer[j].ts \in 0..n
  <2>1. CASE j \in DOMAIN schwab
    BY <1>3, <1>4, <2>1 DEF SchwabInOrder
  <2>2. CASE j = Len(schwab) + 1
    BY <1>3, <1>4, <2>2
  <2> QED BY <1>3, <2>1, <2>2
<1>5. \A i \in DOMAIN schwab : ExplainsIfClean(longer, i)
  BY <1>1, StaysExplained DEF SchwabInOrder, longer
<1>6. ExplainsIfClean(longer, Len(schwab) + 1)
  BY DEF longer
<1>7. \A i \in DOMAIN longer : ExplainsIfClean(longer, i)
  BY <1>3, <1>5, <1>6
<1>8. SchwabInOrder(longer, n)
  BY <1>2, <1>4, <1>7 DEF SchwabInOrder
<1> QED BY <1>8 DEF longer

(* A record that is no report has nothing to explain.                      *)
LEMMA AppendPlain ==
  ASSUME NEW schwab, NEW c \in Nat, NEW e, NEW n \in {c, c + 1}, SchwabInOrder(schwab, c),
         e.type \in Kinds => e.ts \in 0..n, e.type # "reconciliation"
  PROVE  SchwabInOrder(Append(schwab, e), n)
<1>1. PICK R : schwab \in Seq(R)
  BY DEF SchwabInOrder
<1>2. ExplainsIfClean(Append(schwab, e), Len(schwab) + 1)
  BY <1>1 DEF ExplainsIfClean
<1> QED BY <1>2, AppendInOrder

LEMMA LaterInOrder ==
  ASSUME NEW schwab, NEW c \in Nat, NEW n \in {c, c + 1}, SchwabInOrder(schwab, c)
  PROVE  SchwabInOrder(schwab, n)
BY DEF SchwabInOrder

-----------------------------------------------------------------------------
LEMMA QuietStep ==
  ASSUME SyncInv, DOMAIN ledgers' = LedgerNames, ledgers'.schwab = ledgers.schwab,
         clock' \in {clock, clock + 1},
         syncing' = <<>> \/ (syncing' = syncing /\ today' = today)
  PROVE  SyncInv'
<1>1. clock \in Nat /\ clock' \in Nat
  BY DEF SyncInv
<1>2. SchwabInOrder(ledgers'.schwab, clock')
  BY LaterInOrder DEF SyncInv
<1>3. ASSUME syncing' = syncing, today' = today, syncing # <<>> PROVE SyncUnderWay'
  <2>1. PICK a \in AccountStates, ts \in 1..clock : 
          Appended(Snapshots(a, ts), ts, ledgers.schwab, syncing, today)
    BY <1>3 DEF SyncInv, SyncUnderWay
  <2>2. ts \in 1..clock'
    BY <1>1
  <2>3. Snapshots(a, ts)' = Snapshots(a, ts)
    BY <1>3 DEF Snapshots, Stamped
  <2> QED BY <1>3, <2>1, <2>2, <2>3 DEF SyncUnderWay
<1> QED BY <1>1, <1>2, <1>3 DEF SyncInv

(* A ticket or a confirmation, while no sync or one is under way.          *)
LEMMA WriteStep ==
  ASSUME SyncInv, NEW n \in LedgerNames, NEW r \in Records[n], Write(n, r)
  PROVE  SyncInv'
<1> DEFINE e == Stamped(r, clock')
<1>1. CASE n # "schwab"
  <2>1. DOMAIN ledgers' = LedgerNames /\ ledgers'.schwab = ledgers.schwab
    BY <1>1 DEF Write, SyncInv
  <2> QED BY <2>1, QuietStep DEF Write
<1>2. CASE n = "schwab"
  <2>1. e.type \in {"ticket", "confirmation"}
    BY <1>2, RecordsAssumption DEF Stamped
  <2>2. e.type # "reconciliation" /\ e.type \notin Kinds
    BY <2>1 DEF Kinds
  <2> HIDE DEF e
  <2>3. ledgers' = [ledgers EXCEPT !.schwab = Append(@, e)]
    BY <1>2 DEF Write, e
  <2>4. PICK R : ledgers.schwab \in Seq(R)
    BY DEF SyncInv, SchwabInOrder
  <2>5. DOMAIN ledgers' = LedgerNames /\ ledgers'.schwab = Append(ledgers.schwab, e)
    BY <1>2, <2>3 DEF SyncInv
  <2>6. clock' \in Nat /\ SchwabInOrder(ledgers'.schwab, clock')
    BY <2>2, <2>5, AppendPlain DEF Write, SyncInv
  <2>7. ASSUME syncing # <<>> PROVE SyncUnderWay'
    <3>1. PICK a \in AccountStates, ts \in 1..clock :
            Appended(Snapshots(a, ts), ts, ledgers.schwab, syncing, today)
      BY <2>7 DEF SyncInv, SyncUnderWay
    <3>2. ts \in 1..clock'
      BY DEF SyncInv, Write
    <3>3. Appended(Snapshots(a, ts), ts, Append(ledgers.schwab, e), syncing, today)
      BY <2>2, <2>4, <3>1, AppendKeeps DEF Appended, Kinds
    <3>4. syncing' = syncing /\ today' = today
      BY DEF Write
    <3>5. Snapshots(a, ts)' = Snapshots(a, ts)
      BY <3>4 DEF Snapshots, Stamped
    <3> QED BY <2>5, <3>2, <3>3, <3>4, <3>5 DEF SyncUnderWay
  <2> QED BY <2>5, <2>6, <2>7 DEF SyncInv, Write
<1> QED BY <1>1, <1>2

LEMMA SyncStep ==
  ASSUME SyncInv, NEW a \in AccountStates, Sync(a)
  PROVE  SyncInv'
<1>1. SchwabInOrder(ledgers'.schwab, clock')
  BY LaterInOrder DEF Sync, SyncInv
<1>2. clock' \in 1..clock' /\ clock \in Nat /\ clock' = clock + 1
  BY DEF Sync, SyncInv
<1>3. \A t \in Kinds : OlderThan(ledgers.schwab, t, clock')
  BY <1>2 DEF SyncInv, SchwabInOrder, OlderThan
<1>4. Appended(syncing', clock', ledgers'.schwab, syncing', today')
  BY <1>3 DEF Sync, Appended, Kinds
<1>5. syncing' = Snapshots(a, clock)'
  BY DEF Sync, Snapshots, Stamped
<1> QED BY <1>1, <1>2, <1>4, <1>5 DEF Sync, SyncInv, SyncUnderWay

LEMMA AppendSnapshotStep ==
  ASSUME SyncInv, AppendSnapshot
  PROVE  SyncInv'
<1> DEFINE schwab == ledgers.schwab
           e == Head(syncing)
           longer == Append(schwab, e)
<1>1. PICK a \in AccountStates, ts \in 1..clock :
        Appended(Snapshots(a, ts), ts, schwab, syncing, today)
  BY DEF SyncInv, AppendSnapshot, SyncUnderWay
<1>2. PICK R : schwab \in Seq(R)
  BY DEF SyncInv, SchwabInOrder
<1> DEFINE s == Snapshots(a, ts)
<1>3. /\ s = <<s[1], s[2], s[3]>>
      /\ s[1].type = "account" /\ s[2].type = "positions" /\ s[3].type = "orders"
      /\ \A i \in 1..3 : s[i].ts = ts /\ s[i].day = today
  BY SnapshotsAre
<1>4. PICK x, y, z : /\ s = <<x, y, z>> /\ s[1] = x /\ s[2] = y /\ s[3] = z
                     /\ x.type = "account" /\ y.type = "positions" /\ z.type = "orders"
                     /\ x.ts = ts /\ y.ts = ts /\ z.ts = ts
                     /\ x.day = today /\ y.day = today /\ z.day = today
  BY <1>3
<1>5. clock \in Nat /\ clock' = clock /\ today' = today /\ ts \in Nat /\ ts \in 0..clock
  BY DEF AppendSnapshot, SyncInv
<1>6. Snapshots(a, ts)' = Snapshots(a, ts)
  BY <1>5 DEF Snapshots, Stamped
<1> HIDE DEF s
<1>7. ASSUME e.type # "reconciliation", e.ts = ts
      PROVE  SchwabInOrder(longer, clock)
  <2> HIDE DEF e
  <2> QED BY <1>5, <1>7, AppendPlain DEF SyncInv
<1>8. "schwab" \in DOMAIN ledgers /\ DOMAIN ledgers' = LedgerNames
  BY RecordsAssumption DEF SyncInv, AppendSnapshot, LedgerNames
<1>9. Len(syncing) # 1 => ledgers'.schwab = longer
  BY <1>8 DEF AppendSnapshot
<1>10. CASE /\ syncing = s
           /\ OlderThan(schwab, "account", ts) /\ OlderThan(schwab, "positions", ts)
  <2>1. e = x /\ Tail(syncing) = <<y, z>> /\ Len(syncing) # 1
    BY <1>4, <1>10
  <2>2. SchwabInOrder(longer, clock) /\ ledgers'.schwab = longer
    BY <1>4, <1>7, <1>9, <2>1
  <2> HIDE DEF e
  <2>3. NewestAt(longer, today, "account", ts, Len(schwab) + 1)
    BY <1>2, <1>4, <1>10, <2>1, AppendNewest
  <2>4. OlderThan(longer, "positions", ts)
    BY <1>2, <1>4, <1>10, <2>1, AppendKeeps
  <2>5. syncing' = <<y, z>>
    BY <2>1 DEF AppendSnapshot
  <2>6. Appended(s, ts, longer, syncing', today)
    BY <1>4, <2>3, <2>4, <2>5 DEF Appended
  <2> QED BY <1>5, <1>6, <1>8, <2>2, <2>6 DEF SyncInv, SyncUnderWay, s
<1>11. CASE /\ syncing = <<s[2], s[3]>>
           /\ \E i : NewestAt(schwab, today, "account", ts, i)
           /\ OlderThan(schwab, "positions", ts)
  <2>1. e = y /\ Tail(syncing) = <<z>> /\ Len(syncing) # 1
    BY <1>4, <1>11
  <2>2. SchwabInOrder(longer, clock) /\ ledgers'.schwab = longer
    BY <1>4, <1>7, <1>9, <2>1
  <2> HIDE DEF e
  <2>3. NewestAt(longer, today, "positions", ts, Len(schwab) + 1)
    BY <1>2, <1>4, <1>11, <2>1, AppendNewest
  <2>4. \E i : NewestAt(longer, today, "account", ts, i)
    BY <1>2, <1>4, <1>11, <2>1, AppendKeeps
  <2>5. syncing' = <<z>>
    BY <2>1 DEF AppendSnapshot
  <2>6. Appended(s, ts, longer, syncing', today)
    BY <1>4, <2>3, <2>4, <2>5 DEF Appended
  <2> QED BY <1>5, <1>6, <1>8, <2>2, <2>6 DEF SyncInv, SyncUnderWay, s
<1>12. CASE /\ syncing = <<s[3]>>
            /\ \E i : NewestAt(schwab, today, "account", ts, i)
            /\ \E i : NewestAt(schwab, today, "positions", ts, i)
  <2>1. e = z /\ Tail(syncing) = <<>> /\ Len(syncing) = 1
    BY <1>4, <1>12
  <2>2. syncing' = <<>>
    BY <2>1 DEF AppendSnapshot
  <2>3. ledgers' = [ledgers EXCEPT !.schwab = Reconciled(longer)]
    BY <2>1 DEF AppendSnapshot
  <2>4. PICK i, p : NewestAt(longer, today, "account", ts, i)
                    /\ NewestAt(longer, today, "positions", ts, p)
    <3> HIDE DEF e
    <3> QED BY <1>2, <1>4, <1>12, <2>1, AppendKeeps
  <2>5. SchwabInOrder(longer, clock)
    BY <1>4, <1>7, <2>1
  <2>6. SchwabInOrder(Reconciled(longer), clock)
    <3> HIDE DEF longer
    <3>1. CASE ~ Reconcilable(longer, today)
      BY <2>5, <3>1 DEF Reconciled
    <3>2. CASE Reconcilable(longer, today)
      <4> DEFINE report == Report(longer, today)
                 r == [day |-> today, ts |-> report.as_of, type |-> "reconciliation",
                       drift |-> report.drift, counts |-> report.counts]
      <4>1. Reconciled(longer) = Append(longer, r)
        BY <3>2 DEF Reconciled
      <4>2. PICK Q : longer \in Seq(Q)
        BY <2>5 DEF SchwabInOrder
      <4>3. \A j \in DOMAIN longer : longer[j].type \in Kinds => longer[j].ts \in Int
        BY <1>5, <2>5 DEF SchwabInOrder
      <4>4. r.type = "reconciliation" /\ r.day = today /\ r.ts = report.as_of
            /\ r.drift = report.drift
        OBVIOUS
      <4> HIDE DEF r
      <4>5. ExplainsIfClean(Append(longer, r), Len(longer) + 1)
        BY <1>5, <2>4, <4>2, <4>3, <4>4, ReportExplains
      <4>6. r.type \notin Kinds
        BY <4>4 DEF Kinds
      <4> QED BY <1>5, <2>5, <4>1, <4>5, <4>6, AppendInOrder
    <3> QED BY <3>1, <3>2
  <2>7. ledgers'.schwab = Reconciled(longer)
    BY <1>8, <2>3
  <2> QED BY <1>5, <1>8, <2>2, <2>6, <2>7 DEF SyncInv
<1> QED BY <1>1, <1>10, <1>11, <1>12 DEF Appended, s

LEMMA SyncInvInit == LedgersEmpty => SyncInv
<1> SUFFICES ASSUME LedgersEmpty PROVE SyncInv
  OBVIOUS
<1>1. "schwab" \in LedgerNames
  BY RecordsAssumption DEF LedgerNames
<1>2. ledgers.schwab = <<>> /\ DOMAIN ledgers = LedgerNames
  BY <1>1 DEF LedgersEmpty
<1>3. <<>> \in Seq({}) /\ DOMAIN <<>> = {}
  OBVIOUS
<1> QED BY <1>2, <1>3 DEF LedgersEmpty, SyncInv, SchwabInOrder

LEMMA SyncInvNext == SyncInv /\ [LedgersGrow]_platform_vars => SyncInv'
<1> SUFFICES ASSUME SyncInv, [LedgersGrow]_platform_vars PROVE SyncInv'
  OBVIOUS
<1>0. clock \in {clock, clock + 1} /\ DOMAIN ledgers = LedgerNames
  BY DEF SyncInv
<1>1. CASE \E n \in LedgerNames : \E r \in Records[n] : Write(n, r)
  BY <1>1, WriteStep
<1>2. CASE \E n \in {"raec", "coord"} : \E r \in Records[n] : DieBetween(n, r)
  BY <1>0, <1>2, QuietStep DEF DieBetween
<1>3. CASE \E a \in AccountStates : Sync(a)
  BY <1>3, SyncStep
<1>4. CASE AppendSnapshot
  BY <1>4, AppendSnapshotStep
<1>5. CASE SyncDies
  BY <1>0, <1>5, QuietStep DEF SyncDies
<1>6. CASE NextDay
  BY <1>0, <1>6, QuietStep DEF NextDay
<1>7. CASE \E p \in Quotes : Quote(p)
  BY <1>0, <1>7, QuietStep DEF Quote
<1>8. CASE \E q \in QueriesOverTime \cup QueriesNow : Ask(q)
  BY <1>0, <1>8, QuietStep DEF Ask
<1>9. CASE Answered
  BY <1>0, <1>9, QuietStep DEF Answered
<1>10. CASE UNCHANGED platform_vars
  BY <1>0, <1>10, QuietStep DEF platform_vars
<1> QED
  BY <1>1, <1>2, <1>3, <1>4, <1>5, <1>6, <1>7, <1>8, <1>9, <1>10 DEF LedgersGrow

(* Whatever is appended to the ledgers and however syncs interleave with    *)
(* it or die, a report without drift explains the account of its own sync.  *)
THEOREM CleanReportsExplain == AnswersSpec => []CleanReportExplains
<1>1. SyncInv => CleanReportExplains
  BY DEF SyncInv, SchwabInOrder, CleanReportExplains
<1> QED BY <1>1, SyncInvInit, SyncInvNext, PTL DEF AnswersSpec

-----------------------------------------------------------------------------
(* Rows made of many records each, joined in their order: each row has its *)
(* place in the table, and each place its row.                             *)

(* The words of a sequence of sequences: each by where it stands. *)
WordsOf(seqs, n) == UNION {{i} \X DOMAIN seqs[i] : i \in 1..n}

(* The recursion that joins the first sequences. *)
IsFlat(seqs, n, f) ==
  f = [i \in 1..n |-> IF i = 1 THEN seqs[i] ELSE f[i - 1] \o seqs[i]]

(* Every word of seqs up to n has its place in s, and every place its word. *)
Placed(seqs, n, s) ==
  \E h \in Bijection(WordsOf(seqs, n), DOMAIN s) :
    \A w \in WordsOf(seqs, n) : s[h[w]] = seqs[w[1]][w[2]]

LEMMA FlatExists ==
  ASSUME NEW seqs, NEW N \in Nat
  PROVE  \E f : IsFlat(seqs, N, f)
<1> DEFINE P == {n \in 0..N : \E f : IsFlat(seqs, n, f)}
<1>1. 0 \in P
  <2> DEFINE e == [i \in 1..0 |-> seqs[i]]
  <2>1. 1..0 = {}
    OBVIOUS
  <2>2. e = [i \in 1..0 |-> IF i = 1 THEN seqs[i] ELSE e[i - 1] \o seqs[i]]
    BY <2>1
  <2>3. IsFlat(seqs, 0, e)
    BY <2>2 DEF IsFlat
  <2> QED BY <2>3
<1>2. ASSUME NEW n \in 1..N, n - 1 \in P PROVE n \in P
  <2>1. PICK f : IsFlat(seqs, n - 1, f)
    BY <1>2
  <2> DEFINE g == [i \in 1..n |-> IF i < n THEN f[i]
                                  ELSE IF i = 1 THEN seqs[i] ELSE f[i - 1] \o seqs[i]]
  <2>2. \A i \in 1..(n - 1) : f[i] = IF i = 1 THEN seqs[i] ELSE f[i - 1] \o seqs[i]
    BY <2>1 DEF IsFlat
  <2>3. ASSUME NEW i \in 1..n
        PROVE  g[i] = IF i = 1 THEN seqs[i] ELSE g[i - 1] \o seqs[i]
    <3>1. CASE i < n
      <4>1. i \in 1..(n - 1) /\ g[i] = f[i]
        BY <3>1
      <4>2. i # 1 => g[i - 1] = f[i - 1]
        BY <3>1
      <4> QED BY <2>2, <4>1, <4>2
    <3>2. CASE i = n
      <4>1. i # 1 => g[i - 1] = f[i - 1]
        BY <3>2
      <4>2. g[i] = IF i = 1 THEN seqs[i] ELSE f[i - 1] \o seqs[i]
        BY <3>2
      <4> HIDE DEF g
      <4> QED BY <4>1, <4>2
    <3> QED BY <3>1, <3>2
  <2>4. g = [i \in 1..n |-> IF i = 1 THEN seqs[i] ELSE g[i - 1] \o seqs[i]]
    <3>1. g = [i \in 1..n |-> g[i]]
      OBVIOUS
    <3> HIDE DEF g
    <3> QED BY <2>3, <3>1
  <2>5. IsFlat(seqs, n, g)
    <3> HIDE DEF g
    <3> QED BY <2>4 DEF IsFlat
  <2> QED BY <2>5
<1>3. 0..N \subseteq P
  <2> HIDE DEF P
  <2> QED BY <1>1, <1>2, UpTo
<1> QED BY <1>3

(* One sequence more. *)
LEMMA PlacedNext ==
  ASSUME NEW R, NEW seqs, NEW n \in Nat \ {0}, NEW s \in Seq(R), seqs[n] \in Seq(R),
         Placed(seqs, n - 1, s)
  PROVE  s \o seqs[n] \in Seq(R) /\ Placed(seqs, n, s \o seqs[n])
<1> DEFINE t == seqs[n]
           W == WordsOf(seqs, n - 1)
           V == WordsOf(seqs, n)
           st == s \o t
<1>1. PICK h \in Bijection(W, DOMAIN s) : \A w \in W : s[h[w]] = seqs[w[1]][w[2]]
  BY DEF Placed
<1> DEFINE g == [w \in V |-> IF w[1] < n THEN h[w] ELSE Len(s) + w[2]]
<1>2. /\ st \in Seq(R) /\ DOMAIN s = 1..Len(s) /\ DOMAIN t = 1..Len(t)
      /\ Len(s) \in Nat /\ Len(t) \in Nat
      /\ DOMAIN st = 1..(Len(s) + Len(t))
      /\ \A k \in 1..Len(s) : st[k] = s[k]
      /\ \A k \in 1..Len(t) : st[Len(s) + k] = t[k]
  <2> HIDE DEF t
  <2>1. t \in Seq(R)
    BY DEF t
  <2> QED BY <2>1
<1>3. \A w : w \in V <=> w \in W \/ w \in {n} \X (1..Len(t))
  <2>1. 1..n = 1..(n - 1) \cup {n}
    OBVIOUS
  <2> HIDE DEF t
  <2>2. DOMAIN seqs[n] = 1..Len(t)
    BY <1>2 DEF t
  <2> QED BY <2>1, <2>2 DEF WordsOf
<1>4. \A w \in W : w[1] \in 1..(n - 1) /\ w[1] < n /\ w = <<w[1], w[2]>>
  BY DEF WordsOf
<1> HIDE DEF W, V, st, t
<1>5. /\ h \in [W -> 1..Len(s)]
      /\ \A v, w \in W : h[v] = h[w] => v = w
      /\ \A k \in 1..Len(s) : \E w \in W : h[w] = k
  BY <1>1, <1>2 DEF Bijection, Injection, Surjection, IsInjective
<1>6. \A w \in W : w \in V /\ g[w] = h[w] /\ g[w] \in 1..Len(s)
  BY <1>3, <1>4, <1>5
<1>7. \A k \in 1..Len(t) : <<n, k>> \in V /\ g[<<n, k>>] = Len(s) + k
  BY <1>3
<1> HIDE DEF g
<1>8. \A w \in V : w \in W \/ \E k \in 1..Len(t) : w = <<n, k>>
  BY <1>3
<1>9. g \in [V -> 1..(Len(s) + Len(t))]
  <2>1. ASSUME NEW w \in V PROVE g[w] \in 1..(Len(s) + Len(t))
    <3>1. CASE w \in W
      BY <1>2, <1>6, <3>1
    <3>2. CASE \E k \in 1..Len(t) : w = <<n, k>>
      BY <1>2, <1>7, <3>2
    <3> QED BY <1>8, <3>1, <3>2
  <2> QED BY <2>1 DEF g
<1>10. ASSUME NEW v \in V, NEW w \in V, g[v] = g[w] PROVE v = w
  <2>1. CASE v \in W /\ w \in W
    BY <1>5, <1>6, <1>10, <2>1
  <2>2. CASE v \in W /\ \E k \in 1..Len(t) : w = <<n, k>>
    BY <1>2, <1>6, <1>7, <1>10, <2>2
  <2>3. CASE w \in W /\ \E k \in 1..Len(t) : v = <<n, k>>
    BY <1>2, <1>6, <1>7, <1>10, <2>3
  <2>4. CASE (\E k \in 1..Len(t) : v = <<n, k>>) /\ (\E k \in 1..Len(t) : w = <<n, k>>)
    BY <1>2, <1>7, <1>10, <2>4
  <2> QED BY <1>8, <2>1, <2>2, <2>3, <2>4
<1>11. ASSUME NEW k \in 1..(Len(s) + Len(t)) PROVE \E w \in V : g[w] = k
  <2>1. CASE k \in 1..Len(s)
    BY <1>5, <1>6, <2>1
  <2>2. CASE k \notin 1..Len(s)
    <3>1. k - Len(s) \in 1..Len(t) /\ Len(s) + (k - Len(s)) = k
      BY <1>2, <2>2
    <3> QED BY <1>7, <3>1
  <2> QED BY <2>1, <2>2
<1>12. g \in Bijection(V, DOMAIN st)
  BY <1>2, <1>9, <1>10, <1>11 DEF Bijection, Injection, Surjection, IsInjective
<1>13. ASSUME NEW w \in V PROVE st[g[w]] = seqs[w[1]][w[2]]
  <2>1. CASE w \in W
    <3>1. g[w] = h[w] /\ h[w] \in 1..Len(s)
      BY <1>5, <1>6, <2>1
    <3>2. st[g[w]] = s[h[w]]
      BY <1>2, <3>1
    <3> QED BY <1>1, <2>1, <3>2 DEF W
  <2>2. CASE \E k \in 1..Len(t) : w = <<n, k>>
    <3>1. PICK k \in 1..Len(t) : w = <<n, k>>
      BY <2>2
    <3>2. st[g[w]] = t[k]
      BY <1>2, <1>7, <3>1
    <3> QED BY <3>1, <3>2 DEF t
  <2> QED BY <1>8, <2>1, <2>2
<1>14. Placed(seqs, n, st)
  BY <1>12, <1>13 DEF Placed, V
<1> QED BY <1>2, <1>14 DEF st, t

LEMMA FlatPlaces ==
  ASSUME NEW R, NEW seqs \in Seq(Seq(R))
  PROVE  FlattenSeq(seqs) \in Seq(R) /\ Placed(seqs, Len(seqs), FlattenSeq(seqs))
<1> DEFINE N == Len(seqs)
<1>0. N \in Nat /\ DOMAIN seqs = 1..N /\ \A i \in 1..N : seqs[i] \in Seq(R)
  OBVIOUS
<1>1. Placed(seqs, 0, <<>>) /\ <<>> \in Seq(R)
  <2>1. WordsOf(seqs, 0) = {} /\ DOMAIN <<>> = {}
    <3>1. 1..0 = {}
      OBVIOUS
    <3> QED BY <3>1 DEF WordsOf
  <2>2. [x \in {} |-> x] \in Bijection({}, {})
    BY DEF Bijection, Injection, Surjection, IsInjective
  <2>3. <<>> \in Seq(R)
    OBVIOUS
  <2> QED BY <2>1, <2>2, <2>3 DEF Placed
<1>2. CASE N = 0
  <2>1. seqs = <<>>
    BY <1>2
  <2>2. FlattenSeq(seqs) = seqs
    BY <1>2 DEF FlattenSeq
  <2> QED BY <1>1, <1>2, <2>1, <2>2
<1>3. CASE N # 0
  <2> DEFINE flat == CHOOSE f : IsFlat(seqs, N, f)
  <2>1. IsFlat(seqs, N, flat)
    BY <1>0, FlatExists
  <2>2. FlattenSeq(seqs) = flat[N]
    BY <1>3 DEF FlattenSeq, IsFlat
  <2> HIDE DEF flat, N
  <2>3. \A i \in 1..N : flat[i] = IF i = 1 THEN seqs[i] ELSE flat[i - 1] \o seqs[i]
    BY <2>1 DEF IsFlat
  <2> DEFINE P == {n \in 0..N : n # 0 => flat[n] \in Seq(R) /\ Placed(seqs, n, flat[n])}
  <2>4. 0 \in P
    BY <1>0
  <2>5. ASSUME NEW n \in 1..N, n - 1 \in P PROVE n \in P
    <3>1. seqs[n] \in Seq(R) /\ n \in Nat \ {0}
      BY <1>0
    <3>2. CASE n = 1
      <4>1. flat[n] = <<>> \o seqs[n]
        BY <2>3, <3>1, <3>2
      <4>2. n - 1 = 0
        BY <3>2
      <4>3. <<>> \o seqs[n] \in Seq(R) /\ Placed(seqs, n, <<>> \o seqs[n])
        BY <1>1, <3>1, <4>2, PlacedNext
      <4> QED BY <4>1, <4>3
    <3>3. CASE n # 1
      <4>1. flat[n - 1] \in Seq(R) /\ Placed(seqs, n - 1, flat[n - 1])
        BY <2>5, <3>3
      <4>2. flat[n] = flat[n - 1] \o seqs[n]
        BY <2>3, <3>3
      <4>3. flat[n - 1] \o seqs[n] \in Seq(R) /\ Placed(seqs, n, flat[n - 1] \o seqs[n])
        BY <3>1, <4>1, PlacedNext
      <4>4. n \in 0..N
        BY <1>0
      <4>5. flat[n] \in Seq(R) /\ Placed(seqs, n, flat[n])
        BY <4>2, <4>3
      <4> QED BY <4>4, <4>5
    <3> QED BY <3>2, <3>3
  <2>6. 0..N \subseteq P
    <3> HIDE DEF P
    <3> QED BY <1>0, <2>4, <2>5, UpTo
  <2>7. N \in P
    BY <1>0, <2>6
  <2> QED BY <1>3, <2>2, <2>7 DEF N
<1> QED BY <1>2, <1>3

-----------------------------------------------------------------------------
(* Buys and sells, matched by their ranks                                  *)

(* The order of fills is total. *)
FillsTimed(rows) ==
  /\ DOMAIN rows \subseteq Nat
  /\ \A i \in DOMAIN rows : rows[i].filled_at \in Nat

LEMMA FillsInOrder ==
  ASSUME NEW rows, FillsTimed(rows),
         NEW i \in DOMAIN rows, NEW j \in DOMAIN rows, NEW k \in DOMAIN rows
  PROVE  /\ NoLater(rows, i, j) \/ NoLater(rows, j, i)
         /\ NoLater(rows, i, j) /\ NoLater(rows, j, i) => i = j
         /\ NoLater(rows, i, j) /\ NoLater(rows, j, k) => NoLater(rows, i, k)
<1> DEFINE a == rows[i].filled_at
           b == rows[j].filled_at
           c == rows[k].filled_at
<1>1. i \in Nat /\ j \in Nat /\ k \in Nat /\ a \in Nat /\ b \in Nat /\ c \in Nat
  BY DEF FillsTimed
<1>2. /\ NoLater(rows, i, j) <=> IF a = b THEN i <= j ELSE b = 0 \/ (a # 0 /\ a < b)
      /\ NoLater(rows, j, i) <=> IF b = a THEN j <= i ELSE a = 0 \/ (b # 0 /\ b < a)
      /\ NoLater(rows, j, k) <=> IF b = c THEN j <= k ELSE c = 0 \/ (b # 0 /\ b < c)
      /\ NoLater(rows, i, k) <=> IF a = c THEN i <= k ELSE c = 0 \/ (a # 0 /\ a < c)
  BY DEF NoLater
<1> HIDE DEF a, b, c
<1> QED BY <1>1, <1>2

(* Counting along a set of fills reaches each number up to its size once. *)
LEMMA RanksCount ==
  ASSUME NEW rows, FillsTimed(rows), NEW T, T \subseteq DOMAIN rows, IsFiniteSet(T)
  PROVE  [i \in T |-> Cardinality({j \in T : NoLater(rows, j, i)})]
           \in Bijection(T, 1..Cardinality(T))
<1> DEFINE upto(i) == {j \in T : NoLater(rows, j, i)}
           r == [i \in T |-> Cardinality(upto(i))]
           n == Cardinality(T)
<1>1. n \in Nat /\ IsFiniteSet(1..n) /\ Cardinality(1..n) = n
  <2>1. n \in Nat
    BY FS_CardinalityType
  <2> HIDE DEF n
  <2> QED BY <2>1, FS_Interval
<1>2. ASSUME NEW i \in T
      PROVE  /\ IsFiniteSet(upto(i)) /\ Cardinality(upto(i)) \in Nat
             /\ Cardinality(upto(i)) <= n /\ Cardinality(upto(i)) # 0
  <2>1. upto(i) \in SUBSET T /\ i \in upto(i)
    BY FillsInOrder
  <2> HIDE DEF upto
  <2>2. IsFiniteSet(upto(i)) /\ Cardinality(upto(i)) <= n
    BY <2>1, FS_Subset
  <2> QED BY <2>1, <2>2, FS_CardinalityType, FS_EmptySet
<1>3. ASSUME NEW i \in T, NEW j \in T, NoLater(rows, i, j), i # j
      PROVE  Cardinality(upto(i)) # Cardinality(upto(j))
  <2>1. \A k \in T : NoLater(rows, k, i) => NoLater(rows, k, j)
    BY <1>3, FillsInOrder
  <2>2. NoLater(rows, j, j) /\ ~NoLater(rows, j, i)
    BY <1>3, FillsInOrder
  <2>3. upto(i) \in SUBSET upto(j) /\ j \in upto(j) /\ j \notin upto(i)
    BY <2>1, <2>2
  <2>4. IsFiniteSet(upto(j))
    BY <1>2
  <2> HIDE DEF upto
  <2> QED BY <2>3, <2>4, FS_Subset
<1> HIDE DEF upto, n
<1>4. r \in [T -> 1..n]
  <2>1. \A i \in T : Cardinality(upto(i)) \in 1..n
    BY <1>1, <1>2
  <2> QED BY <2>1
<1>5. \A i, j \in T : r[i] = r[j] => i = j
  <2> SUFFICES ASSUME NEW i \in T, NEW j \in T, r[i] = r[j], i # j PROVE FALSE
    OBVIOUS
  <2>1. NoLater(rows, i, j) \/ NoLater(rows, j, i)
    BY FillsInOrder
  <2> QED BY <1>3, <2>1
<1> HIDE DEF r
<1>6. r \in Injection(T, 1..n)
  BY <1>4, <1>5 DEF Injection, IsInjective
<1>7. r \in Surjection(T, 1..n)
  BY <1>1, <1>6, FS_Injection DEF n
<1> QED BY <1>6, <1>7 DEF Bijection, r, upto, n

(* The orders filled are rows of the table. *)
LEMMA FillsAre ==
  ASSUME NEW R, NEW rows \in Seq(R), NEW s
  PROVE  /\ Buys(rows, s) \subseteq DOMAIN rows /\ Sells(rows, s) \subseteq DOMAIN rows
         /\ IsFiniteSet(Buys(rows, s)) /\ IsFiniteSet(Sells(rows, s))
         /\ DOMAIN rows \subseteq Nat
<1>1. DOMAIN rows = 1..Len(rows) /\ Len(rows) \in Nat
  OBVIOUS
<1>2. IsFiniteSet(DOMAIN rows) /\ DOMAIN rows \subseteq Nat
  BY <1>1, FS_Interval
<1>3. Buys(rows, s) \in SUBSET DOMAIN rows /\ Sells(rows, s) \in SUBSET DOMAIN rows
  BY DEF Buys, Sells, Fills
<1> QED BY <1>2, <1>3, FS_Subset

(* Places of a symbol differ in their ranks. *)
LEMMA RanksDiffer ==
  ASSUME NEW rows, FillsTimed(rows),
         NEW B, B \subseteq DOMAIN rows, IsFiniteSet(B), NEW b \in B, NEW c \in B,
         rows[b].symbol = rows[c].symbol, Rank(rows, B, b) = Rank(rows, B, c)
  PROVE  b = c
<1> DEFINE Y == OfSymbol(rows, B, rows[b].symbol)
           q == [i \in Y |-> Cardinality({j \in Y : NoLater(rows, j, i)})]
<1>1. Y \in SUBSET B /\ b \in Y /\ c \in Y
  BY DEF OfSymbol
<1>2. Rank(rows, B, b) = q[b] /\ Rank(rows, B, c) = q[c]
  BY <1>1 DEF Rank
<1> HIDE DEF Y
<1>3. IsFiniteSet(Y) /\ Y \subseteq DOMAIN rows
  BY <1>1, FS_Subset
<1>4. q \in Bijection(Y, 1..Cardinality(Y))
  BY <1>3, RanksCount
<1> HIDE DEF q
<1> QED BY <1>1, <1>2, <1>4 DEF Bijection, Injection, IsInjective

(* Where as many were bought as sold, each place of one side has one place *)
(* of the other with its symbol and its rank.                              *)
LEMMA RanksMeet ==
  ASSUME NEW rows, FillsTimed(rows),
         NEW A, A \subseteq DOMAIN rows, IsFiniteSet(A),
         NEW B, B \subseteq DOMAIN rows, IsFiniteSet(B),
         \A sym \in {rows[i].symbol : i \in DOMAIN rows} :
           Cardinality(OfSymbol(rows, A, sym)) = Cardinality(OfSymbol(rows, B, sym)),
         NEW a \in A
  PROVE  \E b \in B : rows[a].symbol = rows[b].symbol /\ Rank(rows, A, a) = Rank(rows, B, b)
<1> DEFINE sym == rows[a].symbol
           X == OfSymbol(rows, A, sym)
           Y == OfSymbol(rows, B, sym)
           p == [i \in X |-> Cardinality({j \in X : NoLater(rows, j, i)})]
           q == [i \in Y |-> Cardinality({j \in Y : NoLater(rows, j, i)})]
<1>1. X \in SUBSET A /\ Y \in SUBSET B /\ a \in X
  BY DEF OfSymbol
<1>2. Cardinality(X) = Cardinality(Y)
  OBVIOUS
<1>3. Rank(rows, A, a) = p[a]
  BY <1>1 DEF Rank
<1>4. \A b \in Y : /\ b \in B /\ rows[a].symbol = rows[b].symbol
                  /\ Rank(rows, B, b) = q[b]
  BY DEF Rank, OfSymbol
<1> HIDE DEF X, Y
<1>5. IsFiniteSet(X) /\ IsFiniteSet(Y) /\ X \subseteq DOMAIN rows /\ Y \subseteq DOMAIN rows
  BY <1>1, FS_Subset
<1>6. p \in Bijection(X, 1..Cardinality(X)) /\ q \in Bijection(Y, 1..Cardinality(Y))
  BY <1>5, RanksCount
<1> HIDE DEF p, q
<1>7. p[a] \in 1..Cardinality(Y)
  BY <1>1, <1>2, <1>6 DEF Bijection, Injection
<1>8. \E b \in Y : q[b] = p[a]
  BY <1>6, <1>7 DEF Bijection, Surjection
<1> QED BY <1>3, <1>4, <1>8

LEMMA FlatProfit ==
  ASSUME NEW R, NEW rows \in Seq(R), \A i \in DOMAIN rows : rows[i].price \in Int,
         FillsTimed(rows), NEW s, Flat(rows, s)
  PROVE  /\ OpenBuys(rows, s) = {}
         /\ SumOf([p \in Pairs(rows, s) |-> Profit(rows, p)])
              = SumOf([i \in Sells(rows, s) |-> rows[i].price])
                - SumOf([i \in Buys(rows, s) |-> rows[i].price])
<1> DEFINE B == Buys(rows, s)
           S == Sells(rows, s)
           D == Pairs(rows, s)
           price == [i \in DOMAIN rows |-> rows[i].price]
<1>1. /\ B \subseteq DOMAIN rows /\ S \subseteq DOMAIN rows
      /\ IsFiniteSet(B) /\ IsFiniteSet(S) /\ DOMAIN rows \subseteq Nat
  BY FillsAre
<1>2. \A sym \in {rows[i].symbol : i \in DOMAIN rows} :
        Cardinality(OfSymbol(rows, B, sym)) = Cardinality(OfSymbol(rows, S, sym))
  BY DEF Flat, Symbols, Column, Symbol
<1>3. \A p : p \in D <=> /\ p \in B \X S
                        /\ rows[p[1]].symbol = rows[p[2]].symbol
                        /\ Rank(rows, B, p[1]) = Rank(rows, S, p[2])
  BY Zenon DEF Pairs
<1>4. \A p : p \in D => p \in B \X S
  BY <1>3
<1>5. OpenBuys(rows, s) = {b \in B : \A p \in D : p[1] # b}
  BY DEF OpenBuys
<1> HIDE DEF B, S, D
<1>7. \A b \in B : \E p \in D : p[1] = b
  <2> TAKE b \in B
  <2>1. PICK c \in S : rows[b].symbol = rows[c].symbol /\ Rank(rows, B, b) = Rank(rows, S, c)
    BY <1>1, <1>2, RanksMeet
  <2>2. <<b, c>> \in D
    BY <1>3, <2>1
  <2> QED BY <2>2
<1>8. \A c \in S : \E p \in D : p[2] = c
  <2> TAKE c \in S
  <2>1. PICK b \in B : rows[c].symbol = rows[b].symbol /\ Rank(rows, S, c) = Rank(rows, B, b)
    BY <1>1, <1>2, RanksMeet
  <2>2. <<b, c>> \in D
    BY <1>3, <2>1
  <2> QED BY <2>2
<1>9. ASSUME NEW p \in D, NEW q \in D, p[1] = q[1] PROVE p = q
  <2>1. /\ p \in B \X S /\ q \in B \X S
        /\ rows[p[1]].symbol = rows[p[2]].symbol /\ rows[q[1]].symbol = rows[q[2]].symbol
        /\ Rank(rows, B, p[1]) = Rank(rows, S, p[2])
        /\ Rank(rows, B, q[1]) = Rank(rows, S, q[2])
    BY <1>3
  <2>2. /\ p[2] \in S /\ q[2] \in S /\ rows[p[2]].symbol = rows[q[2]].symbol
        /\ Rank(rows, S, p[2]) = Rank(rows, S, q[2])
    BY <1>9, <2>1
  <2>3. p[2] = q[2]
    BY <1>1, <2>2, RanksDiffer
  <2> QED BY <1>9, <2>1, <2>3
<1>10. ASSUME NEW p \in D, NEW q \in D, p[2] = q[2] PROVE p = q
  <2>1. /\ p \in B \X S /\ q \in B \X S
        /\ rows[p[1]].symbol = rows[p[2]].symbol /\ rows[q[1]].symbol = rows[q[2]].symbol
        /\ Rank(rows, B, p[1]) = Rank(rows, S, p[2])
        /\ Rank(rows, B, q[1]) = Rank(rows, S, q[2])
    BY <1>3
  <2>2. /\ p[1] \in B /\ q[1] \in B /\ rows[p[1]].symbol = rows[q[1]].symbol
        /\ Rank(rows, B, p[1]) = Rank(rows, B, q[1])
    BY <1>10, <2>1
  <2>3. p[1] = q[1]
    BY <1>1, <2>2, RanksDiffer
  <2> QED BY <1>10, <2>1, <2>3
<1>11. OpenBuys(rows, s) = {}
  BY <1>5, <1>7
<1> DEFINE one == [p \in D |-> p[1]]
           two == [p \in D |-> p[2]]
           F == [p \in D |-> rows[p[1]].price]
           G == [p \in D |-> rows[p[2]].price]
           H == [p \in D |-> Profit(rows, p)]
<1>12. IsFiniteSet(D)
  <2>1. one \in Injection(D, B)
    <3>1. one \in [D -> B]
      BY <1>4
    <3>2. \A p, q \in D : one[p] = one[q] => p = q
      BY <1>9
    <3> HIDE DEF one
    <3> QED BY <3>1, <3>2 DEF Injection, IsInjective
  <2> HIDE DEF one
  <2> QED BY <1>1, <2>1, FS_Injection
<1>13. /\ {one[p] : p \in D} = B /\ {two[p] : p \in D} = S
  <2>1. \A p \in D : one[p] \in B /\ two[p] \in S
    BY <1>4
  <2>2. \A b \in B : \E p \in D : one[p] = b
    BY <1>7
  <2>3. \A c \in S : \E p \in D : two[p] = c
    BY <1>8
  <2> HIDE DEF one, two
  <2> QED BY <2>1, <2>2, <2>3
<1>14. /\ \A p, q \in D : one[p] = one[q] => p = q
       /\ \A p, q \in D : two[p] = two[q] => p = q
  BY <1>9, <1>10
<1>15. \A p \in D : /\ F[p] = price[one[p]] /\ F[p] \in Int
                    /\ G[p] = price[two[p]] /\ G[p] \in Int
                    /\ H[p] = G[p] - F[p]
  <2> TAKE p \in D
  <2>1. p[1] \in DOMAIN rows /\ p[2] \in DOMAIN rows
    BY <1>1, <1>4
  <2> QED BY <2>1 DEF Profit
<1>16. /\ SumOf([p \in D |-> Profit(rows, p)]) = Total(H, D)
       /\ SumOf([i \in S |-> rows[i].price]) = Total([i \in S |-> rows[i].price], S)
       /\ SumOf([i \in B |-> rows[i].price]) = Total([i \in B |-> rows[i].price], B)
  BY DEF SumOf, Total
<1>17. /\ Total([i \in S |-> rows[i].price], S) = Total(price, S)
       /\ Total([i \in B |-> rows[i].price], B) = Total(price, B)
  <2>1. /\ \A i \in S : [j \in S |-> rows[j].price][i] = price[i]
        /\ \A i \in B : [j \in B |-> rows[j].price][i] = price[i]
    BY <1>1
  <2> HIDE DEF price
  <2> QED BY <1>1, <2>1, TotalSame
<1> HIDE DEF one, two, F, G, H, price
<1>18. Total(price, B) = Total(F, D)
  <2>1. Total(price, {one[p] : p \in D}) = Total(F, D)
    BY <1>12, <1>14, <1>15, TotalRenamed
  <2> QED BY <1>13, <2>1
<1>19. Total(price, S) = Total(G, D)
  <2>1. Total(price, {two[p] : p \in D}) = Total(G, D)
    BY <1>12, <1>14, <1>15, TotalRenamed
  <2> QED BY <1>13, <2>1
<1>20. Total(G, D) = Total(H, D) + Total(F, D)
  <2>1. \A p \in D : H[p] \in Int /\ F[p] \in Int /\ G[p] = H[p] + F[p]
    BY <1>15
  <2> QED BY <1>12, <2>1, TotalPlus
<1>21. Total(H, D) \in Int /\ Total(F, D) \in Int
  <2>1. \A p \in D : H[p] \in Int /\ F[p] \in Int
    BY <1>15
  <2> QED BY <1>12, <2>1, TotalType
<1>22. Total(H, D) = Total(price, S) - Total(price, B)
  BY <1>18, <1>19, <1>20, <1>21
<1> QED BY <1>11, <1>16, <1>17, <1>22 DEF B, S, D

(* A sum of multiples is the multiple of the sum. *)
LEMMA TotalTimes ==
  ASSUME NEW T, IsFiniteSet(T), NEW F, NEW G, NEW q \in Int,
         \A x \in T : F[x] \in Int /\ G[x] = F[x] * q
  PROVE  Total(G, T) = Total(F, T) * q
<1>1. \A x \in T : G[x] \in Int
  BY ProductInt
<1>2. 1 \in Int /\ \A n \in Int : n * 1 = n /\ 1 * n = n
  OBVIOUS
<1>3. Total(F, T) * q <= 1 * Total(G, T)
  <2>1. \A x \in T : F[x] * q <= 1 * G[x]
    <3> TAKE x \in T
    <3>1. G[x] = F[x] * q /\ G[x] \in Int
      BY <1>1
    <3>2. 1 * G[x] = G[x]
      BY <1>2, <3>1
    <3>3. \A m \in Int : m <= m
      OBVIOUS
    <3> QED BY <3>1, <3>2, <3>3
  <2> QED BY <1>1, <1>2, <2>1, TotalProduct
<1>4. Total(G, T) * 1 <= q * Total(F, T)
  <2>1. \A x \in T : G[x] * 1 <= q * F[x]
    <3> TAKE x \in T
    <3>1. G[x] = F[x] * q /\ G[x] \in Int /\ F[x] \in Int
      BY <1>1
    <3>2. G[x] * 1 = G[x] /\ q * F[x] = F[x] * q
      BY <1>2, <3>1
    <3>3. \A m \in Int : m <= m
      OBVIOUS
    <3> QED BY <3>1, <3>2, <3>3
  <2> QED BY <1>1, <1>2, <2>1, TotalProduct
<1>5. Total(F, T) \in Int /\ Total(G, T) \in Int
  BY <1>1, TotalType
<1>6. Total(F, T) * q \in Int /\ q * Total(F, T) = Total(F, T) * q
  BY <1>5
<1>7. Total(F, T) * q <= Total(G, T) /\ Total(G, T) <= Total(F, T) * q
  BY <1>2, <1>3, <1>4, <1>5, <1>6
<1>8. \A m, n \in Int : m <= n /\ n <= m => m = n
  OBVIOUS
<1> QED BY <1>5, <1>6, <1>7, <1>8

(* Orders of one size with one row each. *)
LEMMA EvenMoney ==
  ASSUME NEW rows, \A i \in DOMAIN rows : rows[i].price \in Int,
         NEW T, T \subseteq DOMAIN rows, IsFiniteSet(T), NEW q \in Int,
         \A i \in T : rows[i].filled = q /\ \A j \in T : rows[j].order = rows[i].order => j = i,
         DOMAIN rows \subseteq Nat
  PROVE  /\ Money(rows, T) = SumOf([i \in T |-> rows[i].price]) * q
         /\ SumOf([i \in T |-> rows[i].price]) \in Int
<1> DEFINE F == [i \in T |-> rows[i].price]
           G == [i \in T |-> rows[i].filled * rows[i].price]
<1>1. LastRows(rows, T) = T
  <2>1. \A n \in Nat : n <= n
    OBVIOUS
  <2>2. \A i \in T : \A j \in T : rows[j].order = rows[i].order => j <= i
    BY <2>1
  <2> QED BY <2>2 DEF LastRows
<1>2. Money(rows, T) = Total(G, T)
  BY <1>1 DEF Money, SumOf, Total
<1>3. SumOf(F) = Total(F, T)
  BY DEF SumOf, Total
<1>4. \A i \in T : F[i] \in Int /\ G[i] = F[i] * q
  <2> TAKE i \in T
  <2>1. F[i] = rows[i].price /\ G[i] = q * rows[i].price /\ rows[i].price \in Int
    OBVIOUS
  <2> QED BY <2>1
<1> HIDE DEF F, G
<1>5. Total(G, T) = Total(F, T) * q
  BY <1>4, TotalTimes
<1>6. Total(F, T) \in Int
  BY <1>4, TotalType
<1> QED BY <1>2, <1>3, <1>5, <1>6 DEF F

-----------------------------------------------------------------------------
(* What the owner is shown                                                 *)

(* A record of a strategy has a list of trades. *)
ListsTrades(raec) ==
  \A i \in DOMAIN raec :
    Len(raec[i].intents) \in Nat /\ DOMAIN raec[i].intents = 1..Len(raec[i].intents)

IntentRow(r, i) ==
  [day |-> r.day, ts |-> r.ts, strategy |-> r.strategy, id |-> i.id,
   symbol |-> i.symbol, side |-> i.side, delta |-> i.delta]

Wanted(raec) == UNION {{i} \X DOMAIN raec[i].intents : i \in DOMAIN raec}

(* The table of the trades asked for has a row for each, and no other.     *)
LEMMA IntentRowsAre ==
  ASSUME NEW Q, NEW raec \in Seq(Q), ListsTrades(raec)
  PROVE  /\ IsFiniteSet(DOMAIN RaecIntents(raec))
         /\ \E h \in Bijection(Wanted(raec), DOMAIN RaecIntents(raec)) :
              \A w \in Wanted(raec) :
                RaecIntents(raec)[h[w]] = IntentRow(raec[w[1]], raec[w[1]].intents[w[2]])
<1> DEFINE row(w) == IntentRow(raec[w[1]], raec[w[1]].intents[w[2]])
           seqs == [i \in DOMAIN raec |->
                      [k \in DOMAIN raec[i].intents |-> IntentRow(raec[i], raec[i].intents[k])]]
           R == {row(w) : w \in Wanted(raec)}
           rows == RaecIntents(raec)
<1>1. rows = FlattenSeq(seqs)
  BY DEF RaecIntents, ManyRowsOf, RowsOf, IntentRow
<1>2. DOMAIN raec = 1..Len(raec) /\ Len(raec) \in Nat
  OBVIOUS
<1>3. ASSUME NEW i \in DOMAIN raec PROVE seqs[i] \in Seq(R)
  <2> DEFINE n == Len(raec[i].intents)
  <2>1. n \in Nat /\ DOMAIN raec[i].intents = 1..n
    BY DEF ListsTrades
  <2>2. \A k \in 1..n : <<i, k>> \in Wanted(raec)
    BY <2>1 DEF Wanted
  <2>3. \A k \in 1..n : row(<<i, k>>) \in R /\ row(<<i, k>>) = IntentRow(raec[i], raec[i].intents[k])
    BY <2>2
  <2>4. seqs[i] = [k \in 1..n |-> IntentRow(raec[i], raec[i].intents[k])]
    BY <2>1
  <2> HIDE DEF n, R, seqs
  <2> QED BY <2>1, <2>3, <2>4
<1>4. seqs \in Seq(Seq(R))
  <2>1. seqs = [i \in 1..Len(raec) |-> seqs[i]]
    BY <1>2
  <2> HIDE DEF seqs, R
  <2> QED BY <1>2, <1>3, <2>1
<1>5. Len(seqs) = Len(raec)
  <2>1. DOMAIN seqs = 1..Len(raec)
    BY <1>2
  <2> HIDE DEF seqs, R
  <2> QED BY <1>2, <1>4, <2>1
<1>6. WordsOf(seqs, Len(seqs)) = Wanted(raec)
  <2>1. \A i \in 1..Len(raec) : DOMAIN seqs[i] = DOMAIN raec[i].intents
    BY <1>2
  <2> HIDE DEF seqs
  <2> QED BY <1>2, <1>5, <2>1 DEF WordsOf, Wanted
<1>7. \A w \in Wanted(raec) : seqs[w[1]][w[2]] = row(w)
  BY DEF Wanted
<1> HIDE DEF seqs, R, rows, row
<1>8. rows \in Seq(R) /\ Placed(seqs, Len(seqs), rows)
  BY <1>1, <1>4, FlatPlaces
<1>9. PICK h \in Bijection(Wanted(raec), DOMAIN rows) :
        \A w \in Wanted(raec) : rows[h[w]] = seqs[w[1]][w[2]]
  BY <1>6, <1>8 DEF Placed
<1>10. IsFiniteSet(DOMAIN rows)
  <2>1. DOMAIN rows = 1..Len(rows) /\ Len(rows) \in Nat
    BY <1>8
  <2> QED BY <2>1, FS_Interval
<1> QED BY <1>7, <1>9, <1>10 DEF rows, row

(* What the page shows of a day is what was asked for that day. *)
LEMMA PageShows ==
  ASSUME NEW Q, NEW raec \in Seq(Q), ListsTrades(raec),
         NEW t, t.raec_intents = RaecIntents(raec)
  PROVE  ShownOnTime(raec, Instructions(t))
<1> DEFINE rows == RaecIntents(raec)
           W == Wanted(raec)
           page == Instructions(t)
<1>1. PICK h \in Bijection(W, DOMAIN rows) :
        \A w \in W : rows[h[w]] = IntentRow(raec[w[1]], raec[w[1]].intents[w[2]])
  BY IntentRowsAre
<1>2. IsFiniteSet(DOMAIN rows)
  BY IntentRowsAre
<1> HIDE DEF rows, W
<1>3. /\ h \in [W -> DOMAIN rows] /\ \A v, w \in W : h[v] = h[w] => v = w
      /\ \A n \in DOMAIN rows : \E w \in W : h[w] = n
  BY <1>1 DEF Bijection, Injection, Surjection, IsInjective
<1>4. \A w \in W : /\ rows[h[w]].day = raec[w[1]].day
                   /\ rows[h[w]].strategy = raec[w[1]].strategy
                   /\ rows[h[w]].id = raec[w[1]].intents[w[2]].id
  <2>1. \A r, i : /\ IntentRow(r, i).day = r.day /\ IntentRow(r, i).strategy = r.strategy
                  /\ IntentRow(r, i).id = i.id
    BY DEF IntentRow
  <2> QED BY <1>1, <2>1
<1>5. \A w : w \in W <=> \E i \in DOMAIN raec : \E k \in DOMAIN raec[i].intents : w = <<i, k>>
  BY DEF W, Wanted
<1>6. DaysOf(rows) = {raec[i].day : i \in Asked(raec)}
  <2>1. ASSUME NEW n \in OfSubs(rows) PROVE \E i \in Asked(raec) : raec[i].day = rows[n].day
    <3>1. n \in DOMAIN rows /\ rows[n].strategy \in Subs
      BY DEF OfSubs
    <3>2. PICK w \in W : h[w] = n
      BY <1>3, <3>1
    <3>3. PICK i \in DOMAIN raec : \E k \in DOMAIN raec[i].intents : w = <<i, k>>
      BY <1>5
    <3>4. i \in Asked(raec) /\ raec[i].day = rows[n].day
      BY <1>4, <3>1, <3>2, <3>3 DEF Asked
    <3> QED BY <3>4
  <2>2. ASSUME NEW i \in Asked(raec) PROVE \E n \in OfSubs(rows) : rows[n].day = raec[i].day
    <3>1. PICK k \in DOMAIN raec[i].intents : TRUE
      BY DEF Asked
    <3>2. i \in DOMAIN raec /\ raec[i].strategy \in Subs
      BY DEF Asked
    <3>3. <<i, k>> \in W
      BY <1>5, <3>2
    <3>4. h[<<i, k>>] \in OfSubs(rows) /\ rows[h[<<i, k>>]].day = raec[i].day
      BY <1>3, <1>4, <3>2, <3>3 DEF OfSubs
    <3> QED BY <3>4
  <2> QED BY <2>1, <2>2 DEF DaysOf
<1>7. DOMAIN page = DaysShown(t)
  BY DEF Instructions
<1>8. \A d \in DOMAIN page :
        /\ DOMAIN page[d].intents = SubsOn(rows, d)
        /\ \A n \in SubsOn(rows, d) : page[d].intents[n].id = rows[n].id
  <2> TAKE d \in DOMAIN page
  <2>1. page[d].intents = [n \in SubsOn(rows, d) |-> Instruction(rows[n], AccountTotal(t))]
    BY DEF Instructions, rows
  <2> HIDE DEF page
  <2> QED BY <2>1 DEF Instruction
<1> HIDE DEF page
<1>9. ASSUME NEW i \in Asked(raec),
             Cardinality(AskedLater(raec, raec[i].day)) < InstructionDays
      PROVE  raec[i].day \in DOMAIN page
  <2> DEFINE d == raec[i].day
             days == DaysOf(rows)
  <2>1. d \in days /\ days # {}
    BY <1>6
  <2>2. {e \in days : e > d} = AskedLater(raec, d)
    BY <1>6 DEF AskedLater
  <2>3. DaysShown(t) = LastDays(days)
    BY <2>1 DEF DaysShown, rows
  <2> HIDE DEF d, days
  <2>4. d \in LastDays(days)
    BY <1>9, <2>1, <2>2 DEF LastDays, d
  <2> QED BY <1>7, <2>3, <2>4 DEF d
<1>10. ASSUME NEW d \in DOMAIN page, NEW id
       PROVE  Cardinality({n \in DOMAIN page[d].intents : page[d].intents[n].id = id})
                = Cardinality(Requests(raec, d, id))
  <2> DEFINE shown == {n \in DOMAIN page[d].intents : page[d].intents[n].id = id}
             X == Requests(raec, d, id)
             g == [w \in X |-> h[w]]
  <2>1. \A n : n \in shown <=> /\ n \in DOMAIN rows /\ rows[n].strategy \in Subs
                               /\ rows[n].day = d /\ rows[n].id = id
    BY <1>8 DEF SubsOn, OfSubs
  <2>2. \A w : w \in X <=> /\ w \in W /\ raec[w[1]].strategy \in Subs
                           /\ raec[w[1]].day = d /\ raec[w[1]].intents[w[2]].id = id
    <3>1. ASSUME NEW w \in X
          PROVE  /\ w \in W /\ raec[w[1]].strategy \in Subs
                 /\ raec[w[1]].day = d /\ raec[w[1]].intents[w[2]].id = id
      <4>1. PICK i \in Asked(raec) : \E k \in DOMAIN raec[i].intents : w = <<i, k>>
        BY DEF Requests
      <4>2. raec[w[1]].day = d /\ raec[w[1]].intents[w[2]].id = id
        BY DEF Requests
      <4>3. i \in DOMAIN raec /\ raec[i].strategy \in Subs
        BY DEF Asked
      <4> QED BY <1>5, <4>1, <4>2, <4>3
    <3>2. ASSUME NEW w \in W, raec[w[1]].strategy \in Subs, raec[w[1]].day = d,
                 raec[w[1]].intents[w[2]].id = id
          PROVE  w \in X
      <4>1. PICK i \in DOMAIN raec : \E k \in DOMAIN raec[i].intents : w = <<i, k>>
        BY <1>5
      <4>2. i \in Asked(raec)
        BY <3>2, <4>1 DEF Asked
      <4>3. w \in UNION {{j} \X DOMAIN raec[j].intents : j \in Asked(raec)}
        BY <4>1, <4>2
      <4> QED BY <3>2, <4>3 DEF Requests
    <3> QED BY <3>1, <3>2
  <2> HIDE DEF shown, X
  <2>3. g \in [X -> shown]
    BY <1>3, <1>4, <2>1, <2>2
  <2>4. \A v, w \in X : g[v] = g[w] => v = w
    BY <1>3, <2>2
  <2>5. \A n \in shown : \E w \in X : g[w] = n
    <3> TAKE n \in shown
    <3>1. PICK w \in W : h[w] = n
      BY <1>3, <2>1
    <3>2. w \in X
      BY <1>4, <2>1, <2>2, <3>1
    <3> QED BY <3>1, <3>2
  <2> HIDE DEF g
  <2>6. g \in Injection(X, shown) /\ g \in Surjection(X, shown)
    BY <2>3, <2>4, <2>5 DEF Injection, Surjection, IsInjective
  <2>7. shown \in SUBSET DOMAIN rows
    BY <2>1
  <2>8. IsFiniteSet(shown)
    BY <1>2, <2>7, FS_Subset
  <2>9. Cardinality(X) = Cardinality(shown)
    BY <2>6, <2>8, FS_Injection
  <2> QED BY <2>9 DEF shown, X
<1> QED BY <1>9, <1>10 DEF ShownOnTime, page

(* A record of an order's state has a price. *)
FillKnown(r) == r.price \in Int /\ r.filled \in Int /\ r.filled_at \in Nat
FillsKnown(orders) ==
  \A i \in DOMAIN orders : orders[i].type = "ORDER_STATUS" => FillKnown(orders[i])

LEMMA OrdersKnown ==
  ASSUME NEW Q, NEW orders \in Seq(Q), FillsKnown(orders)
  PROVE  \E R : /\ OrderEvents(orders) \in Seq(R)
                /\ \A i \in DOMAIN OrderEvents(orders) : FillKnown(OrderEvents(orders)[i])
<1> DEFINE row(r) ==
             [day |-> r.day, ts |-> r.ts, book |-> r.book, strategy |-> r.strategy,
              order |-> r.order, symbol |-> r.symbol, side |-> r.side, status |-> r.status,
              filled |-> r.filled, price |-> r.price, filled_at |-> r.filled_at,
              stop |-> r.stop]
           states_of == {i \in DOMAIN orders : orders[i].type = "ORDER_STATUS"}
           R == {row(orders[i]) : i \in states_of}
           seqs == [i \in DOMAIN orders |->
                      IF orders[i].type # "ORDER_STATUS" THEN <<>> ELSE <<row(orders[i])>>]
<1>1. OrderEvents(orders) = FlattenSeq(seqs)
  BY DEF OrderEvents, ManyRowsOf, RowsOf
<1>2. DOMAIN orders = 1..Len(orders) /\ Len(orders) \in Nat
  OBVIOUS
<1>3. \A x \in R : FillKnown(x)
  <2>1. \A r : /\ row(r).price = r.price /\ row(r).filled = r.filled
              /\ row(r).filled_at = r.filled_at
    OBVIOUS
  <2>2. \A i \in states_of : FillKnown(orders[i])
    BY DEF FillsKnown
  <2> HIDE DEF row, states_of
  <2> QED BY <2>1, <2>2 DEF FillKnown
<1> HIDE DEF row
<1>4. ASSUME NEW i \in DOMAIN orders PROVE seqs[i] \in Seq(R)
  <2>1. CASE orders[i].type # "ORDER_STATUS"
    BY <2>1
  <2>2. CASE orders[i].type = "ORDER_STATUS"
    <3>1. row(orders[i]) \in R /\ seqs[i] = <<row(orders[i])>>
      BY <2>2
    <3> HIDE DEF R, seqs
    <3> QED BY <3>1
  <2> QED BY <2>1, <2>2
<1>5. seqs \in Seq(Seq(R))
  <2>1. seqs = [i \in 1..Len(orders) |-> seqs[i]]
    BY <1>2
  <2> HIDE DEF seqs, R
  <2> QED BY <1>2, <1>4, <2>1
<1> HIDE DEF seqs, R
<1>6. OrderEvents(orders) \in Seq(R)
  BY <1>1, <1>5, FlatPlaces
<1>7. \A i \in DOMAIN OrderEvents(orders) : OrderEvents(orders)[i] \in R
  BY <1>6
<1> QED BY <1>3, <1>6, <1>7

-----------------------------------------------------------------------------
(* The ledgers of trades and of orders can be read: what the pages rest on. *)
LedgersRead ==
  /\ DOMAIN ledgers = LedgerNames
  /\ \E Q : ledgers.raec \in Seq(Q)
  /\ ListsTrades(ledgers.raec)
  /\ \E Q : ledgers.orders \in Seq(Q)
  /\ FillsKnown(ledgers.orders)

LEMMA LedgersReadInit == LedgersEmpty => LedgersRead
<1> SUFFICES ASSUME LedgersEmpty PROVE LedgersRead
  OBVIOUS
<1>1. {"raec", "orders"} \subseteq LedgerNames
  BY RecordsAssumption DEF LedgerNames
<1>2. ledgers.raec = <<>> /\ ledgers.orders = <<>> /\ DOMAIN ledgers = LedgerNames
  BY <1>1 DEF LedgersEmpty
<1>3. <<>> \in Seq({}) /\ DOMAIN <<>> = {}
  OBVIOUS
<1> QED BY <1>2, <1>3 DEF LedgersRead, ListsTrades, FillsKnown

LEMMA LedgersReadStays ==
  ASSUME LedgersRead, DOMAIN ledgers' = LedgerNames,
         ledgers'.raec = ledgers.raec, ledgers'.orders = ledgers.orders
  PROVE  LedgersRead'
BY DEF LedgersRead

LEMMA LedgersReadWrite ==
  ASSUME LedgersRead, NEW n \in LedgerNames, NEW r \in Records[n], Write(n, r)
  PROVE  LedgersRead'
<1> DEFINE e == Stamped(r, clock')
<1>1. /\ ledgers' = [ledgers EXCEPT ![n] = Append(@, e)] /\ DOMAIN ledgers = LedgerNames
      /\ {"raec", "orders"} \subseteq LedgerNames
  BY RecordsAssumption DEF Write, LedgersRead, LedgerNames
<1>2. CASE n = "raec"
  <2>1. e.intents = r.intents
    BY <1>2, RecordsAssumption DEF Stamped
  <2>2. Len(e.intents) \in Nat /\ DOMAIN e.intents = 1..Len(e.intents)
    BY <1>2, <2>1, RecordsAssumption
  <2> HIDE DEF e
  <2>3. ledgers'.raec = Append(ledgers.raec, e) /\ ledgers'.orders = ledgers.orders
        /\ DOMAIN ledgers' = LedgerNames
    BY <1>1, <1>2
  <2>4. PICK Q : ledgers.raec \in Seq(Q)
    BY DEF LedgersRead
  <2> DEFINE old == ledgers.raec
             new == Append(old, e)
  <2>5. new \in Seq(Q \cup {e})
    BY <2>4
  <2>6. \A i \in DOMAIN new : new[i] = e \/ (i \in DOMAIN old /\ new[i] = old[i])
    BY <2>4
  <2>7. ListsTrades(old)
    BY DEF LedgersRead
  <2>8. ListsTrades(new)
    <3> HIDE DEF old, new
    <3> QED BY <2>2, <2>6, <2>7 DEF ListsTrades
  <2> QED BY <2>3, <2>5, <2>8 DEF LedgersRead
<1>3. CASE n = "orders"
  <2>1. /\ e.type = r.type
        /\ e.type = "ORDER_STATUS" =>
             e.price = r.price /\ e.filled = r.filled /\ e.filled_at = r.filled_at
    BY <1>3, RecordsAssumption DEF Stamped
  <2>2. e.type = "ORDER_STATUS" => FillKnown(e)
    BY <1>3, <2>1, RecordsAssumption DEF FillKnown
  <2> HIDE DEF e
  <2>3. ledgers'.orders = Append(ledgers.orders, e) /\ ledgers'.raec = ledgers.raec
        /\ DOMAIN ledgers' = LedgerNames
    BY <1>1, <1>3
  <2>4. PICK Q : ledgers.orders \in Seq(Q)
    BY DEF LedgersRead
  <2> DEFINE old == ledgers.orders
             new == Append(old, e)
  <2>5. new \in Seq(Q \cup {e})
    BY <2>4
  <2>6. \A i \in DOMAIN new : new[i] = e \/ (i \in DOMAIN old /\ new[i] = old[i])
    BY <2>4
  <2>7. FillsKnown(old)
    BY DEF LedgersRead
  <2>8. FillsKnown(new)
    <3> HIDE DEF old, new
    <3> QED BY <2>2, <2>6, <2>7 DEF FillsKnown
  <2> QED BY <2>3, <2>5, <2>8 DEF LedgersRead
<1>4. CASE n \notin {"raec", "orders"}
  <2> HIDE DEF e
  <2>1. ledgers'.raec = ledgers.raec /\ ledgers'.orders = ledgers.orders
        /\ DOMAIN ledgers' = LedgerNames
    BY <1>1, <1>4
  <2> QED BY <2>1, LedgersReadStays
<1> QED BY <1>2, <1>3, <1>4

LEMMA LedgersReadNext == LedgersRead /\ [LedgersGrow]_platform_vars => LedgersRead'
<1> SUFFICES ASSUME LedgersRead, [LedgersGrow]_platform_vars PROVE LedgersRead'
  OBVIOUS
<1>0. DOMAIN ledgers = LedgerNames
  BY DEF LedgersRead
<1>1. CASE \E n \in LedgerNames : \E r \in Records[n] : Write(n, r)
  BY <1>1, LedgersReadWrite
<1>2. CASE AppendSnapshot
  <2>1. /\ DOMAIN ledgers' = DOMAIN ledgers
        /\ ledgers'.raec = ledgers.raec /\ ledgers'.orders = ledgers.orders
    BY <1>2 DEF AppendSnapshot
  <2> QED BY <1>0, <2>1, LedgersReadStays
<1>3. CASE UNCHANGED ledgers
  BY <1>0, <1>3, LedgersReadStays
<1>4. \/ \E n \in LedgerNames : \E r \in Records[n] : Write(n, r)
      \/ AppendSnapshot
      \/ UNCHANGED ledgers
  BY DEF LedgersGrow, DieBetween, Sync, SyncDies, NextDay, Quote, Ask, Answered,
     platform_vars
<1> QED BY <1>1, <1>2, <1>3, <1>4

(* Whatever the strategies append, evaluations without trades included, a  *)
(* trade asked for is on the owner's page, as often as it was asked for.   *)
THEOREM TicketsAreShown == AnswersSpec => []NewestTicketShown
<1>1. LedgersRead => NewestTicketShown
  <2> SUFFICES ASSUME LedgersRead PROVE NewestTicketShown
    OBVIOUS
  <2>1. Tables.raec_intents = RaecIntents(ledgers.raec)
    BY DEF Tables
  <2>2. PICK Q : ledgers.raec \in Seq(Q)
    BY DEF LedgersRead
  <2>3. ListsTrades(ledgers.raec)
    BY DEF LedgersRead
  <2>4. ShownOnTime(ledgers.raec, Instructions(Tables))
    BY <2>1, <2>2, <2>3, PageShows
  <2> QED BY <2>4 DEF NewestTicketShown
<1> QED BY <1>1, LedgersReadInit, LedgersReadNext, PTL DEF AnswersSpec

(* Whatever the orders' prices, times and order of recording, the profit    *)
(* reported for a flat strategy with orders of one size, of one row each,  *)
(* is its cash flow per share; and no trade of a flat one is open.         *)
THEOREM FlatProfits == AnswersSpec => []FlatProfitPerShare
<1>1. LedgersRead => FlatProfitPerShare
  <2> SUFFICES ASSUME LedgersRead PROVE FlatProfitPerShare
    OBVIOUS
  <2> DEFINE rows == Tables.orders
             swing == SwingMetrics(rows)
  <2>1. rows = OrderEvents(ledgers.orders)
    BY DEF Tables
  <2>2. PICK Q : ledgers.orders \in Seq(Q)
    BY DEF LedgersRead
  <2>3. FillsKnown(ledgers.orders)
    BY DEF LedgersRead
  <2>4. PICK R : rows \in Seq(R) /\ \A i \in DOMAIN rows : FillKnown(rows[i])
    BY <2>1, <2>2, <2>3, OrdersKnown
  <2> HIDE DEF rows
  <2>5. /\ \A i \in DOMAIN rows : rows[i].price \in Int /\ rows[i].filled \in Int
        /\ FillsTimed(rows)
    <3>1. DOMAIN rows \subseteq Nat
      BY <2>4, FillsAre
    <3> QED BY <2>4, <3>1 DEF FillKnown, FillsTimed
  <2>6. ASSUME NEW s \in DOMAIN swing, Flat(rows, s)
        PROVE  /\ swing[s].open = 0
               /\ \A q \in Column(rows, LAMBDA r : r.filled) : EvenFills(rows, s, q) =>
                    swing[s].pnl * q = Money(rows, Sells(rows, s)) - Money(rows, Buys(rows, s))
    <3>1. /\ swing[s].open = Cardinality(OpenBuys(rows, s))
          /\ swing[s].pnl = SumOf([p \in Pairs(rows, s) |-> Profit(rows, p)])
      BY DEF SwingMetrics
    <3> HIDE DEF swing
    <3> DEFINE earned == SumOf([i \in Sells(rows, s) |-> rows[i].price])
               spent == SumOf([i \in Buys(rows, s) |-> rows[i].price])
    <3>2. OpenBuys(rows, s) = {} /\ swing[s].pnl = earned - spent
      BY <2>4, <2>5, <2>6, <3>1, FlatProfit
    <3> HIDE DEF earned, spent
    <3>3. ASSUME NEW q \in Column(rows, LAMBDA r : r.filled), EvenFills(rows, s, q)
          PROVE  swing[s].pnl * q = Money(rows, Sells(rows, s)) - Money(rows, Buys(rows, s))
      <4>1. q \in Int
        BY <2>5 DEF Column
      <4>2. /\ Buys(rows, s) \subseteq DOMAIN rows /\ Sells(rows, s) \subseteq DOMAIN rows
            /\ IsFiniteSet(Buys(rows, s)) /\ IsFiniteSet(Sells(rows, s))
            /\ DOMAIN rows \subseteq Nat
        BY <2>4, FillsAre
      <4>3. Money(rows, Sells(rows, s)) = earned * q /\ earned \in Int
        <5>1. \A i \in Sells(rows, s) :
                /\ rows[i].filled = q
                /\ \A j \in Sells(rows, s) : rows[j].order = rows[i].order => j = i
          BY <3>3 DEF EvenFills
        <5> QED BY <2>5, <4>1, <4>2, <5>1, EvenMoney DEF earned
      <4>4. Money(rows, Buys(rows, s)) = spent * q /\ spent \in Int
        <5>1. \A i \in Buys(rows, s) :
                /\ rows[i].filled = q
                /\ \A j \in Buys(rows, s) : rows[j].order = rows[i].order => j = i
          BY <3>3 DEF EvenFills
        <5> QED BY <2>5, <4>1, <4>2, <5>1, EvenMoney DEF spent
      <4>5. \A a, b, c \in Int : (a - b) * c = a * c - b * c
        OBVIOUS
      <4> QED BY <3>2, <4>1, <4>3, <4>4, <4>5
    <3>4. swing[s].open = 0
      BY <3>1, <3>2, FS_EmptySet
    <3> QED BY <3>3, <3>4
  <2> QED BY <2>6 DEF FlatProfitPerShare, rows
<1> QED BY <1>1, LedgersReadInit, LedgersReadNext, PTL DEF AnswersSpec
=============================================================================
