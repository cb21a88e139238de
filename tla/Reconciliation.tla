--------------------------- MODULE Reconciliation ---------------------------
(***************************************************************************)
(* schwab_readonly_reconciliation.py: the report that a sync of the 401k   *)
(* account makes of the day's ledger, which holds the tickets sent to the  *)
(* owner, the owner's confirmations, and the snapshots of every sync of    *)
(* the day.  Quantities are whole, their five decimals are left out.       *)
(***************************************************************************)
EXTENDS Integers, Sequences, SequencesExt

OfType(records, t) == SelectSeq(records, LAMBDA r : r.type = t)

(* The records of a kind in the file of a day, by their place in the ledger. *)
Filed(records, d, t) == {i \in DOMAIN records : records[i].day = d /\ records[i].type = t}

(* A dict filled row by row: of the rows of a key the last one counts.      *)
Dict(rows, places, Key(_), Value(_)) ==
  [k \in {Key(rows[i]) : i \in places} |->
     Value(rows[Max({i \in places : Key(rows[i]) = k})])]

(* load_manual_intents, load_manual_confirmations: a ticket sent twice is   *)
(* two intents, of the confirmations of an intent the last one counts.      *)
Tickets(records, d) == Filed(records, d, "ticket")
TicketIds(records, d) == {records[i].id : i \in Tickets(records, d)}

Confirmations(records, d) ==
  Dict(records, Filed(records, d, "confirmation"), LAMBDA r : r.id, LAMBDA r : r)

(* Mutant: the record that comes first in the file. *)
LatestRecord_Earliest(records, d, t) == records[Min(Filed(records, d, t))]

(* _latest_snapshot_record: the greatest time, of equals the first.         *)
LatestRecord(records, d, t) ==
  LET after(i, j) == records[i].ts > records[j].ts \/ (records[i].ts = records[j].ts /\ i < j)
  IN records[CHOOSE i \in Filed(records, d, t) :
               \A j \in Filed(records, d, t) \ {i} : after(i, j)]

(* Per symbol the quantity at the broker, of the latest positions.          *)
Quantities(rows) == Dict(rows, DOMAIN rows, LAMBDA p : p.symbol, LAMBDA p : p.qty)

BrokerPositions(records, d) == Quantities(LatestRecord(records, d, "positions").positions)

-----------------------------------------------------------------------------
(* The reasons of an intent, and of a symbol.                              *)
Unconfirmed(ticket, confirmations) == ticket.id \notin DOMAIN confirmations

IntentReasons(ticket, confirmations, broker) ==
  LET known == ticket.symbol \in DOMAIN broker
      held  == known /\ broker[ticket.symbol] # 0
      c     == confirmations[ticket.id]
      done  == c.status \in {"EXECUTED", "PARTIAL"}
  IN IF Unconfirmed(ticket, confirmations) THEN
       IF held THEN {"BROKER_POSITION_CHANGED_BUT_NO_CONFIRMATION"} ELSE {}
     ELSE (IF c.qty # <<>> /\ c.qty # <<ticket.qty>> THEN {"QTY_MISMATCH"} ELSE {})
          \cup (IF done /\ ~held THEN {"CONFIRMED_EXECUTED_BUT_NO_POSITION_CHANGE"} ELSE {})
          \cup (IF c.status = "PARTIAL" /\ c.qty # <<>> /\ known
                   /\ c.qty # <<broker[ticket.symbol]>>
                THEN {"PARTIAL_FILL_MISMATCH"} ELSE {})

UnknownConfirmations(records, d) == DOMAIN Confirmations(records, d) \ TicketIds(records, d)

TicketsOf(records, d, sym) == {i \in Tickets(records, d) : records[i].symbol = sym}

SymbolReasons(sym, records, d, confirmations, broker) ==
  LET mine == TicketsOf(records, d, sym)
  IN IF mine # {} THEN UNION {IntentReasons(records[i], confirmations, broker) : i \in mine}
     ELSE {"UNKNOWN_SYMBOL"}
          \cup (IF broker[sym] # 0 THEN {"BROKER_POSITION_CHANGED_BUT_NO_CONFIRMATION"} ELSE {})

TicketSymbols(records, d) == {records[i].symbol : i \in Tickets(records, d)}

(* build_reconciliation_report: raises without a snapshot of every kind.    *)
Reconcilable(records, d) ==
  \A t \in {"account", "positions", "orders"} : Filed(records, d, t) # {}

Report(records, d) ==
  LET confirmations == Confirmations(records, d)
      broker        == BrokerPositions(records, d)
      tickets       == Tickets(records, d)
      reasons(s)    == SymbolReasons(s, records, d, confirmations, broker)
      symbols       == TicketSymbols(records, d) \cup DOMAIN broker
      unknown       == UnknownConfirmations(records, d)
      drifted       == {i \in tickets :
                          IntentReasons(records[i], confirmations, broker) # {}}
  IN [as_of |-> LatestRecord(records, d, "account").ts,
      counts |-> [intents |-> Cardinality(tickets),
                  confirmations |-> Cardinality(DOMAIN confirmations),
                  positions |-> Cardinality(DOMAIN broker),
                  drift_intents |-> Cardinality(drifted) + Cardinality(unknown),
                  drift_symbols |-> Cardinality({s \in symbols : reasons(s) # {}}),
                  unknown |-> Cardinality(unknown)],
      drift |-> UNION {reasons(s) : s \in symbols}
                \cup (IF unknown = {} THEN {} ELSE {"UNKNOWN_SYMBOL"})]
=============================================================================
