---- MODULE Evidence ----
(* How a command comes to be called confirmed (src/carle/table.py, evidence.py
   and the send and confirm verbs of cli.py): a send builds an entry's frame,
   transmits it and writes a log of it; a confirm finds that log again, checks
   it against the entry and appends an observation to the table; and the gate,
   validate_entry, judges the table from the committed files alone. Processes
   can be killed between any two steps, confirms can overlap, and contributors
   edit the table by hand, under the gate. Behaviour text, dates, platforms and
   notifications are left out: confirm copies them from the log it cites. The
   rules for one entry are modelled, those across rows (unique and seeded ids,
   supersedes, counts) are not. *)
EXTENDS Frame, FiniteSets

CONSTANTS
  Ids,          \* the ids of the table's rows
  FirstRows,    \* [Ids -> Row], the table at the start
  Confirmers,   \* processes that may run confirm
  Overrides,    \* the parameter values senders choose, partial functions
  RawFrames,    \* <<family, payload>> of raw sends
  Stamps,       \* what the clock can show when a log is named
  Templates,    \* [family, payload, parameters], what a decoding finds
  MaxSends, MaxEdits

VARIABLES
  table,        \* protocol/commands.yaml: [whole, prose, rows]
  temp,         \* commands.yaml.tmp: a table, or Gone
  logs,         \* evidence/: [<<stem, stamp>> -> log]
  send,         \* the send under way
  confirm,      \* [Confirmers -> the confirm under way]
  sent,         \* history: what the robot has received, in order
  overlapped,   \* history: someone wrote or confirmed during a confirm
  edits         \* the hand edits so far

evidence == <<table, temp, logs, send, confirm, sent, overlapped, edits>>

NoFamily == -1
Gone == [whole |-> FALSE, prose |-> -1, rows |-> FirstRows]
Torn == [Gone EXCEPT !.prose = 0]
Idle == [step |-> "idle"]
TornLog == [whole |-> FALSE]

---------------------------------------------------------------------------
(* The gate: load_table's shape is Row's, validate_entry's rules are these.  *)

HasFrame(e) == e.family # NoFamily /\ e.payload # <<>>

BuildsAt(e, overrides) ==
  /\ HasFrame(e)
  /\ Resolvable(e.payload, e.parameters, overrides)
  /\ Buildable(e.family, Resolve(e.payload, e.parameters, overrides))
FrameAt(e, overrides) == Build(e.family, Resolve(e.payload, e.parameters, overrides))

Live(e) == {i \in DOMAIN e.observations: ~e.observations[i].withdrawn}

\* A status claims no more than the row carries; confirmed if and only if an
\* observation stands. A decoded row's derivation may be blank, a confirmed one's not.
StateRules(e) ==
  /\ e.status \in {"unmapped", "unlocated"} =>
       e.family = NoFamily /\ e.payload = <<>> /\ e.derivation = "none" /\ e.observations = <<>>
  /\ e.status \in {"decoded", "confirmed"} =>
       e.family # NoFamily /\ e.payload # <<>> /\ e.derivation # "none"
  /\ e.status = "confirmed" => e.derivation # "blank"
  /\ e.status = "confirmed" <=> Live(e) # {}
  /\ e.provenance = "vendor-marketing" => ~HasFrame(e)

FrameRules(e) ==
  \/ e.family = NoFamily /\ e.payload = <<>>
  \/ /\ e.family \in Families \cup {NoFamily}
     /\ References(e.payload) = DOMAIN e.parameters
     /\ HasFrame(e) => BuildsAt(e, <<>>)

\* read_log: a log cut short is not one. No raw send supports a promotion.
Readable(name) == name \in DOMAIN logs /\ logs[name].whole
Promotable(id) ==
  {name \in DOMAIN logs: Readable(name) /\ logs[name].kind = "send" /\ logs[name].entry = id}

\* The cited log is there, is this entry's, and says what the observation says.
LogSupports(id, e, o, name) ==
  /\ name \in Promotable(id)
  /\ HasFrame(e) => /\ BuildsAt(e, o.parameters)
                    /\ logs[name].frame = FrameAt(e, o.parameters)
                    /\ logs[name].parameters = o.parameters

\* Every citation in the row, with its place: path-equivalent spellings are one log.
Citations(e) == UNION {{<<i, j>> : j \in DOMAIN e.observations[i].logs} : i \in DOMAIN e.observations}
Cited(e, c) == e.observations[c[1]].logs[c[2]]

EvidenceRules(id, e) ==
  /\ \A i \in DOMAIN e.observations: e.observations[i].logs # <<>>
  /\ \A c \in Citations(e): LogSupports(id, e, e.observations[c[1]], Cited(e, c).log)
  /\ \A c, d \in Citations(e): Cited(e, c).log = Cited(e, d).log => c = d

ValidEntry(id, e) == StateRules(e) /\ FrameRules(e) /\ EvidenceRules(id, e)

\* At the start the gate passes the table, and nothing was observed yet. A status
\* is one of STATUSES.
Statuses == {"unmapped", "unlocated", "decoded", "confirmed"}
RowFields == {"status", "provenance", "family", "payload", "parameters", "derivation", "observations"}
ASSUME FirstRowsAssumption ==
  /\ DOMAIN FirstRows = Ids
  /\ \A id \in Ids: LET e == FirstRows[id]
                    IN /\ DOMAIN e = RowFields /\ e.status \in Statuses /\ e.observations = <<>>
                       /\ StateRules(e) /\ FrameRules(e)

---------------------------------------------------------------------------
(* carle send.                                                               *)

Sending(kind, entry, overrides, frame) ==
  [step |-> "built",
   log |-> [whole |-> TRUE, kind |-> kind, entry |-> entry, parameters |-> overrides, frame |-> frame]]

BuildSend ==
  /\ send.step = "idle" /\ Len(sent) < MaxSends /\ table.whole
  /\ \E id \in Ids, overrides \in Overrides:
       LET e == table.rows[id]
       IN BuildsAt(e, overrides) /\ send' = Sending("send", id, overrides, FrameAt(e, overrides))
  /\ UNCHANGED <<table, temp, logs, confirm, sent, overlapped, edits>>

\* --raw: the bytes come from the operator; the log goes to evidence/ only when
\* --evidence-dir says so, the case that matters here.
BuildRaw ==
  /\ send.step = "idle" /\ Len(sent) < MaxSends
  /\ \E raw \in RawFrames:
       Buildable(raw[1], raw[2]) /\ send' = Sending("raw", "raw", <<>>, Build(raw[1], raw[2]))
  /\ UNCHANGED <<table, temp, logs, confirm, sent, overlapped, edits>>

Transmission(log) == [entry |-> log.entry, parameters |-> log.parameters, frame |-> log.frame]
Sent == [step |-> "sent", log |-> send.log]

\* A plausible bug: a failed transmission is logged like one that landed.
TransmitOrNot ==
  /\ send.step = "built"
  /\ \/ sent' = Append(sent, Transmission(send.log)) /\ send' = Sent
     \/ sent' = sent /\ send' = Sent
  /\ UNCHANGED <<table, temp, logs, confirm, overlapped, edits>>

\* The write lands and send goes on to its log, or the transport fails, before
\* the write or after it, and nothing is logged.
Transmit ==
  /\ send.step = "built"
  /\ \/ sent' = Append(sent, Transmission(send.log)) /\ send' = Sent
     \/ sent' = Append(sent, Transmission(send.log)) /\ send' = Idle
     \/ sent' = sent /\ send' = Idle
  /\ UNCHANGED <<table, temp, logs, confirm, overlapped, edits>>

\* write_log refuses a name that exists; the file is there before its text is.
OpenLog ==
  /\ send.step = "sent"
  /\ \E stamp \in Stamps:
       LET name == <<send.log.entry, stamp>>
       IN IF name \in DOMAIN logs
          THEN send' = Idle /\ logs' = logs
          ELSE /\ logs' = [n \in DOMAIN logs \cup {name} |-> IF n = name THEN TornLog ELSE logs[n]]
               /\ send' = [step |-> "opened", log |-> send.log, name |-> name]
  /\ UNCHANGED <<table, temp, confirm, sent, overlapped, edits>>

FillLog ==
  /\ send.step = "opened"
  /\ logs' = [logs EXCEPT ![send.name] = send.log]
  /\ send' = Idle
  /\ UNCHANGED <<table, temp, confirm, sent, overlapped, edits>>

KillSend ==
  /\ send.step # "idle" /\ send' = Idle
  /\ UNCHANGED <<table, temp, logs, confirm, sent, overlapped, edits>>

---------------------------------------------------------------------------
(* carle confirm.                                                            *)

Active == {p \in Confirmers: confirm[p].step # "idle"}

\* A plausible bug: the log's frame is not compared with the entry as it is now.
CheckUnbuilt(p, id, name) ==
  /\ confirm[p].step = "idle" /\ table.whole
  /\ HasFrame(table.rows[id]) /\ name \in Promotable(id)
  /\ \A c \in Citations(table.rows[id]): Cited(table.rows[id], c).log = name => Cited(table.rows[id], c).dotted
  /\ confirm' = [confirm EXCEPT ![p] = [step |-> "checked", id |-> id, name |-> name]]
  /\ overlapped' = (overlapped \/ Active # {})
  /\ UNCHANGED <<table, temp, logs, send, sent, edits>>

\* Everything up to the table's second reading: the row and the directory as
\* they are now, one promotable log, or the one --log names; the plain citation
\* not in the row yet; the frame rebuilt at the log's parameters. A refusal
\* changes nothing. While another confirm is active this is an overlap.
Check(p, id, name) ==
  LET e == table.rows[id]
  IN /\ confirm[p].step = "idle" /\ table.whole
     /\ HasFrame(e) /\ name \in Promotable(id)
     /\ \A c \in Citations(e): Cited(e, c).log = name => Cited(e, c).dotted
     /\ BuildsAt(e, logs[name].parameters) /\ logs[name].frame = FrameAt(e, logs[name].parameters)
     /\ confirm' = [confirm EXCEPT ![p] = [step |-> "checked", id |-> id, name |-> name]]
     /\ overlapped' = (overlapped \/ Active # {})
     /\ UNCHANGED <<table, temp, logs, send, sent, edits>>

Observation(name) ==
  [parameters |-> logs[name].parameters, logs |-> <<[log |-> name, dotted |-> FALSE]>>, withdrawn |-> FALSE]

\* A plausible bug: the new observation replaces the ones before it.
ConfirmedOnly(e, name) ==
  [e EXCEPT !.status = "confirmed", !.observations = <<Observation(name)>>]

Confirmed(e, name) ==
  [e EXCEPT !.status = "confirmed", !.observations = Append(@, Observation(name))]

\* load_rows reads the table again, and the row gains its observation in memory.
LoadRows(p) ==
  /\ confirm[p].step = "checked" /\ table.whole
  /\ confirm' = [confirm EXCEPT ![p] =
       [step |-> "loaded", rows |-> [table.rows EXCEPT ![confirm[p].id] = Confirmed(@, confirm[p].name)]]]
  /\ UNCHANGED <<table, temp, logs, send, sent, overlapped, edits>>

\* save_table: the prose above "commands:" is read from the table once more and
\* the temporary file is created, or emptied if another confirm has it open.
OpenTemp(p) ==
  /\ confirm[p].step = "loaded" /\ table.whole
  /\ temp' = Torn
  /\ confirm' = [confirm EXCEPT ![p] =
       [step |-> "opened", file |-> "temp",
        out |-> [whole |-> TRUE, prose |-> table.prose, rows |-> @.rows]]]
  /\ UNCHANGED <<table, logs, send, sent, overlapped, edits>>

\* The text goes to the file that was opened, which another confirm may have
\* renamed to the table meanwhile, or replaced as the table.
FillTemp(p) ==
  /\ confirm[p].step = "opened"
  /\ temp' = IF confirm[p].file = "temp" THEN confirm[p].out ELSE temp
  /\ table' = IF confirm[p].file = "table" THEN confirm[p].out ELSE table
  /\ confirm' = [confirm EXCEPT ![p] = [step |-> "filled", out |-> @.out]]
  /\ UNCHANGED <<logs, send, sent, overlapped, edits>>

Renamed(c) ==
  IF c.step # "opened" THEN c
  ELSE [c EXCEPT !.file = IF c.file = "temp" THEN "table" ELSE "gone"]

\* temp.replace(path). The name may be gone with another confirm's replace.
Replace(p) ==
  /\ confirm[p].step = "filled"
  /\ IF temp = Gone THEN table' = table /\ temp' = temp ELSE table' = temp /\ temp' = Gone
  /\ confirm' = [q \in Confirmers |-> IF q = p THEN Idle
                                      ELSE IF temp = Gone THEN confirm[q] ELSE Renamed(confirm[q])]
  /\ UNCHANGED <<logs, send, sent, overlapped, edits>>

\* Killed, or stopped by a table that is not whole when it is read again.
KillConfirm(p) ==
  /\ confirm[p].step # "idle" /\ confirm' = [confirm EXCEPT ![p] = Idle]
  /\ UNCHANGED <<table, temp, logs, send, sent, overlapped, edits>>

---------------------------------------------------------------------------
(* A contributor's edits, which the gate has passed.                         *)

Restated(e) == [e EXCEPT !.status = IF Live(e) = {} THEN "decoded" ELSE "confirmed"]

Withdrawals(e) == {Restated([e EXCEPT !.observations[i].withdrawn = TRUE]) : i \in DOMAIN e.observations}
Respellings(e) == {[e EXCEPT !.observations[c[1]].logs[c[2]].dotted = TRUE] : c \in Citations(e)}
Defaults(e) == {[e EXCEPT !.parameters[n].default = v] : n \in DOMAIN e.parameters, v \in Byte}
Decodings(e) ==
  {[e EXCEPT !.status = "decoded", !.derivation = "text", !.provenance = "decompile",
             !.family = t.family, !.payload = t.payload, !.parameters = t.parameters] : t \in Templates}
Revisions(e) ==
  Withdrawals(e) \cup Respellings(e) \cup Defaults(e) \cup Decodings(e) \cup {[e EXCEPT !.derivation = "blank"]}

EditRow ==
  /\ edits < MaxEdits /\ table.whole
  /\ \E id \in Ids: \E e \in Revisions(table.rows[id]):
       ValidEntry(id, e) /\ e # table.rows[id] /\ table' = [table EXCEPT !.rows[id] = e]
  /\ edits' = edits + 1 /\ overlapped' = (overlapped \/ Active # {})
  /\ UNCHANGED <<temp, logs, send, confirm, sent>>

EditProse ==
  /\ edits < MaxEdits /\ table.whole
  /\ table' = [table EXCEPT !.prose = @ + 1]
  /\ edits' = edits + 1 /\ overlapped' = (overlapped \/ Active # {})
  /\ UNCHANGED <<temp, logs, send, confirm, sent>>

EvidenceInit ==
  /\ table = [whole |-> TRUE, prose |-> 0, rows |-> FirstRows] /\ temp = Gone
  /\ logs = <<>> /\ send = Idle /\ confirm = [p \in Confirmers |-> Idle]
  /\ sent = <<>> /\ overlapped = FALSE /\ edits = 0

EvidenceNext ==
  \/ BuildSend \/ BuildRaw \/ Transmit \/ OpenLog \/ FillLog \/ KillSend
  \/ \E p \in Confirmers:
       \/ \E id \in Ids, name \in DOMAIN logs: Check(p, id, name)
       \/ LoadRows(p) \/ OpenTemp(p) \/ FillTemp(p) \/ Replace(p) \/ KillConfirm(p)
  \/ EditRow \/ EditProse

EvidenceSpec == EvidenceInit /\ [][EvidenceNext]_evidence

---------------------------------------------------------------------------
(* Properties.                                                               *)

\* confirm leaves a table that the gate passes as one that it passes, whatever
\* was sent, edited, cut short or killed before, unless something else wrote
\* during the confirm; but for two gaps between cli.py's checks and table.py's:
\* a blank derivation is legal until the row is confirmed, and a citation
\* respelled by hand is not recognised as the same log.
GateKept ==
  overlapped \/
    /\ table.whole
    /\ \A id \in Ids:
         LET e == table.rows[id]
         IN \/ ValidEntry(id, e)
            \/ e.derivation = "blank"
            \/ \E c \in Citations(e): Cited(e, c).dotted

\* Every observation stands on the robot: each cited log is of one transmission
\* of that entry's frame at those parameters, and no two logs are of the same
\* one; also when confirms overlap. (cli.py's _run_send, evidence.py's write_log)
Claims(id) ==
  LET e == table.rows[id]
  IN {<<Cited(e, c).log, e.observations[c[1]].parameters>> : c \in Citations(e)}
Backed ==
  table.whole =>
    \A id \in Ids: \A x \in Claims(id):
      /\ Readable(x[1])
      /\ Cardinality({y \in Claims(id): logs[y[1]] = logs[x[1]]}) <=
         Cardinality({i \in DOMAIN sent:
           sent[i] = [entry |-> id, parameters |-> x[2], frame |-> logs[x[1]].frame]})

\* A confirm changes nothing but the row it confirms, whose observations it only
\* extends, and the prose survives it, unless something else wrote meanwhile:
\* save_table rewrites the whole file from what load_rows read.
OnlyAppends ==
  [][ (overlapped' \/ edits' # edits) \/
        /\ table'.prose = table.prose
        /\ \A id \in Ids: IsPrefix(table.rows[id].observations, table'.rows[id].observations)
        /\ Cardinality({id \in Ids: table'.rows[id] # table.rows[id]}) <= 1 ]_evidence
====
