-------------------------------- MODULE Wire --------------------------------
(***************************************************************************)
(* The framing of the event stream (internal/eventbus/sse.go): a record is *)
(* a few lines and ends with a blank one; a record of comments only is a   *)
(* heartbeat.                                                              *)
(*                                                                         *)
(* Lines are what can be lost of a stream: of a line that was cut the      *)
(* reader sees nothing.  A line carries its field, the event it belongs to *)
(* and the length of its record up to here.  The data of an envelope is a  *)
(* single line, as json.Marshal leaves no newline in it.                   *)
(***************************************************************************)
EXTENDS Integers, Sequences

CONSTANTS DataBytes,      \* DataBytes[e]: the length of the data of event e
          MaxEventBytes   \* what the reader accepts as one record

Line(field, e, upto) == [field |-> field, event |-> e, upto |-> upto]

Blank == Line("blank", 0, 0)

writeSSEEvent(e) ==
  <<Line("id", e, 1), Line("event", e, 2), Line("data", e, 2 + DataBytes[e]), Blank>>

writeSSEComment == <<Line("comment", 0, 1), Blank>>

(* Several events, one after the other: four lines each. *)
writeSSEEvents(es) ==
  [i \in 1..(4 * Len(es)) |-> writeSSEEvent(es[(i + 3) \div 4])[((i + 3) % 4) + 1]]

-----------------------------------------------------------------------------
(* What makes a blank line the end of a record rather than one to skip.    *)
Noted_FieldsOnly(field) == field \in {"id", "event", "data"}
Noted(field) == field \in {"comment", "id", "event", "data"}

EndsRecord(lines, k) == lines[k].field = "blank" /\ \E i \in 1..k : Noted(lines[i].field)
TooLong(lines, k)    == lines[k].upto > MaxEventBytes
Stops(lines, k)      == EndsRecord(lines, k) \/ TooLong(lines, k)

(* The event whose data is among the first k lines, 0 if there is none.    *)
Data(lines, k) ==
  LET found == {i \in 1..k : lines[i].field = "data"}
  IN IF found = {} THEN 0 ELSE lines[CHOOSE i \in found : TRUE].event

(* What one call of next returns for the lines there are, the first of     *)
(* which begins a record: a record, with the lines it took and the event   *)
(* it brought, or an error; nothing as long as it has to wait for more.    *)
next(lines) ==
  {[is |-> IF TooLong(lines, k) THEN "toolong" ELSE "record",
    lines |-> k, data |-> Data(lines, k)] :
     k \in {i \in 1..Len(lines) :
              Stops(lines, i) /\ \A j \in 1..(i - 1) : ~Stops(lines, j)}}
=============================================================================
