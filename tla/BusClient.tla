----------------------------- MODULE BusClient ------------------------------
(***************************************************************************)
(* The receiving side of the bus client library (libbb/bb_bus.c): a line   *)
(* arrives in pieces, is collected in the static buffer of bb_bus_poll and *)
(* handed on when its newline is there.                                    *)
(*                                                                         *)
(* A line is the payload that is published and a number of units, the last *)
(* of which holds the newline.  The buffer holds Cap units (4287 bytes);   *)
(* the daemon passes on lines of almost twice that.                        *)
(***************************************************************************)
EXTENDS Naturals, Sequences

CONSTANTS
  Short,   \* payloads whose line takes two units
  Long,    \* payloads whose line takes more than the buffer
  Cap,     \* units in the buffer
  MaxSent  \* bound: lines sent

ASSUME CapAssumption == Cap \in Nat /\ Cap >= 2 /\ MaxSent \in Nat
ASSUME PayloadAssumption == Short \cap Long = {}

VARIABLES
  sent, \* payloads sent to this client, oldest first
  wire, \* units on their way
  buf   \* buf[0 .. buf_pos)

clientVars == <<sent, wire, buf>>

Payloads == Short \cup Long
Size(p) == IF p \in Short THEN 2 ELSE Cap + 1
Line(p) == [i \in 1 .. Size(p) |->
              [payload |-> p, first |-> i = 1, last |-> i = Size(p)]]

ClientInit == sent = <<>> /\ wire = <<>> /\ buf = <<>>

\* The daemon sends a line.
Send ==
  /\ Len(sent) < MaxSent
  /\ \E p \in Payloads : sent' = Append(sent, p) /\ wire' = wire \o Line(p)
  /\ UNCHANGED buf

Room == Cap - Len(buf)

\* Variant: what is left behind the last newline is thrown away.
RecvForgets ==
  \E n \in 1 .. Room :
    /\ n <= Len(wire)
    /\ buf' = SubSeq(wire, 1, n)
    /\ wire' = SubSeq(wire, n + 1, Len(wire))
    /\ UNCHANGED sent

\* recv returns some of what is there, as far as it fits.  In a full buffer
\* nothing fits: the call returns 0, which poll reports like an error.
Recv ==
  \E n \in 1 .. Room :
    /\ n <= Len(wire)
    /\ buf' = buf \o SubSeq(wire, 1, n)
    /\ wire' = SubSeq(wire, n + 1, Len(wire))
    /\ UNCHANGED sent

Readable == wire # <<>> /\ Room > 0

\* Variant: a newline is looked for at the end of the buffer only.
CompleteAtEnd == buf # <<>> /\ buf[Len(buf)].last

\* The first complete line in the buffer, and the buffer without it.
Ends == {i \in DOMAIN buf : buf[i].last}
Complete == Ends # {}
FirstEnd == CHOOSE i \in Ends : \A j \in Ends : i <= j
IsPublication == buf[1].first
Payload == buf[1].payload
Rest == SubSeq(buf, FirstEnd + 1, Len(buf))

ClientTypeOK ==
  /\ sent \in Seq(Payloads)
  /\ Len(buf) <= Cap
=============================================================================
