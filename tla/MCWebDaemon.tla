---------------------------- MODULE MCWebDaemon -----------------------------
(* WebDaemon with four connections that between them carry a request of   *)
(* each kind that the daemon treats differently.                           *)
EXTENDS WebDaemon

CONSTANTS c1, c2, c3, c4

Report  == [act |-> "report", head |-> 1, body |-> 0, cl |-> Nil]
SetLed  == [act |-> "led", head |-> 1, body |-> 1, cl |-> 1]
BareLed == [act |-> "led", head |-> 1, body |-> 1, cl |-> Nil]
Endless == [act |-> "page", head |-> 3, body |-> 0, cl |-> Nil]
Huge    == [act |-> "gpio", head |-> 1, body |-> 2, cl |-> 2]

Offers ==
  [c \in Conns |-> CASE c = c1 -> {SetLed}
                     [] c = c2 -> {Endless, Huge}
                     [] c = c3 -> {Report}
                     [] c = c4 -> {BareLed}]
=============================================================================
