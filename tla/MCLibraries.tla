---------------------------- MODULE MCLibraries -----------------------------
(* Libraries with small sets, and four sound devices that between them     *)
(* have each kind of limit that matters to the choice of parameters.       *)
EXTENDS Libraries

CONSTANTS p1, p2, p3, k1, v1

Limits(ch, rate, ps, bs, bytes, periods) ==
  [chMin |-> ch[1], chMax |-> ch[2], rateMin |-> rate[1], rateMax |-> rate[2],
   psMin |-> ps[1], psMax |-> ps[2], bsMax |-> bs, bytesMax |-> bytes,
   periodsMin |-> periods]

\* Ample; short of bytes; periods below 16 frames; one period is enough.
Devices ==
  {Limits(<<1, 2>>, <<800, 4800>>, <<8, 64>>, 128, 512, 2),
   Limits(<<2, 2>>, <<1600, 4800>>, <<16, 48>>, 96, 192, 2),
   Limits(<<2, 8>>, <<4800, 4800>>, <<4, 12>>, 30, 1000, 2),
   Limits(<<1, 1>>, <<800, 3200>>, <<8, 64>>, 100, 400, 1)}
Requests ==
  [rate : {800, 3200, 4800}, channels : {1, 2}, fmt : {"S16", "S24", "S32"}]

\* The arguments of calls before the first one matter to nobody.
MCInit ==
  /\ LibInit
  /\ lib = "config" => key = [p \in Process |-> k1] /\ value = [p \in Process |-> v1]

MCSpec == MCInit /\ [][LibNext]_libVars
=============================================================================
