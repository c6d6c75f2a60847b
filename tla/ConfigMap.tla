----------------------------- MODULE ConfigMap ------------------------------
(***************************************************************************)
(* What the configuration of a namespace promises (libbb/bb_persist.h:8-12 *)
(* "survives A/B updates"): a map whose keys are set one at a time, and    *)
(* which a power cut takes back to a state it was in before, no further    *)
(* than the last time the file system wrote it out.                        *)
(***************************************************************************)
CONSTANTS Key, Value
VARIABLES map,   \* value of every key
          back   \* maps a power cut may restore

mapVars == <<map, back>>

MapSet(k, v) ==
  /\ map' = [map EXCEPT ![k] = v]
  /\ back' = back \union {map'}

MapSync ==
  /\ back' = {map}
  /\ UNCHANGED map

MapCut ==
  /\ map' \in back
  /\ back' = {map'}
=============================================================================
