----------------------------- MODULE ConfigFile -----------------------------
(***************************************************************************)
(* The configuration file of one namespace (libbb/bb_persist.c:64-127):    *)
(* lines key=value, read by bb_persist_config_get and rewritten by         *)
(* bb_persist_config_set, which copies the file with one line changed into *)
(* <ns>.conf.tmp and renames the copy over the file.                       *)
(*                                                                         *)
(* The lines of a file are a function from keys to values; a file that     *)
(* does not exist reads as an empty one.  A file fits the 4 KB buffer of   *)
(* stdio, so the lines go out in one write, at fclose.  The writers share  *)
(* the name of the copy: a second writer truncates the first one's copy,   *)
(* and a writer can close a copy that somebody else has already renamed.   *)
(* The old lines are taken when the old file is opened; the code reads     *)
(* them from that same file after the copy is opened, which differs only   *)
(* if a late writer has changed the file in place in between.              *)
(***************************************************************************)
EXTENDS Integers

CONSTANTS Process,   \* processes that call the library
          Key, Value,
          Absent,    \* the file has no line for the key
          Torn,      \* the line's value was cut short
          NoFile,    \* the name of the copy is not in use
          MaxSets    \* bound: calls of config_set in a behaviour

ASSUME ValuesAssumption == Absent \notin Value /\ Torn \notin Value /\ Absent # Torn
ASSUME BoundAssumption  == MaxSets \in Nat

Lines   == [Key -> Value \union {Absent, Torn}]
NoLines == [k \in Key |-> Absent]

ASSUME NameAssumption == NoFile \notin Lines

VARIABLES conf,      \* lines of <ns>.conf
          tmp,       \* lines of <ns>.conf.tmp, or NoFile
          durable,   \* lines <ns>.conf can have after a power cut
          full,      \* the partition has no room left
          pc,        \* next step of each process in config_set
          key, value,  \* arguments of the call
          text,      \* lines it is about to write
          out,       \* what its file is called now: "tmp", "conf" or "gone"
          sets,      \* calls so far, only to bound behaviours
          harmed     \* history: two calls overlapped, or one wrote to a full partition

diskVars == <<conf, tmp, durable, full>>
callVars == <<pc, key, value, text, out>>
vars == <<diskVars, callVars, sets, harmed>>

Busy(p) == pc[p] # "idle"

\* The lines a file can have once `new` was written from its start over `old`:
\* what lay behind is still there, the line it cut into is lost.
Overwrite(new, old) ==
  {l \in Lines : \A k \in Key :
     IF new[k] # Absent THEN l[k] = new[k] ELSE l[k] \in {Absent, old[k]}}

\* The lines that arrive on a full partition: the results of fprintf, fputs
\* and fclose are not looked at.
Arriving(l) ==
  IF full THEN {m \in Lines : \A k \in Key : m[k] \in {l[k], Absent, Torn}} ELSE {l}

\* bb_persist_config_get
ConfigGet(k) == conf[k]

Init ==
  /\ conf \in [Key -> Value \union {Absent}]
  /\ tmp \in {NoFile, NoLines}           \* a copy left by an earlier power cut
  /\ durable = {conf}
  /\ full = FALSE
  /\ pc = [p \in Process |-> "idle"]
  /\ key \in [Process -> Key] /\ value \in [Process -> Value]
  /\ text = [p \in Process |-> NoLines]
  /\ out = [p \in Process |-> "gone"]
  /\ sets = 0 /\ harmed = FALSE

-----------------------------------------------------------------------------
(* bb_persist_config_set *)

\* fopen and reading of the old lines; the line of the key is replaced, or
\* added behind the others.
SetRead(p) ==
  /\ ~Busy(p) /\ sets < MaxSets
  /\ \E k \in Key, v \in Value :
       /\ key' = [key EXCEPT ![p] = k]
       /\ value' = [value EXCEPT ![p] = v]
       /\ text' = [text EXCEPT ![p] = [conf EXCEPT ![k] = v]]
  /\ pc' = [pc EXCEPT ![p] = "open"]
  /\ sets' = sets + 1
  /\ harmed' = (harmed \/ \E q \in Process : Busy(q))
  /\ UNCHANGED <<diskVars, out>>

\* Variant: the file itself is opened for writing.
SetOpenInPlace(p) ==
  /\ pc[p] = "open"
  /\ conf' = NoLines
  /\ durable' = durable \union {NoLines}
  /\ out' = [out EXCEPT ![p] = "conf"]
  /\ pc' = [pc EXCEPT ![p] = "close"]
  /\ UNCHANGED <<tmp, full, key, value, text, sets, harmed>>

\* fopen(tmp, "w") empties a copy that is there already.
SetOpen(p) ==
  /\ pc[p] = "open"
  /\ tmp' = NoLines
  /\ out' = [out EXCEPT ![p] = "tmp"]
  /\ pc' = [pc EXCEPT ![p] = "close"]
  /\ UNCHANGED <<conf, durable, full, key, value, text, sets, harmed>>

\* No room for a new file: -1 (and the old file stays open for reading).
SetOpenFails(p) ==
  /\ pc[p] = "open"
  /\ full /\ tmp = NoFile
  /\ pc' = [pc EXCEPT ![p] = "idle"]
  /\ UNCHANGED <<diskVars, key, value, text, out, sets, harmed>>

\* fclose(out), wherever the file is by now.
SetClose(p) ==
  /\ pc[p] = "close"
  /\ \E l \in Arriving(text[p]) :
       \/ /\ out[p] = "tmp"
          /\ tmp' \in Overwrite(l, tmp)
          /\ UNCHANGED <<conf, durable>>
       \/ /\ out[p] = "conf"
          /\ conf' \in Overwrite(l, conf)
          /\ durable' = durable \union {conf'}
          /\ UNCHANGED tmp
       \/ /\ out[p] = "gone"
          /\ UNCHANGED <<conf, tmp, durable>>
  /\ pc' = [pc EXCEPT ![p] = "rename"]
  /\ harmed' = (harmed \/ full)
  /\ UNCHANGED <<full, key, value, text, out, sets>>

\* rename(tmp, path); its failure goes unnoticed.  The files that were called
\* tmp and conf are now called conf and nothing.
SetRename(p) ==
  /\ pc[p] = "rename"
  /\ \/ /\ tmp # NoFile
        /\ conf' = tmp
        /\ durable' = durable \union {tmp}
        /\ tmp' = NoFile
        /\ out' = [q \in Process |-> IF out[q] = "tmp" THEN "conf" ELSE "gone"]
     \/ /\ tmp = NoFile
        /\ UNCHANGED <<conf, durable, tmp, out>>
  /\ pc' = [pc EXCEPT ![p] = "idle"]
  /\ UNCHANGED <<full, key, value, text, sets, harmed>>

-----------------------------------------------------------------------------
(* The partition (ext4): a rename over a file writes the new file out first *)
(* (external, from the file system's documentation), so a cut brings back   *)
(* the lines the file had at some point since the last commit.              *)

Flush ==
  /\ durable' = {conf}
  /\ UNCHANGED <<conf, tmp, full, callVars, sets, harmed>>

PowerCut ==
  /\ conf' \in durable
  /\ durable' = {conf'}
  /\ tmp' \in {NoFile, NoLines}
  /\ pc' = [p \in Process |-> "idle"]
  /\ UNCHANGED <<full, key, value, text, out, sets, harmed>>

\* Logs and data fill the partition and are removed again.
RoomChanges ==
  /\ full' = ~full
  /\ UNCHANGED <<conf, tmp, durable, callVars, sets, harmed>>

Next ==
  \/ \E p \in Process : SetRead(p) \/ SetOpen(p) \/ SetOpenFails(p)
                        \/ SetClose(p) \/ SetRename(p)
  \/ Flush \/ PowerCut \/ RoomChanges

Spec == Init /\ [][Next]_vars

-----------------------------------------------------------------------------
TypeOK ==
  /\ conf \in Lines /\ tmp \in Lines \union {NoFile} /\ durable \subseteq Lines
  /\ full \in BOOLEAN
  /\ pc \in [Process -> {"idle", "open", "close", "rename"}]
  /\ key \in [Process -> Key] /\ value \in [Process -> Value]
  /\ text \in [Process -> Lines]
  /\ out \in [Process -> {"tmp", "conf", "gone"}]
  /\ sets \in 0 .. MaxSets /\ harmed \in BOOLEAN

Map == INSTANCE ConfigMap WITH map <- [k \in Key |-> ConfigGet(k)], back <- durable

\* As long as no two calls of config_set overlapped and none met a full
\* partition, what config_get reads changes as ConfigMap says, whatever power
\* cuts come between the steps: all at once at the end of a call, by the line
\* of its key alone, and back to an earlier state by a power cut.
SetsAreAtomic ==
  [][ ~harmed' =>
        \/ \E p \in Process : pc[p] = "rename" /\ Map!MapSet(key[p], value[p])
        \/ Map!MapSync
        \/ Map!MapCut
        \/ UNCHANGED Map!mapVars ]_vars
=============================================================================
