------------------------------ MODULE GpioHal -------------------------------
(***************************************************************************)
(* The GPIO HAL (hal/bb_hal_gpio.c) on one pin that several processes use. *)
(*                                                                         *)
(* With /sys/class/gpio the pin is exported for everybody: export and      *)
(* unexport act on the whole system, their results are not looked at, and  *)
(* a value file that is open when the pin is unexported answers no more.   *)
(* Without it the kernel hands the line of a gpiochip to one process at a  *)
(* time.  The kernel's part is external; the values read and written are   *)
(* left out.                                                               *)
(***************************************************************************)
EXTENDS Naturals

CONSTANTS Process

VARIABLES sysfs,      \* /sys/class/gpio exists
          isExported, \* the pin's directory exists there
          holder,     \* processes that hold the line through a gpiochip
          pc,         \* next step of each process in bb_gpio_open
          fd,         \* line_fd of each process: "none", "live" or "dead"
          exported,   \* gpio->exported
          failed      \* history: an open failed, or a process was killed

gpioVars == <<sysfs, isExported, holder, pc, fd, exported, failed>>

Using(p) == pc[p] # "idle" \/ fd[p] # "none"

\* What an unexport does to the files of others.
Unexported == [p \in Process |-> IF fd[p] = "none" THEN "none" ELSE "dead"]

Init ==
  /\ sysfs \in BOOLEAN
  /\ isExported = FALSE /\ holder = {}
  /\ pc = [p \in Process |-> "idle"]
  /\ fd = [p \in Process |-> "none"]
  /\ exported = [p \in Process |-> FALSE]
  /\ failed = FALSE

-----------------------------------------------------------------------------
(* gpio_sysfs_open and gpio_sysfs_set_direction *)

\* The pin may have been exported before: that error goes unnoticed.
Export(p) ==
  /\ sysfs /\ ~Using(p)
  /\ isExported' = TRUE
  /\ exported' = [exported EXCEPT ![p] = FALSE]
  /\ pc' = [pc EXCEPT ![p] = "open"]
  /\ UNCHANGED <<sysfs, holder, fd, failed>>

\* After 100 ms the value file is there, unless the pin was unexported again
\* or udev has not got to its permissions yet.
OpenValue(p) ==
  /\ pc[p] = "open"
  /\ \/ /\ isExported
        /\ fd' = [fd EXCEPT ![p] = "live"]
        /\ exported' = [exported EXCEPT ![p] = TRUE]
        /\ pc' = [pc EXCEPT ![p] = "direction"]
     \/ /\ pc' = [pc EXCEPT ![p] = "unexport"]
        /\ UNCHANGED <<fd, exported>>
  /\ UNCHANGED <<sysfs, isExported, holder, failed>>

\* The first of the two steps of the second attempt.
Unexport(p) ==
  /\ pc[p] = "unexport"
  /\ isExported' = FALSE
  /\ fd' = Unexported
  /\ pc' = [pc EXCEPT ![p] = "reexport"]
  /\ UNCHANGED <<sysfs, holder, exported, failed>>

Reexport(p) ==
  /\ pc[p] = "reexport"
  /\ isExported' = TRUE
  /\ pc' = [pc EXCEPT ![p] = "reopen"]
  /\ UNCHANGED <<sysfs, holder, fd, exported, failed>>

\* A second failure ends the call (-1) and leaves the pin exported.
ReopenValue(p) ==
  /\ pc[p] = "reopen"
  /\ \/ /\ isExported
        /\ fd' = [fd EXCEPT ![p] = "live"]
        /\ exported' = [exported EXCEPT ![p] = TRUE]
        /\ pc' = [pc EXCEPT ![p] = "direction"]
        /\ UNCHANGED failed
     \/ /\ pc' = [pc EXCEPT ![p] = "idle"]
        /\ failed' = TRUE
        /\ UNCHANGED <<fd, exported>>
  /\ UNCHANGED <<sysfs, isExported, holder>>

\* fopen of the direction file fails if the pin is no longer exported: the
\* call returns -1 with file and export in the caller's hands.
SetDirection(p) ==
  /\ pc[p] = "direction"
  /\ pc' = [pc EXCEPT ![p] = "idle"]
  /\ failed' = (failed \/ ~isExported)
  /\ UNCHANGED <<sysfs, isExported, holder, fd, exported>>

-----------------------------------------------------------------------------
\* gpio_v2_open: the request fails while another process holds the line.
V2Open(p) ==
  /\ ~sysfs /\ ~Using(p)
  /\ holder = {}
  /\ holder' = {p}
  /\ fd' = [fd EXCEPT ![p] = "live"]
  /\ UNCHANGED <<sysfs, isExported, pc, exported, failed>>

\* Variant: the file is closed and the pin stays exported.
CloseFile(p) ==
  /\ pc[p] = "idle" /\ fd[p] # "none"
  /\ fd' = [fd EXCEPT ![p] = "none"]
  /\ holder' = holder \ {p}
  /\ exported' = [exported EXCEPT ![p] = FALSE]
  /\ UNCHANGED <<sysfs, isExported, pc, failed>>

\* bb_gpio_close
Close(p) ==
  /\ pc[p] = "idle" /\ fd[p] # "none"
  /\ IF exported[p]
     THEN /\ isExported' = FALSE
          /\ fd' = [Unexported EXCEPT ![p] = "none"]
     ELSE /\ fd' = [fd EXCEPT ![p] = "none"]
          /\ UNCHANGED isExported
  /\ holder' = holder \ {p}
  /\ exported' = [exported EXCEPT ![p] = FALSE]
  /\ UNCHANGED <<sysfs, pc, failed>>

\* The kernel closes the files of a process that dies; an export stays.
Kill(p) ==
  /\ Using(p)
  /\ pc' = [pc EXCEPT ![p] = "idle"]
  /\ fd' = [fd EXCEPT ![p] = "none"]
  /\ exported' = [exported EXCEPT ![p] = FALSE]
  /\ holder' = holder \ {p}
  /\ failed' = TRUE
  /\ UNCHANGED <<sysfs, isExported>>

Next ==
  \E p \in Process :
    \/ Export(p) \/ OpenValue(p) \/ Unexport(p) \/ Reexport(p) \/ ReopenValue(p)
    \/ SetDirection(p) \/ V2Open(p) \/ Close(p) \/ Kill(p)

Spec == Init /\ [][Next]_gpioVars

-----------------------------------------------------------------------------
\* bb_gpio_read and bb_gpio_write return -1 unless the line answers.
Answers(p) == fd[p] = "live"

\* However the opens, second attempts and closes of the processes interleave,
\* the pin is exported exactly while somebody uses it: a line that answers has
\* its pin exported, and an exported pin has a line that answers or an open
\* under way (unless an open failed or a process was killed, which leave it
\* exported, bb_hal_gpio.c:68).  Without sysfs, a line that answers is held.
ExportedWhileUsed ==
  IF sysfs
  THEN /\ \A p \in Process : Answers(p) => isExported
       /\ isExported /\ ~failed => \E p \in Process : Answers(p) \/ pc[p] # "idle"
  ELSE holder = {p \in Process : Answers(p)}
=============================================================================
