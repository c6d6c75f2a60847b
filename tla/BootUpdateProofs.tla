-------------------------- MODULE BootUpdateProofs --------------------------
(***************************************************************************)
(* Proofs about BootUpdate for every boot limit and every number of failed *)
(* saves, resets, installations, factory resets and harms.                 *)
(***************************************************************************)
EXTENDS BootUpdate, TLAPS

\* Tools and services run only in a system that is up; in the middle of a copy
\* there is a partition mounted, its device tree is torn, and the package has one.
RunsInv ==
  /\ power # "up" => job = "idle" /\ confirm = "none"
  /\ job = "dtbWrite" =>
       pkg \in {"good", "bad"} /\ mount # "none" /\ dtb[Mounted] = "torn"

\* The boots a slot has had and those it has left make up the limit; only a save
\* that failed gives it one more.
BudgetInv ==
  /\ attempt + tries <= BootLimit + 1 + saveFails
  /\ inherited \/ attempt + tries >= BootLimit

\* Slots whose device tree is whole once the write in progress is through.
Sound(s) ==
  Boots(dtb[s]) \/ (job = "dtbWrite" /\ pkg = "good" /\ s = Mounted)

KernelInv == \A s \in Slots : kernels[s][Loaded] = "factory"

\* Each harm takes at most one slot.
HarmInv ==
  /\ harms = 0 => \A s \in Slots : Sound(s)
  /\ harms = 1 => \E s \in Slots : Sound(s)

IInv == TypeOK /\ RunsInv /\ BudgetInv /\ EnvNamesRunningSlot /\ KernelInv /\ HarmInv

-----------------------------------------------------------------------------
LEMMA InitInductive == Init => IInv
<1> SUFFICES ASSUME Init PROVE IInv
  OBVIOUS
<1>1. TypeOK
  <2>1. EnvTypeOK /\ JobTypeOK /\ CountTypeOK
    BY LimitAssumption, BoundAssumption, ChoiceAssumption
    DEF Init, EnvTypeOK, JobTypeOK, CountTypeOK, Slots
  <2>2. DiskTypeOK
    BY ChoiceAssumption DEF Init, DiskTypeOK, Slots
  <2>3. FlagTypeOK
    BY DEF Init, FlagTypeOK
  <2> QED BY <2>1, <2>2, <2>3 DEF TypeOK
<1>2. RunsInv /\ BudgetInv /\ EnvNamesRunningSlot
  BY LimitAssumption DEF Init, RunsInv, BudgetInv, EnvNamesRunningSlot
<1>3. KernelInv /\ HarmInv
  BY DEF Init, KernelInv, HarmInv, Sound, Boots, Names, Loaded
<1> QED BY <1>1, <1>2, <1>3 DEF IInv

\* The environment and the running slot.
LEMMA EnvTypeStep == IInv /\ [Next]_vars => EnvTypeOK'
<1> SUFFICES ASSUME IInv, [Next]_vars PROVE EnvTypeOK'
  OBVIOUS
<1> USE LimitAssumption DEF IInv, TypeOK, EnvTypeOK, JobTypeOK, vars, envVars, diskVars, jobVars, history, saveVars
<1>1. CASE Try
  BY <1>1 DEF Try, Saves, Slots, Selected
<1>2. CASE Fallback
  BY <1>2 DEF Fallback, Saves, Slots, Other, Selected
<1>3. CASE Boot
  BY <1>3 DEF Boot, Slots
<1>4. CASE HangEnds
  BY <1>4 DEF HangEnds
<1>5. CASE Reset
  BY <1>5 DEF Reset
<1>6. CASE ConfirmOk
  BY <1>6 DEF ConfirmOk
<1>7. CASE ConfirmAttempt
  BY <1>7 DEF ConfirmAttempt, WriteAttempt
<1>8. CASE InstallStart
  BY <1>8 DEF InstallStart, Other
<1>9. CASE InstallCopy
  BY <1>9 DEF InstallCopy
<1>10. CASE InstallCopied
  BY <1>10 DEF InstallCopied
<1>11. CASE SetSlot
  BY <1>11 DEF SetSlot, Slots, WriteSlot
<1>12. CASE SetAttempt
  BY <1>12 DEF SetAttempt, WriteAttempt
<1>13. CASE SetOk
  BY <1>13 DEF SetOk
<1>14. CASE JobEnds
  BY <1>14 DEF JobEnds
<1>15. CASE ResetStart
  BY <1>15 DEF ResetStart
<1>16. CASE ResetRoots
  BY <1>16 DEF ResetRoots, Reimage
<1>17. CASE UNCHANGED vars
  BY <1>17 DEF EnvTypeOK
<1> QED
  BY <1>1, <1>2, <1>3, <1>4, <1>5, <1>6, <1>7, <1>8, <1>9, <1>10, <1>11, <1>12, <1>13, <1>14, <1>15, <1>16, <1>17
  DEF Next, Loader, Confirm, Install, FactoryReset, Job

\* The partitions.
LEMMA DiskTypeStep == IInv /\ [Next]_vars => DiskTypeOK'
<1> SUFFICES ASSUME IInv, [Next]_vars PROVE DiskTypeOK'
  OBVIOUS
<1> USE DEF IInv, TypeOK, EnvTypeOK, DiskTypeOK, JobTypeOK, RunsInv, vars, envVars, diskVars, jobVars, history, saveVars
<1>1. CASE Try
  BY <1>1 DEF Try
<1>2. CASE Fallback
  BY <1>2 DEF Fallback
<1>3. CASE Boot
  BY <1>3 DEF Boot
<1>4. CASE HangEnds
  BY <1>4 DEF HangEnds
<1>5. CASE Reset
  BY <1>5 DEF Reset
<1>6. CASE ConfirmOk
  BY <1>6 DEF ConfirmOk
<1>7. CASE ConfirmAttempt
  BY <1>7 DEF ConfirmAttempt
<1>8. CASE InstallStart
  BY <1>8 DEF InstallStart
<1>9. CASE InstallCopy
  BY <1>9 DEF InstallCopy, Slots, Names, Written, Mounted, Other
<1>10. CASE InstallCopied
  BY <1>10 DEF InstallCopied, Slots, Mounted, Other
<1>11. CASE SetSlot
  BY <1>11 DEF SetSlot
<1>12. CASE SetAttempt
  BY <1>12 DEF SetAttempt
<1>13. CASE SetOk
  BY <1>13 DEF SetOk
<1>14. CASE JobEnds
  BY <1>14 DEF JobEnds
<1>15. CASE ResetStart
  BY <1>15 DEF ResetStart
<1>16. CASE ResetRoots
  BY <1>16 DEF ResetRoots, Reimage
<1>17. CASE UNCHANGED vars
  BY <1>17 DEF DiskTypeOK
<1> QED
  BY <1>1, <1>2, <1>3, <1>4, <1>5, <1>6, <1>7, <1>8, <1>9, <1>10, <1>11, <1>12, <1>13, <1>14, <1>15, <1>16, <1>17
  DEF Next, Loader, Confirm, Install, FactoryReset, Job

\* The installer, the factory reset and the confirmation.
LEMMA JobTypeStep == IInv /\ [Next]_vars => JobTypeOK'
<1> SUFFICES ASSUME IInv, [Next]_vars PROVE JobTypeOK'
  OBVIOUS
<1> USE ChoiceAssumption DEF IInv, TypeOK, JobTypeOK, vars, envVars, diskVars, jobVars, history, saveVars
<1>1. CASE Try
  BY <1>1 DEF Try
<1>2. CASE Fallback
  BY <1>2 DEF Fallback, Other
<1>3. CASE Boot
  BY <1>3 DEF Boot
<1>4. CASE HangEnds
  BY <1>4 DEF HangEnds
<1>5. CASE Reset
  BY <1>5 DEF Reset, Slots
<1>6. CASE ConfirmOk
  BY <1>6 DEF ConfirmOk
<1>7. CASE ConfirmAttempt
  BY <1>7 DEF ConfirmAttempt
<1>8. CASE InstallStart
  BY <1>8 DEF InstallStart, Slots, Other
<1>9. CASE InstallCopy
  BY <1>9 DEF InstallCopy
<1>10. CASE InstallCopied
  BY <1>10 DEF InstallCopied
<1>11. CASE SetSlot
  BY <1>11 DEF SetSlot
<1>12. CASE SetAttempt
  BY <1>12 DEF SetAttempt
<1>13. CASE SetOk
  BY <1>13 DEF SetOk
<1>14. CASE JobEnds
  BY <1>14 DEF JobEnds, Slots
<1>15. CASE ResetStart
  BY <1>15 DEF ResetStart, Slots
<1>16. CASE ResetRoots
  BY <1>16 DEF ResetRoots, Reimage
<1>17. CASE UNCHANGED vars
  BY <1>17 DEF JobTypeOK
<1> QED
  BY <1>1, <1>2, <1>3, <1>4, <1>5, <1>6, <1>7, <1>8, <1>9, <1>10, <1>11, <1>12, <1>13, <1>14, <1>15, <1>16, <1>17
  DEF Next, Loader, Confirm, Install, FactoryReset, Job

\* The counters; the budget bounds the tries.
LEMMA CountTypeStep == IInv /\ [Next]_vars => CountTypeOK'
<1> SUFFICES ASSUME IInv, [Next]_vars PROVE CountTypeOK'
  OBVIOUS
<1> USE LimitAssumption, BoundAssumption DEF IInv, TypeOK, EnvTypeOK, CountTypeOK, BudgetInv, vars, envVars, diskVars, jobVars, history, saveVars
<1>1. CASE Try
  BY <1>1 DEF Try, Saves
<1>2. CASE Fallback
  BY <1>2 DEF Fallback, Saves
<1>3. CASE Boot
  BY <1>3 DEF Boot
<1>4. CASE HangEnds
  BY <1>4 DEF HangEnds
<1>5. CASE Reset
  BY <1>5 DEF Reset
<1>6. CASE ConfirmOk
  BY <1>6 DEF ConfirmOk
<1>7. CASE ConfirmAttempt
  BY <1>7 DEF ConfirmAttempt, WriteAttempt
<1>8. CASE InstallStart
  BY <1>8 DEF InstallStart
<1>9. CASE InstallCopy
  BY <1>9 DEF InstallCopy
<1>10. CASE InstallCopied
  BY <1>10 DEF InstallCopied
<1>11. CASE SetSlot
  BY <1>11 DEF SetSlot, WriteSlot
<1>12. CASE SetAttempt
  BY <1>12 DEF SetAttempt, WriteAttempt
<1>13. CASE SetOk
  BY <1>13 DEF SetOk
<1>14. CASE JobEnds
  BY <1>14 DEF JobEnds
<1>15. CASE ResetStart
  BY <1>15 DEF ResetStart
<1>16. CASE ResetRoots
  BY <1>16 DEF ResetRoots, Reimage
<1>17. CASE UNCHANGED vars
  BY <1>17 DEF CountTypeOK
<1> QED
  BY <1>1, <1>2, <1>3, <1>4, <1>5, <1>6, <1>7, <1>8, <1>9, <1>10, <1>11, <1>12, <1>13, <1>14, <1>15, <1>16, <1>17
  DEF Next, Loader, Confirm, Install, FactoryReset, Job

\* The flags.
LEMMA FlagTypeStep == IInv /\ [Next]_vars => FlagTypeOK'
<1> SUFFICES ASSUME IInv, [Next]_vars PROVE FlagTypeOK'
  OBVIOUS
<1> USE DEF IInv, TypeOK, FlagTypeOK, vars, envVars, diskVars, jobVars, history, saveVars
<1>1. CASE Try
  BY <1>1, Zenon DEF Try, Saves
<1>2. CASE Fallback
  BY <1>2, Zenon DEF Fallback, Saves
<1>3. CASE Boot
  BY <1>3, Zenon DEF Boot
<1>4. CASE HangEnds
  BY <1>4, Zenon DEF HangEnds
<1>5. CASE Reset
  BY <1>5, Zenon DEF Reset
<1>6. CASE ConfirmOk
  BY <1>6, Zenon DEF ConfirmOk
<1>7. CASE ConfirmAttempt
  BY <1>7, Zenon DEF ConfirmAttempt, WriteAttempt
<1>8. CASE InstallStart
  BY <1>8, Zenon DEF InstallStart
<1>9. CASE InstallCopy
  BY <1>9, Zenon DEF InstallCopy
<1>10. CASE InstallCopied
  BY <1>10, Zenon DEF InstallCopied
<1>11. CASE SetSlot
  BY <1>11, Zenon DEF SetSlot, WriteSlot
<1>12. CASE SetAttempt
  BY <1>12, Zenon DEF SetAttempt, WriteAttempt
<1>13. CASE SetOk
  BY <1>13, Zenon DEF SetOk
<1>14. CASE JobEnds
  BY <1>14, Zenon DEF JobEnds
<1>15. CASE ResetStart
  BY <1>15, Zenon DEF ResetStart
<1>16. CASE ResetRoots
  BY <1>16, Zenon DEF ResetRoots, Reimage
<1>17. CASE UNCHANGED vars
  BY <1>17, Zenon DEF FlagTypeOK
<1> QED
  BY <1>1, <1>2, <1>3, <1>4, <1>5, <1>6, <1>7, <1>8, <1>9, <1>10, <1>11, <1>12, <1>13, <1>14, <1>15, <1>16, <1>17
  DEF Next, Loader, Confirm, Install, FactoryReset, Job

LEMMA TypeStep == IInv /\ [Next]_vars => TypeOK'
BY EnvTypeStep, DiskTypeStep, JobTypeStep, CountTypeStep, FlagTypeStep DEF TypeOK

\* Nothing runs in a system that is not up.
LEMMA RunsStep == IInv /\ [Next]_vars => RunsInv'
<1> SUFFICES ASSUME IInv, [Next]_vars PROVE RunsInv'
  OBVIOUS
<1> USE DEF IInv, RunsInv, Mounted, vars, envVars, diskVars, jobVars, history, saveVars
<1>1. CASE Try
  BY <1>1 DEF Try
<1>2. CASE Fallback
  BY <1>2 DEF Fallback
<1>3. CASE Boot
  BY <1>3 DEF Boot
<1>4. CASE HangEnds
  BY <1>4 DEF HangEnds
<1>5. CASE Reset
  BY <1>5 DEF Reset
<1>6. CASE ConfirmOk
  BY <1>6 DEF ConfirmOk
<1>7. CASE ConfirmAttempt
  BY <1>7 DEF ConfirmAttempt
<1>8. CASE InstallStart
  BY <1>8 DEF InstallStart
<1>9. CASE InstallCopy
  BY <1>9 DEF InstallCopy, Other, TypeOK, EnvTypeOK, DiskTypeOK, JobTypeOK, Slots
<1>10. CASE InstallCopied
  BY <1>10 DEF InstallCopied
<1>11. CASE SetSlot
  BY <1>11 DEF SetSlot
<1>12. CASE SetAttempt
  BY <1>12 DEF SetAttempt
<1>13. CASE SetOk
  BY <1>13 DEF SetOk
<1>14. CASE JobEnds
  BY <1>14 DEF JobEnds
<1>15. CASE ResetStart
  BY <1>15 DEF ResetStart
<1>16. CASE ResetRoots
  BY <1>16 DEF ResetRoots, Reimage
<1>17. CASE UNCHANGED vars
  BY <1>17 DEF RunsInv
<1> QED
  BY <1>1, <1>2, <1>3, <1>4, <1>5, <1>6, <1>7, <1>8, <1>9, <1>10, <1>11, <1>12, <1>13, <1>14, <1>15, <1>16, <1>17
  DEF Next, Loader, Confirm, Install, FactoryReset, Job

\* Boots had and boots left.
LEMMA BudgetStep == IInv /\ [Next]_vars => BudgetInv'
<1> SUFFICES ASSUME IInv, [Next]_vars PROVE BudgetInv'
  OBVIOUS
<1> USE LimitAssumption DEF IInv, TypeOK, EnvTypeOK, DiskTypeOK, JobTypeOK, CountTypeOK, BudgetInv, vars, envVars, diskVars, jobVars, history, saveVars
<1>1. CASE Try
  BY <1>1 DEF Try, Saves, Selected
<1>2. CASE Fallback
  BY <1>2 DEF Fallback, Saves, Other, Selected
<1>3. CASE Boot
  BY <1>3 DEF Boot
<1>4. CASE HangEnds
  BY <1>4 DEF HangEnds
<1>5. CASE Reset
  BY <1>5 DEF Reset, Writing
<1>6. CASE ConfirmOk
  BY <1>6 DEF ConfirmOk
<1>7. CASE ConfirmAttempt
  BY <1>7 DEF ConfirmAttempt, WriteAttempt
<1>8. CASE InstallStart
  BY <1>8 DEF InstallStart, Other
<1>9. CASE InstallCopy
  BY <1>9 DEF InstallCopy
<1>10. CASE InstallCopied
  BY <1>10 DEF InstallCopied
<1>11. CASE SetSlot
  BY <1>11 DEF SetSlot, WriteSlot
<1>12. CASE SetAttempt
  BY <1>12 DEF SetAttempt, WriteAttempt
<1>13. CASE SetOk
  BY <1>13 DEF SetOk
<1>14. CASE JobEnds
  BY <1>14 DEF JobEnds
<1>15. CASE ResetStart
  BY <1>15 DEF ResetStart
<1>16. CASE ResetRoots
  BY <1>16 DEF ResetRoots, Reimage
<1>17. CASE UNCHANGED vars
  BY <1>17 DEF BudgetInv
<1> QED
  BY <1>1, <1>2, <1>3, <1>4, <1>5, <1>6, <1>7, <1>8, <1>9, <1>10, <1>11, <1>12, <1>13, <1>14, <1>15, <1>16, <1>17
  DEF Next, Loader, Confirm, Install, FactoryReset, Job

\* The environment and the running slot.
LEMMA NameStep == IInv /\ [Next]_vars => EnvNamesRunningSlot'
<1> SUFFICES ASSUME IInv, [Next]_vars PROVE EnvNamesRunningSlot'
  OBVIOUS
<1> USE DEF IInv, TypeOK, EnvTypeOK, DiskTypeOK, JobTypeOK, CountTypeOK, EnvNamesRunningSlot, RunsInv, vars, envVars, diskVars, jobVars, history, saveVars
<1>1. CASE Try
  BY <1>1 DEF Try, Saves, Slots, Selected
<1>2. CASE Fallback
  BY <1>2 DEF Fallback, Saves, Slots, Other, Selected
<1>3. CASE Boot
  BY <1>3 DEF Boot
<1>4. CASE HangEnds
  BY <1>4 DEF HangEnds
<1>5. CASE Reset
  BY <1>5 DEF Reset, Writing
<1>6. CASE ConfirmOk
  BY <1>6 DEF ConfirmOk
<1>7. CASE ConfirmAttempt
  BY <1>7 DEF ConfirmAttempt, WriteAttempt
<1>8. CASE InstallStart
  BY <1>8 DEF InstallStart, Other
<1>9. CASE InstallCopy
  BY <1>9 DEF InstallCopy
<1>10. CASE InstallCopied
  BY <1>10 DEF InstallCopied
<1>11. CASE SetSlot
  BY <1>11 DEF SetSlot, WriteSlot
<1>12. CASE SetAttempt
  BY <1>12 DEF SetAttempt, WriteAttempt
<1>13. CASE SetOk
  BY <1>13 DEF SetOk
<1>14. CASE JobEnds
  BY <1>14 DEF JobEnds
<1>15. CASE ResetStart
  BY <1>15 DEF ResetStart
<1>16. CASE ResetRoots
  BY <1>16 DEF ResetRoots, Reimage
<1>17. CASE UNCHANGED vars
  BY <1>17 DEF EnvNamesRunningSlot
<1> QED
  BY <1>1, <1>2, <1>3, <1>4, <1>5, <1>6, <1>7, <1>8, <1>9, <1>10, <1>11, <1>12, <1>13, <1>14, <1>15, <1>16, <1>17
  DEF Next, Loader, Confirm, Install, FactoryReset, Job

\* No installation writes the kernel that is loaded.
LEMMA KernelStep == IInv /\ [Next]_vars => KernelInv'
<1> SUFFICES ASSUME IInv, [Next]_vars PROVE KernelInv'
  OBVIOUS
<1> USE DEF IInv, TypeOK, EnvTypeOK, DiskTypeOK, JobTypeOK, CountTypeOK, KernelInv, vars, envVars, diskVars, jobVars, history, saveVars
<1>1. CASE Try
  BY <1>1 DEF Try
<1>2. CASE Fallback
  BY <1>2 DEF Fallback
<1>3. CASE Boot
  BY <1>3 DEF Boot
<1>4. CASE HangEnds
  BY <1>4 DEF HangEnds
<1>5. CASE Reset
  BY <1>5 DEF Reset
<1>6. CASE ConfirmOk
  BY <1>6 DEF ConfirmOk
<1>7. CASE ConfirmAttempt
  BY <1>7 DEF ConfirmAttempt
<1>8. CASE InstallStart
  BY <1>8 DEF InstallStart
<1>9. CASE InstallCopy
  BY <1>9 DEF InstallCopy, Slots, Names, Written, Loaded, Mounted
<1>10. CASE InstallCopied
  BY <1>10 DEF InstallCopied
<1>11. CASE SetSlot
  BY <1>11 DEF SetSlot
<1>12. CASE SetAttempt
  BY <1>12 DEF SetAttempt
<1>13. CASE SetOk
  BY <1>13 DEF SetOk
<1>14. CASE JobEnds
  BY <1>14 DEF JobEnds
<1>15. CASE ResetStart
  BY <1>15 DEF ResetStart
<1>16. CASE ResetRoots
  BY <1>16 DEF ResetRoots, Reimage
<1>17. CASE UNCHANGED vars
  BY <1>17 DEF KernelInv
<1> QED
  BY <1>1, <1>2, <1>3, <1>4, <1>5, <1>6, <1>7, <1>8, <1>9, <1>10, <1>11, <1>12, <1>13, <1>14, <1>15, <1>16, <1>17
  DEF Next, Loader, Confirm, Install, FactoryReset, Job

\* One harm, one slot.
LEMMA HarmStep == IInv /\ [Next]_vars => HarmInv'
<1> SUFFICES ASSUME IInv, [Next]_vars PROVE HarmInv'
  OBVIOUS
<1> USE BoundAssumption DEF IInv, TypeOK, EnvTypeOK, DiskTypeOK, JobTypeOK, CountTypeOK, HarmInv, RunsInv, Sound, Mounted, vars, envVars, diskVars, jobVars, history, saveVars
<1>1. CASE Try
  BY <1>1 DEF Try
<1>2. CASE Fallback
  BY <1>2 DEF Fallback
<1>3. CASE Boot
  BY <1>3 DEF Boot
<1>4. CASE HangEnds
  BY <1>4 DEF HangEnds
<1>5. CASE Reset
  BY <1>5 DEF Reset, Writing, Slots
<1>6. CASE ConfirmOk
  BY <1>6 DEF ConfirmOk
<1>7. CASE ConfirmAttempt
  BY <1>7 DEF ConfirmAttempt
<1>8. CASE InstallStart
  BY <1>8 DEF InstallStart
<1>9. CASE InstallCopy
  BY <1>9 DEF InstallCopy, Slots, Other, Boots
<1>10. CASE InstallCopied
  <2>1. CASE dtb' = [dtb EXCEPT ![Mounted] = pkg] /\ UNCHANGED harms
    <3>1. \A s \in Slots : Sound(s) => Sound(s)'
      <4> SUFFICES ASSUME NEW s \in Slots, Sound(s) PROVE Sound(s)'
        OBVIOUS
      <4>2. CASE s = Mounted
        BY <1>10, <2>1, <4>2 DEF InstallCopied, Boots, Slots
      <4>3. CASE s # Mounted
        BY <1>10, <2>1, <4>3 DEF InstallCopied, Boots, Slots
      <4> QED BY <4>2, <4>3
    <3> QED BY <2>1, <3>1
  <2>2. CASE harms' = harms + 1 /\ UNCHANGED dtb
    BY <1>10, <2>2 DEF InstallCopied, Slots, Other, Boots
  <2> QED BY <1>10, <2>1, <2>2 DEF InstallCopied
<1>11. CASE SetSlot
  BY <1>11 DEF SetSlot
<1>12. CASE SetAttempt
  BY <1>12 DEF SetAttempt
<1>13. CASE SetOk
  BY <1>13 DEF SetOk
<1>14. CASE JobEnds
  BY <1>14 DEF JobEnds
<1>15. CASE ResetStart
  BY <1>15 DEF ResetStart
<1>16. CASE ResetRoots
  BY <1>16 DEF ResetRoots, Reimage, Slots
<1>17. CASE UNCHANGED vars
  BY <1>17 DEF HarmInv
<1> QED
  BY <1>1, <1>2, <1>3, <1>4, <1>5, <1>6, <1>7, <1>8, <1>9, <1>10, <1>11, <1>12, <1>13, <1>14, <1>15, <1>16, <1>17
  DEF Next, Loader, Confirm, Install, FactoryReset, Job

LEMMA NextInductive == IInv /\ [Next]_vars => IInv'
BY TypeStep, RunsStep, BudgetStep, NameStep, KernelStep, HarmStep DEF IInv

\* The inductive invariant holds in every reachable state.
THEOREM InductiveInvariant == Spec => []IInv
<1>1. Init => IInv
  BY InitInductive
<1>2. IInv /\ [Next]_vars => IInv'
  BY NextInductive
<1> QED BY <1>1, <1>2, PTL DEF Spec

\* Type correctness (BootUpdate!TypeOK) for every limit and bound.
THEOREM TypeCorrect == Spec => []TypeOK
<1>1. IInv => TypeOK
  BY DEF IInv
<1> QED BY <1>1, InductiveInvariant, PTL

\* After any history of fallbacks that were saved the installer's current slot is
\* the running one (BootUpdate!EnvNamesRunningSlot).
THEOREM EnvIsCurrent == Spec => []EnvNamesRunningSlot
<1>1. IInv => EnvNamesRunningSlot
  BY DEF IInv
<1> QED BY <1>1, InductiveInvariant, PTL

\* One interrupted write or bad package never takes the boot files of both slots
\* (BootUpdate!OneHarmLeavesASlot).
THEOREM SlotSurvives == Spec => []OneHarmLeavesASlot
<1>1. IInv => OneHarmLeavesASlot
  <2> SUFFICES ASSUME IInv, harms <= 1, ~Writing
               PROVE \E s \in Slots : BootFiles(s)
    BY DEF OneHarmLeavesASlot
  <2>1. harms = 0 \/ harms = 1
    BY BoundAssumption DEF IInv, TypeOK, CountTypeOK
  <2>2. PICK s \in Slots : Sound(s)
    BY <2>1 DEF IInv, HarmInv, Slots
  <2>3. Boots(dtb[s])
    BY <2>2 DEF Sound, Writing
  <2>4. Boots(kernels[s][Loaded])
    BY DEF IInv, KernelInv, Boots
  <2> QED BY <2>3, <2>4 DEF BootFiles
<1> QED BY <1>1, InductiveInvariant, PTL

\* No slot is abandoned before it has had its boots, for every limit
\* (BootUpdate!TriedBeforeAbandoned).
THEOREM NotAbandonedEarly == Spec => TriedBeforeAbandoned
<1>1. IInv /\ [Next]_vars
        => [(power = "uboot" /\ power' = "load" /\ running' # Selected)
              => tries >= BootLimit \/ inherited]_vars
  <2> SUFFICES ASSUME IInv, Next, power = "uboot", power' = "load", running' # Selected
               PROVE tries >= BootLimit \/ inherited
    OBVIOUS
  <2>1. Try \/ Fallback
    BY DEF Next, Loader, Confirm, Install, FactoryReset, Job, Boot, HangEnds, Reset,
           ConfirmOk, ConfirmAttempt, InstallStart, InstallCopy, InstallCopied,
           SetSlot, SetAttempt, SetOk, JobEnds, ResetStart, ResetRoots
  <2>2. CASE Try
    BY <2>2 DEF Try
  <2>3. CASE Fallback
    BY <2>3, LimitAssumption DEF Fallback, Saves, IInv, TypeOK, EnvTypeOK, DiskTypeOK, JobTypeOK, CountTypeOK, BudgetInv
  <2> QED BY <2>1, <2>2, <2>3
<1> QED BY <1>1, InductiveInvariant, PTL DEF Spec, TriedBeforeAbandoned

-----------------------------------------------------------------------------
(* What ComesUp rests on: a device with a slot that works and that is not up *)
(* comes nearer to it with every step.                                       *)

\* The boots that fail before a slot that works is booted, when boot.cmd starts:
\* those left to the selected slot if that one fails, or the other's if the
\* counter is used up just before.
Failures ==
  CASE attempt > 0 /\ Works(Selected) -> 0
    [] ~ (attempt > 0 /\ Works(Selected)) /\ Works(Other(Selected)) -> attempt
    [] ~ (attempt > 0 /\ Works(Selected)) /\ ~Works(Other(Selected)) -> BootLimit + 1

\* The steps left until the system is up.
Distance ==
  CASE power = "uboot" -> 3 * Failures + 2
    [] power = "load"  -> IF Works(running) THEN 1 ELSE 3 * Failures + 4
    [] power = "hung"  -> 3 * Failures + 3
    [] power = "up"    -> 0

SomeWorks == \E s \in Slots : Works(s)

\* Whatever the environment says, at most BootLimit + 1 boots fail.
WithinReach == SomeWorks => Distance \in 0 .. 3 * BootLimit + 7

\* While a slot works, each step of a device that is not up leaves it fewer steps
\* to go (boot.cmd:8-43), a save that fails and a reset before the kernel is started
\* excepted; and none takes the slot away.
ComesNearer ==
  [][SomeWorks /\ power # "up" =>
       /\ SomeWorks'
       /\ \/ Distance' < Distance
          \/ saveFails' = saveFails + 1
          \/ power = "load" /\ resets' = resets + 1]_vars

LEMMA DistanceType == IInv => WithinReach
<1> SUFFICES ASSUME IInv, SomeWorks PROVE Distance \in 0 .. 3 * BootLimit + 7
  BY DEF WithinReach
<1>1. Failures \in 0 .. BootLimit + 1
  BY LimitAssumption DEF Failures, IInv, TypeOK, EnvTypeOK
<1> QED BY <1>1, LimitAssumption DEF Distance, IInv, TypeOK, EnvTypeOK

\* Before the kernel is started the environment names the slot it is loaded from.
LEMMA TryNearer ==
  IInv /\ SomeWorks /\ Try => SomeWorks' /\ (Distance' < Distance \/ saveFails' = saveFails + 1)
<1> SUFFICES ASSUME IInv, SomeWorks, Try
             PROVE  SomeWorks' /\ (Distance' < Distance \/ saveFails' = saveFails + 1)
  OBVIOUS
<1>1. \A s \in Slots : Works(s)' = Works(s)
  BY DEF Try, diskVars, Works, BootFiles
<1>2. SomeWorks'
  BY <1>1 DEF SomeWorks, Slots
<1> SUFFICES ASSUME saveFails' # saveFails + 1 PROVE SomeWorks' /\ Distance' < Distance
  BY <1>2
<1>3. Selected \in Slots /\ Selected' = Selected /\ running' = Selected /\ Other(Selected) \in Slots
  BY DEF Try, Saves, Selected, Slots, Other
<1>4. attempt \in Nat /\ attempt > 0 /\ attempt' = attempt - 1 /\ BootLimit \in Nat
  BY LimitAssumption DEF Try, Saves, IInv, TypeOK, EnvTypeOK
<1>5. Works(Selected) \/ Works(Other(Selected))
  BY DEF SomeWorks, Slots, Other, Selected
<1>6. power = "uboot" /\ power' = "load"
  BY DEF Try
<1>7. CASE Works(Selected)
  <2>1. Failures = 0 /\ Distance = 2
    BY <1>4, <1>6, <1>7 DEF Failures, Distance
  <2>2. Distance' = 1
    BY <1>1, <1>3, <1>6, <1>7 DEF Distance
  <2> QED BY <1>2, <2>1, <2>2
<1>8. CASE ~Works(Selected)
  <2>1. Works(Other(Selected)) /\ Failures = attempt /\ Distance = 3 * attempt + 2
    BY <1>4, <1>5, <1>6, <1>8 DEF Failures, Distance
  <2>2. ~Works(Selected)' /\ Works(Other(Selected))'
    BY <1>1, <1>3, <1>8, <2>1
  <2>3. Failures' = attempt - 1
    BY <1>4, <2>2 DEF Failures
  <2>4. ~Works(running)'
    BY <1>1, <1>3, <1>8
  <2>5. Distance' = 3 * (attempt - 1) + 4
    BY <1>6, <2>3, <2>4 DEF Distance
  <2> QED BY <1>4, <1>2, <2>1, <2>5
<1> QED BY <1>7, <1>8

LEMMA FallbackNearer ==
  IInv /\ SomeWorks /\ Fallback => SomeWorks' /\ (Distance' < Distance \/ saveFails' = saveFails + 1)
<1> SUFFICES ASSUME IInv, SomeWorks, Fallback
             PROVE  SomeWorks' /\ (Distance' < Distance \/ saveFails' = saveFails + 1)
  OBVIOUS
<1>1. \A s \in Slots : Works(s)' = Works(s)
  BY DEF Fallback, diskVars, Works, BootFiles
<1>2. SomeWorks'
  BY <1>1 DEF SomeWorks, Slots
<1> SUFFICES ASSUME saveFails' # saveFails + 1 PROVE SomeWorks' /\ Distance' < Distance
  BY <1>2
<1>3. /\ Selected \in Slots /\ Other(Selected) \in Slots
      /\ Selected' = Other(Selected) /\ Other(Selected)' = Selected /\ running' = Other(Selected)
  BY DEF Fallback, Saves, Selected, Slots, Other
<1>4. attempt = 0 /\ attempt' = BootLimit /\ BootLimit \in Nat /\ BootLimit > 0
  BY LimitAssumption DEF Fallback, Saves, IInv, TypeOK, EnvTypeOK
<1>5. Works(Selected) \/ Works(Other(Selected))
  BY DEF SomeWorks, Slots, Other, Selected
<1>6. power = "uboot" /\ power' = "load"
  BY DEF Fallback
<1>7. CASE Works(Other(Selected))
  <2>1. Failures = 0 /\ Distance = 2
    BY <1>4, <1>6, <1>7 DEF Failures, Distance
  <2>2. Distance' = 1
    BY <1>1, <1>3, <1>6, <1>7 DEF Distance
  <2> QED BY <1>2, <2>1, <2>2
<1>8. CASE ~Works(Other(Selected))
  <2>1. Works(Selected) /\ Failures = BootLimit + 1 /\ Distance = 3 * (BootLimit + 1) + 2
    BY <1>4, <1>5, <1>6, <1>8 DEF Failures, Distance
  <2>2. ~Works(Selected)' /\ Works(Other(Selected))'
    <3>1. Works(Other(Selected))' = Works(Selected) /\ Works(Selected)' = Works(Other(Selected))
      BY <1>3 DEF Fallback, diskVars, Works, BootFiles
    <3> QED BY <1>8, <2>1, <3>1
  <2>3. Failures' = BootLimit
    BY <1>4, <2>2 DEF Failures
  <2>4. ~Works(running)'
    BY <1>1, <1>3, <1>8
  <2>5. Distance' = 3 * BootLimit + 4
    BY <1>6, <2>3, <2>4 DEF Distance
  <2> QED BY <1>4, <1>2, <2>1, <2>5
<1> QED BY <1>7, <1>8

\* Neither a start nor the end of a hang touches the environment or the disk.
LEMMA RestNearer ==
  IInv /\ SomeWorks /\ (Boot \/ HangEnds) => SomeWorks' /\ Distance' < Distance
<1> SUFFICES ASSUME IInv, SomeWorks, Boot \/ HangEnds PROVE SomeWorks' /\ Distance' < Distance
  OBVIOUS
<1>1. \A s \in Slots : Works(s)' = Works(s)
  BY DEF Boot, HangEnds, diskVars, Works, BootFiles
<1>2. SomeWorks' /\ Failures' = Failures
  BY <1>1 DEF Boot, HangEnds, diskVars, envVars, Works, BootFiles, SomeWorks, Failures, Selected, Other
<1>3. Failures \in Nat
  BY LimitAssumption DEF Failures, IInv, TypeOK, EnvTypeOK
<1>4. CASE Boot
  BY <1>2, <1>3, <1>4 DEF Boot, Distance
<1>5. CASE HangEnds
  BY <1>2, <1>3, <1>5 DEF HangEnds, Distance
<1> QED BY <1>2, <1>4, <1>5

\* A device with a slot that works is at most 3 * BootLimit + 7 steps of the boot script
\* from being up, and each of them whose save does not fail brings it nearer
\* (boot.cmd:8-43): for every boot limit, whatever the environment says and however
\* many failed saves and interrupted writes came before.
THEOREM EveryStepComesNearer == Spec => []WithinReach /\ ComesNearer
<1> DEFINE Step == SomeWorks /\ power # "up" =>
                     /\ SomeWorks'
                     /\ \/ Distance' < Distance
                        \/ saveFails' = saveFails + 1
                        \/ power = "load" /\ resets' = resets + 1
<1>1. IInv /\ [Next]_vars => [Step]_vars
  <2> SUFFICES ASSUME IInv, Next, SomeWorks, power # "up"
               PROVE  /\ SomeWorks'
                      /\ \/ Distance' < Distance
                         \/ saveFails' = saveFails + 1
                         \/ power = "load" /\ resets' = resets + 1
    OBVIOUS
  <2>1. CASE Loader \/ HangEnds
    BY <2>1, TryNearer, FallbackNearer, RestNearer DEF Loader
  <2>2. CASE Reset
    BY <2>2 DEF Reset, diskVars, SomeWorks, Works, BootFiles
  <2>3. ~Confirm /\ ~Job
    BY DEF Confirm, ConfirmOk, ConfirmAttempt, Job, Install, InstallStart, InstallCopy,
           InstallCopied, FactoryReset, ResetStart, ResetRoots, SetSlot, SetAttempt, SetOk, JobEnds
  <2> QED BY <2>1, <2>2, <2>3 DEF Next
<1> QED BY <1>1, DistanceType, InductiveInvariant, PTL DEF ComesNearer, Spec
=============================================================================
