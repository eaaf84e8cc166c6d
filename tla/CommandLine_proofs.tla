------------------------- MODULE CommandLine_proofs -------------------------
(***************************************************************************)
(* Proofs about the program from its start to its exit code.               *)
(***************************************************************************)
EXTENDS CommandLine, WellFoundedInduction, FiniteSetTheorems, FunctionTheorems, TLAPS

(***************************************************************************)
(* Where a run can be.                                                     *)
(***************************************************************************)
Wizard == {"wizard", "wizard_encryption", "wizard_recovery", "wizard_layout", "wizard_inputs", "wizard_review"}
Asking == {"backup_input", "backup_browsers", "backup_plan"} \cup Wizard
Working == {"backup_inputs", "prepare", "envelope", "encrypt", "split", "chunk", "inputs"}
BackupSteps == {"backup", "wizard_proceed", "render", "commit", "report", "result"} \cup Asking \cup Working
MintAsking == {"mint_browsers", "mint_plan", "mint_wizard", "mint_keys", "mint_keys_read", "mint_authority",
               "mint_outputs", "mint_shards"}
MintSteps == {"mint", "mint_render", "commit", "report"} \cup MintAsking
RecoverSteps == {"recover", "recover_plan", "decrypt", "write", "commit", "report"}

\* A command takes its own steps only, and a run is over when it has an exit code.
Scripted ==
  \/ at \in Boot \cup {"return", "done"}
  \/ ask.command = "backup" /\ at \in BackupSteps
  \/ ask.command = "mint" /\ at \in MintSteps
  \/ ask.command = "recover" /\ at \in RecoverSteps
  \/ ask.command = "inspect_recover" /\ at \in {"inspect_recover", "inspect"}
  \/ ask.command = "inspect_mint" /\ at \in {"inspect_mint", "inspect"}
  \/ ask.command = "config_get" /\ at \in {"config_get", "config_read"}
  \/ ask.command = "config_set" /\ at \in {"config_set", "config_apply", "config_report"}
  \/ ask.command = "kit" /\ at = "kit"

\* Help ends before a command starts, and the API does not pass through the start-up.
Careful ==
  /\ ask.help => at \in {"main", "defaults_path", "context", "done"}
  /\ Api => at \notin {"startup", "onboarding"}

Ended == at = "done" <=> status # Running

Path == ask \in Invocations /\ Scripted /\ Careful /\ Ended

USE DEF Go, Keep

\* A run starts at its start.
LEMMA PathInit == ASSUME Init PROVE Path
BY InvocationsAssumption DEF Init, Path, Scripted, Careful, Ended, Boot, Api

\* Every step of a command leads to a step of the same command.
LEMMA PathStep == ASSUME Path, [Next]_vars PROVE Path'
<1> SUFFICES ASSUME Next PROVE Path'
  BY DEF Path, Scripted, Careful, Ended, vars, Api
<1> USE DEF Path, Careful, Ended, Api, Works, Exits, Raises, Returns, Cancels, Running,
      Scripted, Boot, Wizard, Asking, Working, BackupSteps, MintAsking, MintSteps, RecoverSteps
<1>a. ask \in Invocations /\ ask.command \in Commands /\ ask.help \in BOOLEAN
  BY InvocationsAssumption
<1>1. CASE Main
  BY <1>1, <1>a DEF Main
<1>2. CASE Startup
  BY <1>2, <1>a DEF Startup
<1>3. CASE Onboarding
  BY <1>3, <1>a DEF Onboarding
<1>4. CASE DefaultsPath
  BY <1>4, <1>a DEF DefaultsPath
<1>5. CASE LoadDefaults
  BY <1>5, <1>a DEF LoadDefaults
<1>6. CASE Dispatch
  <2>1. CASE at' = ask.command /\ UNCHANGED <<ask, status>> /\ ~ask.help
    <3>1. Scripted'
      BY <2>1, <1>a DEF Commands
    <3>2. ask.command # "startup" /\ ask.command # "onboarding" /\ ask.command # "done"
      BY <1>a DEF Commands
    <3>3. at = "context"
      BY <1>6 DEF Dispatch
    <3> QED BY <2>1, <3>1, <3>2, <3>3, <1>a
  <2> QED BY <2>1, <1>6 DEF Dispatch
<1>7. CASE StartBackup
  BY <1>7, <1>a DEF StartBackup
<1>8. CASE CheckInput
  BY <1>8, <1>a DEF CheckInput
<1>9. CASE BackupBrowsers
  BY <1>9, <1>a DEF BackupBrowsers
<1>10. CASE ResolvePlan
  BY <1>10, <1>a DEF ResolvePlan
<1>11. CASE LoadInputs
  BY <1>11, <1>a DEF LoadInputs
<1>12. CASE WizardStarts
  BY <1>12, <1>a DEF WizardStarts
<1>13. CASE PromptEncryption
  BY <1>13, <1>a DEF PromptEncryption
<1>14. CASE PromptRecovery
  <2>1. /\ at = "wizard_recovery"
        /\ Raises("INVALID_INPUT") \/ (at' = "wizard_layout" /\ status' = status)
        /\ ask' = ask
    BY <1>14, Zenon DEF PromptRecovery
  <2> QED BY <2>1, <1>a
<1>15. CASE PromptLayout
  BY <1>15, <1>a DEF PromptLayout
<1>16. CASE PromptInputs
  BY <1>16, <1>a DEF PromptInputs
<1>17. CASE ShowReview
  BY <1>17, <1>a DEF ShowReview
<1>18. CASE Proceed
  BY <1>18, <1>a DEF Proceed
<1>19. CASE PreparePayload
  BY <1>19, <1>a DEF PreparePayload
<1>20. CASE PrepareEnvelope
  BY <1>20, <1>a DEF PrepareEnvelope
<1>21. CASE EncryptPayload
  BY <1>21, <1>a DEF EncryptPayload
<1>22. CASE CreateShards
  BY <1>22, <1>a DEF CreateShards
<1>23. CASE ChunkAndStage
  BY <1>23, <1>a DEF ChunkAndStage
<1>24. CASE PrepareRender
  BY <1>24, <1>a DEF PrepareRender
<1>25. CASE RenderDocument
  BY <1>25, <1>a DEF RenderDocument
<1>26. CASE Commit
  BY <1>26, <1>a DEF Commit
<1>27. CASE ReportBackup
  BY <1>27, <1>a DEF ReportBackup
<1>28. CASE BackupResult
  BY <1>28, <1>a DEF BackupResult
<1>29. CASE StartMint
  BY <1>29, <1>a DEF StartMint
<1>30. CASE MintBrowsers
  BY <1>30, <1>a DEF MintBrowsers
<1>31. CASE LoadMint
  BY <1>31, <1>a DEF LoadMint
<1>32. CASE MintFromPlan
  BY <1>32, <1>a DEF MintFromPlan
<1>33. CASE RenderMinted
  BY <1>33, <1>a DEF RenderMinted
<1>34. CASE ReportMint
  BY <1>34, <1>a DEF ReportMint
<1>35. CASE StartMintWizard
  BY <1>35, <1>a DEF StartMintWizard
<1>36. CASE PromptKeys
  BY <1>36, <1>a DEF PromptKeys
<1>37. CASE ReadKeys
  BY <1>37, <1>a DEF ReadKeys
<1>38. CASE PromptAuthority
  BY <1>38, <1>a DEF PromptAuthority
<1>39. CASE PromptOutputs
  BY <1>39, <1>a DEF PromptOutputs
<1>40. CASE StartRecover
  BY <1>40, <1>a DEF StartRecover
<1>41. CASE PlanRecovery
  BY <1>41, <1>a DEF PlanRecovery
<1>42. CASE DecryptAndExtract
  BY <1>42, <1>a DEF DecryptAndExtract
<1>43. CASE WriteRecovered
  BY <1>43, <1>a DEF WriteRecovered
<1>44. CASE ReportRecovery
  BY <1>44, <1>a DEF ReportRecovery
<1>45. CASE StartRecoverInspection
  BY <1>45, <1>a DEF StartRecoverInspection
<1>46. CASE StartMintInspection
  BY <1>46, <1>a DEF StartMintInspection
<1>47. CASE InspectRecovery
  BY <1>47, <1>a DEF InspectRecovery
<1>48. CASE InspectMint
  BY <1>48, <1>a DEF InspectMint
<1>49. CASE ConfigGet
  BY <1>49, <1>a DEF ConfigGet
<1>50. CASE ReadSettings
  BY <1>50, <1>a DEF ReadSettings
<1>51. CASE ConfigSet
  BY <1>51, <1>a DEF ConfigSet
<1>52. CASE ApplyPatch
  BY <1>52, <1>a DEF ApplyPatch
<1>53. CASE ReportSettings
  BY <1>53, <1>a DEF ReportSettings
<1>54. CASE RenderKit
  BY <1>54, <1>a DEF RenderKit
<1>55. CASE Return
  BY <1>55, <1>a DEF Return
<1>56. CASE Breaks
  BY <1>56, <1>a DEF Breaks, Fallible
<1>57. CASE Interrupt
  BY <1>57, <1>a DEF Interrupt
<1> QED
  BY <1>1, <1>2, <1>3, <1>4, <1>5, <1>6, <1>7, <1>8, <1>9, <1>10, <1>11, <1>12, <1>13, <1>14, <1>15, <1>16, <1>17, <1>18, <1>19, <1>20, <1>21, <1>22, <1>23, <1>24, <1>25, <1>26, <1>27, <1>28, <1>29, <1>30, <1>31, <1>32, <1>33, <1>34, <1>35, <1>36, <1>37, <1>38, <1>39, <1>40, <1>41, <1>42, <1>43, <1>44, <1>45, <1>46, <1>47, <1>48, <1>49, <1>50, <1>51, <1>52, <1>53, <1>54, <1>55, <1>56, <1>57 DEF Next, Bootstrap, BackupNext, MintNext, Scripts

USE DEF Api, Works, Exits, Raises, Returns, Cancels

\* What help and the readers of a configuration leave alone is left alone at every step.
LEMMA TraceStep == ASSUME Path, Path', LeavesNoTrace, [Next]_vars PROVE LeavesNoTrace'
<1> SUFFICES ASSUME Next PROVE LeavesNoTrace'
  BY DEF LeavesNoTrace, vars
<1> USE DEF LeavesNoTrace, Scripted, Boot, Wizard, Asking, Working, BackupSteps, MintAsking, MintSteps, RecoverSteps
<1>a. Scripted /\ Careful
  BY DEF Path
<1> USE DEF Careful
<1>1. CASE Main
  BY <1>1, <1>a DEF Main
<1>2. CASE Startup
  BY <1>2, <1>a DEF Startup
<1>3. CASE Onboarding
  BY <1>3, <1>a DEF Onboarding
<1>4. CASE DefaultsPath
  BY <1>4, <1>a DEF DefaultsPath
<1>5. CASE LoadDefaults
  BY <1>5, <1>a DEF LoadDefaults
<1>6. CASE Dispatch
  BY <1>6, <1>a DEF Dispatch
<1>7. CASE StartBackup
  BY <1>7, <1>a DEF StartBackup
<1>8. CASE CheckInput
  BY <1>8, <1>a DEF CheckInput
<1>9. CASE BackupBrowsers
  BY <1>9, <1>a DEF BackupBrowsers
<1>10. CASE ResolvePlan
  BY <1>10, <1>a DEF ResolvePlan
<1>11. CASE LoadInputs
  BY <1>11, <1>a DEF LoadInputs
<1>12. CASE WizardStarts
  BY <1>12, <1>a DEF WizardStarts
<1>13. CASE PromptEncryption
  BY <1>13, <1>a DEF PromptEncryption
<1>14. CASE PromptRecovery
  BY <1>14, <1>a DEF PromptRecovery
<1>15. CASE PromptLayout
  BY <1>15, <1>a DEF PromptLayout
<1>16. CASE PromptInputs
  BY <1>16, <1>a DEF PromptInputs
<1>17. CASE ShowReview
  BY <1>17, <1>a DEF ShowReview
<1>18. CASE Proceed
  BY <1>18, <1>a DEF Proceed
<1>19. CASE PreparePayload
  BY <1>19, <1>a DEF PreparePayload
<1>20. CASE PrepareEnvelope
  BY <1>20, <1>a DEF PrepareEnvelope
<1>21. CASE EncryptPayload
  BY <1>21, <1>a DEF EncryptPayload
<1>22. CASE CreateShards
  BY <1>22, <1>a DEF CreateShards
<1>23. CASE ChunkAndStage
  BY <1>23, <1>a DEF ChunkAndStage
<1>24. CASE PrepareRender
  BY <1>24, <1>a DEF PrepareRender
<1>25. CASE RenderDocument
  BY <1>25, <1>a DEF RenderDocument
<1>26. CASE Commit
  BY <1>26, <1>a DEF Commit
<1>27. CASE ReportBackup
  BY <1>27, <1>a DEF ReportBackup
<1>28. CASE BackupResult
  BY <1>28, <1>a DEF BackupResult
<1>29. CASE StartMint
  BY <1>29, <1>a DEF StartMint
<1>30. CASE MintBrowsers
  BY <1>30, <1>a DEF MintBrowsers
<1>31. CASE LoadMint
  BY <1>31, <1>a DEF LoadMint
<1>32. CASE MintFromPlan
  BY <1>32, <1>a DEF MintFromPlan
<1>33. CASE RenderMinted
  BY <1>33, <1>a DEF RenderMinted
<1>34. CASE ReportMint
  BY <1>34, <1>a DEF ReportMint
<1>35. CASE StartMintWizard
  BY <1>35, <1>a DEF StartMintWizard
<1>36. CASE PromptKeys
  BY <1>36, <1>a DEF PromptKeys
<1>37. CASE ReadKeys
  BY <1>37, <1>a DEF ReadKeys
<1>38. CASE PromptAuthority
  BY <1>38, <1>a DEF PromptAuthority
<1>39. CASE PromptOutputs
  BY <1>39, <1>a DEF PromptOutputs
<1>40. CASE StartRecover
  BY <1>40, <1>a DEF StartRecover
<1>41. CASE PlanRecovery
  BY <1>41, <1>a DEF PlanRecovery
<1>42. CASE DecryptAndExtract
  BY <1>42, <1>a DEF DecryptAndExtract
<1>43. CASE WriteRecovered
  BY <1>43, <1>a DEF WriteRecovered
<1>44. CASE ReportRecovery
  BY <1>44, <1>a DEF ReportRecovery
<1>45. CASE StartRecoverInspection
  BY <1>45, <1>a DEF StartRecoverInspection
<1>46. CASE StartMintInspection
  BY <1>46, <1>a DEF StartMintInspection
<1>47. CASE InspectRecovery
  BY <1>47, <1>a DEF InspectRecovery
<1>48. CASE InspectMint
  BY <1>48, <1>a DEF InspectMint
<1>49. CASE ConfigGet
  BY <1>49, <1>a DEF ConfigGet
<1>50. CASE ReadSettings
  BY <1>50, <1>a DEF ReadSettings
<1>51. CASE ConfigSet
  BY <1>51, <1>a DEF ConfigSet
<1>52. CASE ApplyPatch
  BY <1>52, <1>a DEF ApplyPatch
<1>53. CASE ReportSettings
  BY <1>53, <1>a DEF ReportSettings
<1>54. CASE RenderKit
  BY <1>54, <1>a DEF RenderKit
<1>55. CASE Return
  BY <1>55, <1>a DEF Return
<1>56. CASE Breaks
  BY <1>56, <1>a DEF Breaks
<1>57. CASE Interrupt
  BY <1>57, <1>a DEF Interrupt
<1> QED
  BY <1>1, <1>2, <1>3, <1>4, <1>5, <1>6, <1>7, <1>8, <1>9, <1>10, <1>11, <1>12, <1>13, <1>14, <1>15, <1>16, <1>17, <1>18, <1>19, <1>20, <1>21, <1>22, <1>23, <1>24, <1>25, <1>26, <1>27, <1>28, <1>29, <1>30, <1>31, <1>32, <1>33, <1>34, <1>35, <1>36, <1>37, <1>38, <1>39, <1>40, <1>41, <1>42, <1>43, <1>44, <1>45, <1>46, <1>47, <1>48, <1>49, <1>50, <1>51, <1>52, <1>53, <1>54, <1>55, <1>56, <1>57 DEF Next, Bootstrap, BackupNext, MintNext, Scripts

\* Reading leaves no trace, whatever the command line.
THEOREM ReadingLeavesNoTrace == Spec => []LeavesNoTrace
<1>1. Init => Path /\ LeavesNoTrace
  BY PathInit DEF Init, LeavesNoTrace
<1>2. Path /\ LeavesNoTrace /\ [Next]_vars => (Path /\ LeavesNoTrace)'
  BY PathStep, TraceStep
<1> QED
  BY <1>1, <1>2, PTL DEF Spec

(***************************************************************************)
(* A backup: its options, its plan and the documents of the plan.          *)
(***************************************************************************)
Count == Int \cup {Unset}
Quorums == { q \in [t : 1 .. MaxShards, n : 1 .. MaxShards] : q.t <= q.n }

BackupArgsType ==
  [input : BOOLEAN, sealed : BOOLEAN, t : Count, n : Count, mode : Name, st : Count, sn : Count,
   pass : Name, words : Name, chunk : Name, paper : Name, dir : Name, quick : BOOLEAN]

\* A plan that can be carried out.
Settled(p) ==
  p \in [sealed : BOOLEAN, mode : Name, sharding : Quorums \cup {Unset}, seed : Quorums \cup {Unset},
         paper : Name, dir : Name]

OptionsPlan == Placed(PlanFromArgs(BackupArgs), Merged(BackupArgs.paper, ask.configPaper), BackupArgs.dir)

\* The options are those given over those saved, until a wizard changes them.
Chosen ==
  /\ at \in Asking \cup Working \cup {"wizard_proceed", "render", "commit", "report", "result", "return"} => args \in BackupArgsType
  /\ at \in {"backup_input", "backup_browsers", "backup_plan"} => args = BackupArgs
  /\ at \in {"wizard_layout", "wizard_inputs", "wizard_review", "wizard_proceed"} => ~(args.mode = "sharded" /\ args.sealed)

\* The plan is what the options ask for, or what the wizard showed.
Planned ==
  /\ at \in Boot \cup {"backup"} \cup Asking => review = Unset
  /\ at = "wizard_proceed" => plan = WizardPlan /\ review = ReviewRows(WizardPlan)
  /\ at \in Working \cup {"render", "commit", "report", "result", "return"} \/ outputs # <<>> =>
       /\ Settled(plan)
       /\ \/ review = Unset /\ plan = OptionsPlan /\ BackupArgs \in BackupArgsType /\ ~BackupInvalid(BackupArgs)
          \/ review = ReviewRows(plan) /\ ~(plan.mode = "sharded" /\ plan.sealed)

\* The documents of the plan are rendered one after the other and published together.
Rendered ==
  /\ at \notin {"render", "commit", "done"} => papers = <<>>
  /\ at = "render" =>
       /\ Len(papers) \in 0 .. Len(Documents(plan))
       /\ papers = [i \in 1 .. Len(papers) |-> Documents(plan)[i]]
  /\ at = "commit" => papers = Documents(plan)
  /\ at \notin {"report", "result", "return", "done"} => outputs = <<>>
  /\ at \in {"report", "result", "return"} => outputs = Documents(plan)
  /\ outputs = <<>> \/ outputs = Documents(plan)
  /\ status = 1 => outputs = <<>>

BackupMade == ask.command = "backup" => Chosen /\ Planned /\ Rendered

\* The merged options are of the type of the options given.
LEMMA BackupArgsTyped ==
  ASSUME ask \in Invocations, ask.command = "backup", ~Unparsable(ask.opts)
  PROVE  BackupArgs \in BackupArgsType
<1> DEFINE o == ask.opts
           d == ask.saved
           F == {"input", "sealed", "t", "n", "mode", "st", "sn", "pass", "words", "chunk", "paper", "dir", "quick"}
<1>1. o \in BackupOptions(ask) /\ SavedOptions(d) /\ ask.front \in {"api", "cli", "home"}
  BY InvocationsAssumption
<1>2. DOMAIN o = F
  BY <1>1 DEF BackupOptions
<1>3. /\ o.input \in BOOLEAN /\ o.sealed \in BOOLEAN /\ o.quick \in BOOLEAN
      /\ o.mode \in Name /\ o.pass \in Name /\ o.words \in Name /\ o.chunk \in Name /\ o.paper \in Name /\ o.dir \in Name
      /\ o.t \in Number(ask) /\ o.n \in Number(ask) /\ o.st \in Number(ask) /\ o.sn \in Number(ask)
  BY <1>1 DEF BackupOptions
<1>4. o.t \in Count /\ o.n \in Count /\ o.st \in Count /\ o.sn \in Count
  BY <1>3 DEF Unparsable, Number, Count, Api
<1> DEFINE b == BackupArgs
<1>5. DOMAIN b = F /\ b = [f \in F |-> b[f]]
  BY <1>2 DEF BackupArgs
<1>6. \A f \in F : b[f] = IF f \in DOMAIN d THEN Merged(o[f], d[f]) ELSE o[f]
  BY <1>2 DEF BackupArgs
<1>7. \A f \in {"input", "sealed", "quick"} : b[f] \in BOOLEAN
  BY <1>6, <1>3, <1>1 DEF SavedOptions
<1>8. \A f \in {"t", "n", "st", "sn"} : b[f] \in Count
  BY <1>6, <1>4, <1>1 DEF SavedOptions, Count, Merged
<1>9. \A f \in {"mode", "pass", "words", "chunk", "paper", "dir"} : b[f] \in Name
  BY <1>6, <1>3, <1>1 DEF SavedOptions, Merged
<1> HIDE DEF b
<1> QED
  BY <1>5, <1>7, <1>8, <1>9 DEF BackupArgsType, b


\* No step changes what was asked.
LEMMA AskKept == ASSUME Next PROVE ask' = ask
<1>1. CASE Main
  BY <1>1 DEF Main
<1>2. CASE Startup
  BY <1>2 DEF Startup
<1>3. CASE Onboarding
  BY <1>3 DEF Onboarding
<1>4. CASE DefaultsPath
  BY <1>4 DEF DefaultsPath
<1>5. CASE LoadDefaults
  BY <1>5 DEF LoadDefaults
<1>6. CASE Dispatch
  BY <1>6 DEF Dispatch
<1>7. CASE StartBackup
  BY <1>7 DEF StartBackup
<1>8. CASE CheckInput
  BY <1>8 DEF CheckInput
<1>9. CASE BackupBrowsers
  BY <1>9 DEF BackupBrowsers
<1>10. CASE ResolvePlan
  BY <1>10 DEF ResolvePlan
<1>11. CASE LoadInputs
  BY <1>11 DEF LoadInputs
<1>12. CASE WizardStarts
  BY <1>12 DEF WizardStarts
<1>13. CASE PromptEncryption
  BY <1>13 DEF PromptEncryption
<1>14. CASE PromptRecovery
  BY <1>14 DEF PromptRecovery
<1>15. CASE PromptLayout
  BY <1>15 DEF PromptLayout
<1>16. CASE PromptInputs
  BY <1>16 DEF PromptInputs
<1>17. CASE ShowReview
  BY <1>17 DEF ShowReview
<1>18. CASE Proceed
  BY <1>18 DEF Proceed
<1>19. CASE PreparePayload
  BY <1>19 DEF PreparePayload
<1>20. CASE PrepareEnvelope
  BY <1>20 DEF PrepareEnvelope
<1>21. CASE EncryptPayload
  BY <1>21 DEF EncryptPayload
<1>22. CASE CreateShards
  BY <1>22 DEF CreateShards
<1>23. CASE ChunkAndStage
  BY <1>23 DEF ChunkAndStage
<1>24. CASE PrepareRender
  BY <1>24 DEF PrepareRender
<1>25. CASE RenderDocument
  BY <1>25 DEF RenderDocument
<1>26. CASE Commit
  BY <1>26 DEF Commit
<1>27. CASE ReportBackup
  BY <1>27 DEF ReportBackup
<1>28. CASE BackupResult
  BY <1>28 DEF BackupResult
<1>29. CASE StartMint
  BY <1>29 DEF StartMint
<1>30. CASE MintBrowsers
  BY <1>30 DEF MintBrowsers
<1>31. CASE LoadMint
  BY <1>31 DEF LoadMint
<1>32. CASE MintFromPlan
  BY <1>32 DEF MintFromPlan
<1>33. CASE RenderMinted
  BY <1>33 DEF RenderMinted
<1>34. CASE ReportMint
  BY <1>34 DEF ReportMint
<1>35. CASE StartMintWizard
  BY <1>35 DEF StartMintWizard
<1>36. CASE PromptKeys
  BY <1>36 DEF PromptKeys
<1>37. CASE ReadKeys
  BY <1>37 DEF ReadKeys
<1>38. CASE PromptAuthority
  BY <1>38 DEF PromptAuthority
<1>39. CASE PromptOutputs
  BY <1>39 DEF PromptOutputs
<1>40. CASE StartRecover
  BY <1>40 DEF StartRecover
<1>41. CASE PlanRecovery
  BY <1>41 DEF PlanRecovery
<1>42. CASE DecryptAndExtract
  BY <1>42 DEF DecryptAndExtract
<1>43. CASE WriteRecovered
  BY <1>43 DEF WriteRecovered
<1>44. CASE ReportRecovery
  BY <1>44 DEF ReportRecovery
<1>45. CASE StartRecoverInspection
  BY <1>45 DEF StartRecoverInspection
<1>46. CASE StartMintInspection
  BY <1>46 DEF StartMintInspection
<1>47. CASE InspectRecovery
  BY <1>47 DEF InspectRecovery
<1>48. CASE InspectMint
  BY <1>48 DEF InspectMint
<1>49. CASE ConfigGet
  BY <1>49 DEF ConfigGet
<1>50. CASE ReadSettings
  BY <1>50 DEF ReadSettings
<1>51. CASE ConfigSet
  BY <1>51 DEF ConfigSet
<1>52. CASE ApplyPatch
  BY <1>52 DEF ApplyPatch
<1>53. CASE ReportSettings
  BY <1>53 DEF ReportSettings
<1>54. CASE RenderKit
  BY <1>54 DEF RenderKit
<1>55. CASE Return
  BY <1>55 DEF Return
<1>56. CASE Breaks
  BY <1>56 DEF Breaks
<1>57. CASE Interrupt
  BY <1>57 DEF Interrupt
<1> QED
  BY <1>1, <1>2, <1>3, <1>4, <1>5, <1>6, <1>7, <1>8, <1>9, <1>10, <1>11, <1>12, <1>13, <1>14, <1>15, <1>16, <1>17, <1>18, <1>19, <1>20, <1>21, <1>22, <1>23, <1>24, <1>25, <1>26, <1>27, <1>28, <1>29, <1>30, <1>31, <1>32, <1>33, <1>34, <1>35, <1>36, <1>37, <1>38, <1>39, <1>40, <1>41, <1>42, <1>43, <1>44, <1>45, <1>46, <1>47, <1>48, <1>49, <1>50, <1>51, <1>52, <1>53, <1>54, <1>55, <1>56, <1>57 DEF Next, Bootstrap, BackupNext, MintNext, Scripts

\* A backup takes steps of the start, of backup and of the ends only.
LEMMA BackupPath == ASSUME Path, ask.command = "backup", Next
                    PROVE  Bootstrap \/ BackupNext \/ Return \/ Breaks \/ Interrupt
<1> USE DEF Path, Scripted, Boot, Wizard, Asking, Working, BackupSteps
<1>1. ~MintNext
  BY DEF MintNext, StartMint, MintBrowsers, LoadMint, MintFromPlan, RenderMinted, ReportMint, StartMintWizard,
    PromptKeys, ReadKeys, PromptAuthority, PromptOutputs
<1>2. ~Scripts
  BY DEF Scripts, StartRecover, PlanRecovery, DecryptAndExtract, WriteRecovered, ReportRecovery, StartRecoverInspection,
    StartMintInspection, InspectRecovery, InspectMint, ConfigGet, ReadSettings, ConfigSet, ApplyPatch, ReportSettings, RenderKit
<1> QED
  BY <1>1, <1>2 DEF Next

\* The start leaves everything but the configuration and the position alone,
LEMMA BootKeeps == ASSUME Bootstrap PROVE UNCHANGED <<ask, args, plan, review, papers, outputs>> /\ at \in Boot
<1>1. CASE Main
  BY <1>1 DEF Main, Boot
<1>2. CASE Startup
  BY <1>2 DEF Startup, Boot
<1>3. CASE Onboarding
  BY <1>3 DEF Onboarding, Boot
<1>4. CASE DefaultsPath
  BY <1>4 DEF DefaultsPath, Boot
<1>5. CASE LoadDefaults
  BY <1>5 DEF LoadDefaults, Boot
<1>6. CASE Dispatch
  BY <1>6 DEF Dispatch, Boot
<1> QED
  BY <1>1, <1>2, <1>3, <1>4, <1>5, <1>6 DEF Bootstrap

\* ends or gets to the command,
LEMMA BootGoes == ASSUME Bootstrap PROVE at' \in Boot \cup {"done", ask.command}
<1>1. CASE Main
  BY <1>1 DEF Main, Boot
<1>2. CASE Startup
  BY <1>2 DEF Startup, Boot
<1>3. CASE Onboarding
  BY <1>3 DEF Onboarding, Boot
<1>4. CASE DefaultsPath
  BY <1>4 DEF DefaultsPath, Boot
<1>5. CASE LoadDefaults
  BY <1>5 DEF LoadDefaults, Boot
<1>6. CASE Dispatch
  BY <1>6 DEF Dispatch, Boot
<1> QED
  BY <1>1, <1>2, <1>3, <1>4, <1>5, <1>6 DEF Bootstrap

\* and is silent unless it ends.
LEMMA BootQuiet == ASSUME Bootstrap PROVE at' = "done" \/ (stream' = stream /\ status' = status)
<1>1. CASE Main
  BY <1>1 DEF Main
<1>2. CASE Startup
  BY <1>2 DEF Startup
<1>3. CASE Onboarding
  BY <1>3 DEF Onboarding
<1>4. CASE DefaultsPath
  BY <1>4 DEF DefaultsPath
<1>5. CASE LoadDefaults
  BY <1>5 DEF LoadDefaults
<1>6. CASE Dispatch
  BY <1>6 DEF Dispatch
<1> QED
  BY <1>1, <1>2, <1>3, <1>4, <1>5, <1>6 DEF Bootstrap

\* The ends keep what was chosen, planned and published.
LEMMA EndMoves == ASSUME Return \/ Breaks \/ Interrupt
                  PROVE  /\ UNCHANGED <<ask, args, plan, review, outputs, config>>
                         /\ at' = "done"
                         /\ papers' = papers \/ papers' = <<>>
BY DEF Return, Breaks, Interrupt

\* The options given and saved do not change.
LEMMA BackupArgsKept == ASSUME ask' = ask PROVE BackupArgs' = BackupArgs
BY DEF BackupArgs

\* The quorums a user can answer with are those within the bounds.
LEMMA AnyQuorumIs == AnyQuorum = Quorums
<1>1. ASSUME NEW q \in Quorums PROVE q \in AnyQuorum
  <2> DEFINE p == <<q.t, q.n>>
  <2>1. p \in (1 .. MaxShards) \X (1 .. MaxShards) /\ p[1] <= p[2] /\ q = [t |-> p[1], n |-> p[2]]
    BY <1>1 DEF Quorums
  <2> HIDE DEF p
  <2> QED BY <2>1 DEF AnyQuorum
<1>2. ASSUME NEW q \in AnyQuorum PROVE q \in Quorums
  BY <1>2 DEF AnyQuorum, Quorums
<1> QED BY <1>1, <1>2

\* The options keep their type, and those of a sealed backup do not ask for shards of its key.
LEMMA ChosenStep == ASSUME Path, ask.command = "backup", Chosen, Next PROVE Chosen'
<1> USE DEF Boot, Wizard, Asking, Working
<1>a. ask \in Invocations
  BY DEF Path
<1>1. CASE Bootstrap
  <2>1. at' \in Boot \cup {"done", "backup"} /\ args' = args
    BY <1>1, BootKeeps, BootGoes
  <2> QED BY <2>1 DEF Chosen
<1>2. CASE StartBackup
  <2>1. CASE Unparsable(ask.opts)
    BY <2>1, <1>2 DEF StartBackup, Chosen
  <2>2. CASE ~Unparsable(ask.opts)
    <3>1. args' = BackupArgs /\ at' = "backup_input" /\ ask' = ask
      BY <2>2, <1>2 DEF StartBackup
    <3> QED BY <3>1, <2>2, <1>a, BackupArgsTyped, BackupArgsKept DEF Chosen
  <2> QED BY <2>1, <2>2
<1>3. CASE CheckInput \/ BackupBrowsers \/ ResolvePlan \/ LoadInputs
  BY <1>3, BackupArgsKept DEF Chosen, CheckInput, BackupBrowsers, ResolvePlan, LoadInputs
<1>4. CASE WizardStarts
  <2>1. args \in BackupArgsType /\ at' = "wizard_encryption"
    BY <1>4 DEF WizardStarts, Chosen
  <2>2. PICK q \in BOOLEAN : args' = [args EXCEPT !.quick = q]
    BY <1>4 DEF WizardStarts
  <2>3. args' \in BackupArgsType
    BY <2>1, <2>2 DEF BackupArgsType
  <2> QED BY <2>1, <2>3 DEF Chosen
<1>5. CASE PromptEncryption
  <2>1. args \in BackupArgsType
    BY <1>5 DEF PromptEncryption, Chosen
  <2>2. at' = "done" \/ at' = "wizard_recovery"
    BY <1>5 DEF PromptEncryption
  <2>3. \/ args' = args
        \/ args' = [args EXCEPT !.pass = "given"]
        \/ args' = [args EXCEPT !.words = "good"]
    BY <1>5, Zenon DEF PromptEncryption
  <2>4. args' \in BackupArgsType
    BY <2>1, <2>3 DEF BackupArgsType, Name, Names
  <2> QED BY <2>2, <2>4 DEF Chosen
<1>6. CASE PromptRecovery
  <2>1. args \in BackupArgsType /\ at = "wizard_recovery"
    BY <1>6 DEF PromptRecovery, Chosen
  <2>2. CASE at' = "done"
    BY <2>2 DEF Chosen
  <2>3. CASE at' # "done"
    <3> DEFINE Taken(sharding, sealed, mode, seed) ==
                 args' = [args EXCEPT !.sealed = sealed, !.mode = mode,
                             !.t = IF sharding = Unset THEN Unset ELSE sharding.t,
                             !.n = IF sharding = Unset THEN Unset ELSE sharding.n,
                             !.st = IF seed = Unset THEN Unset ELSE seed.t,
                             !.sn = IF seed = Unset THEN Unset ELSE seed.n]
    <3>1a. PICK sharding \in ShardingAnswers : \E sealed \in SealedAnswers(sharding) :
             \E mode \in ModeAnswers(sharding, sealed) : \E seed \in SeedAnswers(mode) :
               Taken(sharding, sealed, mode, seed) /\ at' = "wizard_layout"
      BY <1>6, <2>3, Zenon DEF PromptRecovery
    <3>1b. PICK sealed \in SealedAnswers(sharding) : \E mode \in ModeAnswers(sharding, sealed) :
             \E seed \in SeedAnswers(mode) : Taken(sharding, sealed, mode, seed) /\ at' = "wizard_layout"
      BY <3>1a, Zenon
    <3>1c. PICK mode \in ModeAnswers(sharding, sealed) : \E seed \in SeedAnswers(mode) :
             Taken(sharding, sealed, mode, seed) /\ at' = "wizard_layout"
      BY <3>1b, Zenon
    <3>2. PICK seed \in SeedAnswers(mode) : Taken(sharding, sealed, mode, seed) /\ at' = "wizard_layout"
      BY <3>1c, Zenon
    <3> DEFINE t == IF sharding = Unset THEN Unset ELSE sharding.t
               n == IF sharding = Unset THEN Unset ELSE sharding.n
               st == IF seed = Unset THEN Unset ELSE seed.t
               sn == IF seed = Unset THEN Unset ELSE seed.n
    <3>3. args.t \in Count /\ args.n \in Count /\ args.st \in Count /\ args.sn \in Count /\ args.mode \in Name /\ args.sealed \in BOOLEAN
      BY <2>1 DEF BackupArgsType
    <3>4. sealed \in BOOLEAN
      BY <3>1b, <3>3 DEF SealedAnswers
    <3>5. mode \in Name
      BY <3>1c, <3>3 DEF ModeAnswers, Name, Names
    <3>6. t \in Count /\ n \in Count
      <4>1. sharding = Unset \/ sharding \in Quorums \/ sharding = [t |-> args.t, n |-> args.n]
        BY <3>1a, AnyQuorumIs DEF ShardingAnswers, Quorum
      <4> QED BY <4>1, <3>3 DEF Quorums, Count
    <3>7. st \in Count /\ sn \in Count
      <4>1. seed = Unset \/ seed \in Quorums \/ seed = [t |-> args.st, n |-> args.sn]
        BY <3>2, AnyQuorumIs DEF SeedAnswers, Quorum
      <4> QED BY <4>1, <3>3 DEF Quorums, Count
    <3>8. args' = [args EXCEPT !.sealed = sealed, !.mode = mode, !.t = t, !.n = n, !.st = st, !.sn = sn]
      BY <3>2
    <3> HIDE DEF t, n, st, sn
    <3>9. args' \in BackupArgsType
      BY <2>1, <3>4, <3>5, <3>6, <3>7, <3>8 DEF BackupArgsType
    <3>10. ~(mode = "sharded" /\ sealed)
      BY <3>1a, <3>1c, <3>3, UnsetAssumption DEF ModeAnswers, SealedAnswers
    <3>11. args'.mode = mode /\ args'.sealed = sealed
      BY <2>1, <3>8 DEF BackupArgsType
    <3> QED BY <3>9, <3>10, <3>11, <3>2 DEF Chosen
  <2> QED BY <2>2, <2>3
<1>7. CASE PromptLayout
  <2>1. args \in BackupArgsType /\ at' = "wizard_inputs" /\ ~(args.mode = "sharded" /\ args.sealed)
    BY <1>7 DEF PromptLayout, Chosen
  <2>2. \/ args' = args
        \/ args' = [args EXCEPT !.paper = "A4"]
        \/ args' = [args EXCEPT !.paper = "Letter"]
    BY <1>7 DEF PromptLayout
  <2>3. args' \in BackupArgsType /\ args'.mode = args.mode /\ args'.sealed = args.sealed
    BY <2>1, <2>2 DEF BackupArgsType, Name, Names
  <2> QED BY <2>1, <2>3 DEF Chosen
<1>8. CASE PromptInputs
  <2>1. args \in BackupArgsType /\ at' = "wizard_review" /\ ~(args.mode = "sharded" /\ args.sealed)
    BY <1>8 DEF PromptInputs, Chosen
  <2>2. args' = args \/ args' = [args EXCEPT !.dir = "typed"]
    BY <1>8 DEF PromptInputs
  <2>3. args' \in BackupArgsType /\ args'.mode = args.mode /\ args'.sealed = args.sealed
    BY <2>1, <2>2 DEF BackupArgsType, Name, Names
  <2> QED BY <2>1, <2>3 DEF Chosen
<1>9. CASE ShowReview \/ Proceed \/ PreparePayload \/ PrepareEnvelope \/ EncryptPayload \/ CreateShards \/ ChunkAndStage
  BY <1>9 DEF Chosen, ShowReview, Proceed, PreparePayload, PrepareEnvelope, EncryptPayload, CreateShards, ChunkAndStage
<1>10. CASE PrepareRender \/ RenderDocument \/ Commit \/ ReportBackup \/ BackupResult
  BY <1>10 DEF Chosen, PrepareRender, RenderDocument, Commit, ReportBackup, BackupResult
<1>11. CASE Return \/ Breaks \/ Interrupt
  BY <1>11, EndMoves DEF Chosen
<1> QED
  BY <1>1, <1>2, <1>3, <1>4, <1>5, <1>6, <1>7, <1>8, <1>9, <1>10, <1>11, BackupPath DEF BackupNext

\* The bounds of a quorum make one.
LEMMA QuorumBounds == ASSUME NEW t \in Count, NEW n \in Count, Given(t, n) => ~BadQuorum(t, n)
                      PROVE  Quorum(t, n) \in Quorums \cup {Unset} /\ (Quorum(t, n) = Unset <=> t = Unset)
<1>1. CASE t = Unset
  BY <1>1 DEF Given, BadQuorum, Quorum
<1>2. CASE t # Unset
  <2>1. t \in Int /\ n \in Int /\ 1 <= t /\ t <= n /\ n <= MaxShards /\ t <= MaxShards
    BY <1>2, UnsetAssumption, MaxShardsAssumption DEF Given, BadQuorum, Count
  <2>2. t \in 1 .. MaxShards /\ n \in 1 .. MaxShards
    BY <2>1, MaxShardsAssumption
  <2>3. [t |-> t, n |-> n] \in Quorums
    BY <2>1, <2>2 DEF Quorums
  <2>4. [t |-> t, n |-> n] # Unset
    BY <2>1, UnsetAssumption
  <2> QED BY <1>2, <2>3, <2>4 DEF Quorum
<1> QED BY <1>1, <1>2

\* What the checks of the options leave.
LEMMA ValidOptions ==
  ASSUME NEW a, a.t \in Count, a.n \in Count, a.st \in Count, a.sn \in Count, ~BackupInvalid(a)
  PROVE  /\ Quorum(a.t, a.n) \in Quorums \cup {Unset}
         /\ Quorum(a.t, a.n) = Unset <=> a.t = Unset
         /\ a.n # Unset => a.t # Unset
         /\ Quorum(a.st, a.sn) \in Quorums \cup {Unset}
         /\ a.mode \in {Unset, "embedded", "sharded"}
         /\ a.mode = "sharded" => Quorum(a.t, a.n) # Unset
<1>1. Given(a.t, a.n) => ~BadQuorum(a.t, a.n)
  BY DEF BackupInvalid
<1>2. Given(a.st, a.sn) => ~BadQuorum(a.st, a.sn)
  BY DEF BackupInvalid
<1>3. a.mode \in {Unset, "embedded", "sharded"} /\ (a.mode = "sharded" => a.t # Unset)
  BY DEF BackupInvalid
<1>4. a.n # Unset => a.t # Unset
  BY <1>1 DEF Given, BadQuorum
<1> QED BY <1>1, <1>2, <1>3, <1>4, QuorumBounds

\* What a plan and its review are made from does not change when options and question do not.
LEMMA PlanKept == ASSUME ask' = ask, args' = args
                  PROVE  /\ WizardPlan' = WizardPlan
                         /\ OptionsPlan' = OptionsPlan
                         /\ BackupInvalid(BackupArgs)' = BackupInvalid(BackupArgs)
                         /\ \A p : ReviewRows(p)' = ReviewRows(p)
<1>1. BackupArgs' = BackupArgs
  BY BackupArgsKept
<1>2. WizardPlan' = WizardPlan
  BY DEF WizardPlan
<1>3. OptionsPlan' = OptionsPlan
  BY <1>1 DEF OptionsPlan
<1>4. BackupInvalid(BackupArgs)' = BackupInvalid(BackupArgs)
  BY <1>1 DEF BackupInvalid
<1>5. \A p : ReviewRows(p)' = ReviewRows(p)
  BY DEF ReviewRows
<1> QED BY <1>2, <1>3, <1>4, <1>5

\* Options that pass the checks make a plan that can be carried out,
LEMMA OptionsPlanSettled ==
  ASSUME ask \in Invocations, BackupArgs \in BackupArgsType, ~BackupInvalid(BackupArgs)
  PROVE  Settled(OptionsPlan)
<1> DEFINE a == BackupArgs
<1>1. /\ a.t \in Count /\ a.n \in Count /\ a.st \in Count /\ a.sn \in Count /\ a.sealed \in BOOLEAN
      /\ a.mode \in Name /\ a.paper \in Name /\ a.dir \in Name
  BY DEF BackupArgsType
<1>2. Quorum(a.t, a.n) \in Quorums \cup {Unset} /\ Quorum(a.st, a.sn) \in Quorums \cup {Unset}
  BY <1>1, ValidOptions
<1>3. Merged(a.mode, "embedded") \in Name /\ Merged(a.paper, ask.configPaper) \in Name
  BY <1>1, InvocationsAssumption DEF Merged, Name, Names
<1> HIDE DEF a
<1> DEFINE p == PlanFromArgs(a)
<1>4. /\ p.sealed = a.sealed /\ p.mode = Merged(a.mode, "embedded") /\ p.sharding = Quorum(a.t, a.n)
      /\ p.seed \in {Unset, Quorum(a.st, a.sn)}
  BY DEF PlanFromArgs, DocumentPlan
<1> HIDE DEF p
<1>5. Settled(Placed(p, Merged(a.paper, ask.configPaper), a.dir))
  BY <1>1, <1>2, <1>3, <1>4 DEF Settled, Placed
<1> QED BY <1>5 DEF OptionsPlan, a, p

\* and so do the answers given to the wizard.
LEMMA WizardPlanSettled ==
  ASSUME ask \in Invocations, ask.command = "backup", args \in BackupArgsType, ~BackupInvalid(EffectiveArgs)
  PROVE  Settled(WizardPlan)
<1> DEFINE a == EffectiveArgs
<1>1. a.t = args.t /\ a.n = args.n /\ a.st = args.st /\ a.sn = args.sn
  <2>1. ask.opts \in BackupOptions(ask)
    BY InvocationsAssumption
  <2>2. {"t", "n", "mode", "st", "sn", "words"} \subseteq DOMAIN ask.opts
    BY <2>1 DEF BackupOptions
  <2>3. {"t", "n", "mode", "st", "sn", "words"} \subseteq DOMAIN BackupArgs
    BY <2>2 DEF BackupArgs
  <2> QED BY <2>3 DEF EffectiveArgs
<1>2. /\ args.t \in Count /\ args.n \in Count /\ args.st \in Count /\ args.sn \in Count /\ args.sealed \in BOOLEAN
      /\ args.mode \in Name /\ args.paper \in Name /\ args.dir \in Name
  BY DEF BackupArgsType
<1> HIDE DEF a
<1>3. Quorum(a.t, a.n) \in Quorums \cup {Unset} /\ Quorum(a.st, a.sn) \in Quorums \cup {Unset}
  BY <1>1, <1>2, ValidOptions DEF a
<1>4. Merged(args.paper, ask.configPaper) \in Name
  BY <1>2, InvocationsAssumption DEF Merged, Name
<1> QED BY <1>1, <1>2, <1>3, <1>4 DEF WizardPlan, Placed, DocumentPlan, Settled

\* What the plan and the review say of each other is kept at every step.
LEMMA PlannedStep ==
  ASSUME Path, ask.command = "backup", Chosen, Planned, Rendered, Next
  PROVE  Planned'
<1> USE DEF Boot, Wizard, Asking, Working
<1>a. ask \in Invocations
  BY DEF Path
<1>1. CASE Bootstrap
  <2>1. /\ at \in Boot /\ at' \in Boot \cup {"done", "backup"} /\ review' = review /\ outputs' = outputs
    BY <1>1, BootKeeps, BootGoes
  <2>2. outputs = <<>>
    BY <2>1 DEF Rendered
  <2> QED BY <2>1, <2>2 DEF Planned
<1>2. CASE StartBackup \/ CheckInput \/ BackupBrowsers \/ WizardStarts
  <2>1. /\ at' \in {"done", "backup_input", "wizard", "backup_browsers", "backup_plan", "wizard_encryption"}
        /\ review' = review /\ outputs' = outputs
    BY <1>2 DEF StartBackup, CheckInput, BackupBrowsers, WizardStarts
  <2>2. outputs = <<>> /\ review = Unset
    BY <1>2 DEF Rendered, Planned, StartBackup, CheckInput, BackupBrowsers, WizardStarts
  <2> QED BY <2>1, <2>2 DEF Planned
<1>3. CASE PromptEncryption \/ PromptRecovery \/ PromptLayout \/ PromptInputs
  <2>1. /\ at \in Wizard
        /\ review' = review /\ outputs' = outputs
    BY <1>3 DEF PromptEncryption, PromptRecovery, PromptLayout, PromptInputs
  <2>2. at' \in {"done"} \cup Wizard
    <3>1. CASE PromptRecovery
      BY <3>1, Zenon DEF PromptRecovery
    <3> QED BY <3>1, <1>3 DEF PromptEncryption, PromptLayout, PromptInputs
  <2>3. outputs = <<>> /\ review = Unset
    BY <2>1 DEF Rendered, Planned
  <2> QED BY <2>1, <2>2, <2>3 DEF Planned
<1>4. CASE ResolvePlan
  <2>1. outputs = <<>> /\ review = Unset /\ args = BackupArgs /\ args \in BackupArgsType
    BY <1>4 DEF Rendered, Planned, Chosen, ResolvePlan
  <2>2. CASE BackupInvalid(args)
    <3>1. at' = "done" /\ review' = review /\ outputs' = outputs
      BY <1>4, <2>2 DEF ResolvePlan
    <3> QED BY <3>1, <2>1 DEF Planned
  <2>3. CASE ~BackupInvalid(args)
    <3>1. at' = "backup_inputs" /\ review' = review /\ args' = args /\ ask' = ask
      BY <1>4, <2>3 DEF ResolvePlan
    <3>2. plan' = OptionsPlan
      BY <1>4, <2>1, <2>3 DEF ResolvePlan, OptionsPlan
    <3>3. Settled(plan')
      BY <3>2, <2>1, <2>3, <1>a, OptionsPlanSettled
    <3>4. plan' = OptionsPlan' /\ BackupArgs' \in BackupArgsType /\ ~BackupInvalid(BackupArgs)'
      BY <3>1, <3>2, <2>1, <2>3, PlanKept, BackupArgsKept
    <3> QED BY <3>1, <3>3, <3>4, <2>1 DEF Planned, Settled, BackupArgsType
  <2> QED BY <2>2, <2>3
<1>5. CASE ShowReview
  <2>1. /\ plan' = WizardPlan /\ review' = ReviewRows(WizardPlan) /\ at' = "wizard_proceed" /\ args' = args /\ ask' = ask
        /\ outputs' = outputs
    BY <1>5 DEF ShowReview
  <2>2. outputs' = <<>>
    BY <2>1, <1>5 DEF Rendered, ShowReview
  <2>3. WizardPlan' = WizardPlan /\ ReviewRows(WizardPlan)' = ReviewRows(WizardPlan)
    BY <2>1, PlanKept DEF ReviewRows
  <2> QED BY <2>1, <2>2, <2>3 DEF Planned
<1>6. CASE Proceed
  <2>1. /\ outputs' = <<>> /\ plan = WizardPlan /\ review = ReviewRows(WizardPlan) /\ args' = args /\ ask' = ask
        /\ plan' = plan /\ review' = review /\ args \in BackupArgsType
    BY <1>6 DEF Rendered, Planned, Chosen, Proceed
  <2>2. CASE at' = "done"
    BY <2>1, <2>2 DEF Planned
  <2>3. CASE at' # "done"
    <3>1. ~BackupInvalid(EffectiveArgs) /\ at' = "prepare"
      BY <1>6, <2>3 DEF Proceed
    <3>3. Settled(plan')
      BY <3>1, <2>1, <1>a, WizardPlanSettled
    <3>4. review' = ReviewRows(plan)'
      BY <2>1, PlanKept DEF ReviewRows
    <3>5. ~(plan'.mode = "sharded" /\ plan'.sealed)
      BY <2>1, <1>6 DEF Chosen, Proceed, WizardPlan, Placed, DocumentPlan
    <3> QED BY <3>1, <3>3, <3>4, <3>5 DEF Planned, Settled
  <2> QED BY <2>2, <2>3
<1>7. ASSUME UNCHANGED <<ask, args, plan, review>>,
             \/ at' = "done"
             \/ at' \in Working \cup {"render", "commit", "report", "result", "return"} /\
                at \in Working \cup {"render", "commit", "report", "result", "return"},
             outputs' = outputs \/ at \in Working \cup {"render", "commit", "report", "result", "return"}
      PROVE  Planned'
  <2>1. CASE at' = "done" /\ outputs' = <<>>
    BY <2>1 DEF Planned
  <2>2. CASE ~(at' = "done" /\ outputs' = <<>>)
    <3>1. at \in Working \cup {"render", "commit", "report", "result", "return"} \/ outputs # <<>>
      BY <1>7, <2>2
    <3>2. Settled(plan)
      BY <3>1 DEF Planned
    <3>3. \/ review = Unset /\ plan = OptionsPlan /\ BackupArgs \in BackupArgsType /\ ~BackupInvalid(BackupArgs)
          \/ review = ReviewRows(plan) /\ ~(plan.mode = "sharded" /\ plan.sealed)
      BY <3>1 DEF Planned
    <3>4. Settled(plan')
      BY <3>2, <1>7
    <3>5. \/ review' = Unset /\ plan' = OptionsPlan' /\ BackupArgs' \in BackupArgsType /\ ~BackupInvalid(BackupArgs)'
          \/ review' = ReviewRows(plan)' /\ ~(plan'.mode = "sharded" /\ plan'.sealed)
      <4>1. ReviewRows(plan)' = ReviewRows(plan)
        BY <1>7 DEF ReviewRows
      <4> QED BY <3>3, <4>1, <1>7, PlanKept, BackupArgsKept
    <3> QED BY <3>4, <3>5, <1>7 DEF Planned, Settled, BackupArgsType
  <2> QED BY <2>1, <2>2
<1>8. CASE LoadInputs \/ PreparePayload \/ PrepareEnvelope \/ EncryptPayload \/ CreateShards \/ ChunkAndStage \/ PrepareRender
  BY <1>7, <1>8 DEF LoadInputs, PreparePayload, PrepareEnvelope, EncryptPayload, CreateShards, ChunkAndStage, PrepareRender
<1>9. CASE RenderDocument \/ Commit \/ ReportBackup \/ BackupResult
  BY <1>7, <1>9 DEF RenderDocument, Commit, ReportBackup, BackupResult
<1>10. CASE Return \/ Breaks \/ Interrupt
  BY <1>7, <1>10, EndMoves
<1> QED
  BY <1>1, <1>2, <1>3, <1>4, <1>5, <1>6, <1>8, <1>9, <1>10, BackupPath DEF BackupNext

\* The length of a function on 1..m.
LEMMA LenOf == ASSUME NEW m \in Nat, NEW s, s = [i \in 1 .. m |-> s[i]] PROVE Len(s) = m /\ DOMAIN s = 1 .. m
OBVIOUS

\* Two lists put one after the other.
LEMMA Joined ==
  ASSUME NEW m \in Nat, NEW n \in Nat, NEW s, NEW t, s = [i \in 1 .. m |-> s[i]], t = [i \in 1 .. n |-> t[i]]
  PROVE  s \o t = [i \in 1 .. (m + n) |-> IF i <= m THEN s[i] ELSE t[i - m]]
<1>1. Len(s) = m /\ DOMAIN s = 1 .. m
  BY LenOf
<1>2. Len(t) = n /\ DOMAIN t = 1 .. n
  BY LenOf
<1> QED BY <1>1, <1>2

\* How many documents of each kind a plan has.
Indexes == IF ask.kitIndex THEN 1 ELSE 0
Shards(p) == IF p.sharding = Unset THEN 0 ELSE p.sharding.n
KeyQuorum(p) == Merged(p.seed, p.sharding)
KeyShards(p) == IF SigningKeySharded(p) THEN KeyQuorum(p).n ELSE 0

\* A quorum of a plan has at least one shard.
LEMMA CountsOfPlan ==
  ASSUME Settled(plan)
  PROVE  /\ Indexes \in {0, 1} /\ Shards(plan) \in Nat /\ KeyShards(plan) \in Nat
         /\ plan.sharding # Unset => plan.sharding \in Quorums /\ Shards(plan) > 0
         /\ SigningKeySharded(plan) => KeyQuorum(plan) \in Quorums /\ KeyShards(plan) > 0
<1>1. plan.sharding \in Quorums \cup {Unset} /\ plan.seed \in Quorums \cup {Unset}
  BY DEF Settled
<1>2. \A q \in Quorums : q.n \in Nat /\ q.n > 0
  BY MaxShardsAssumption DEF Quorums
<1>3. SigningKeySharded(plan) => KeyQuorum(plan) \in Quorums
  BY <1>1 DEF SigningKeySharded, KeyQuorum, Merged
<1> QED BY <1>1, <1>2, <1>3 DEF Indexes, Shards, KeyShards

\* The shard documents of a plan, one per index.
LEMMA ShardDocumentsAre ==
  ASSUME Settled(plan)
  PROVE  /\ PassphraseShards(plan) =
              [i \in 1 .. Shards(plan) |-> Document("shard", i, plan.sharding, {"share_of_passphrase"})]
         /\ SigningKeyShards(plan) =
              [i \in 1 .. KeyShards(plan) |-> Document("signing_key_shard", i, KeyQuorum(plan), {"share_of_signing_key"})]
<1>1. PassphraseShards(plan) =
        [i \in 1 .. Shards(plan) |-> Document("shard", i, plan.sharding, {"share_of_passphrase"})]
  <2>1. CASE plan.sharding = Unset
    BY <2>1 DEF PassphraseShards, Shards
  <2>2. CASE plan.sharding # Unset
    BY <2>2, Zenon DEF PassphraseShards, ShardDocuments, Shards
  <2> QED BY <2>1, <2>2
<1>2. SigningKeyShards(plan) =
        [i \in 1 .. KeyShards(plan) |-> Document("signing_key_shard", i, KeyQuorum(plan), {"share_of_signing_key"})]
  <2>1. CASE ~SigningKeySharded(plan)
    BY <2>1 DEF SigningKeyShards, KeyShards
  <2>2. CASE SigningKeySharded(plan)
    BY <2>2, Zenon DEF SigningKeyShards, ShardDocuments, KeyShards, KeyQuorum
  <2> QED BY <2>1, <2>2
<1> QED BY <1>1, <1>2

\* The documents of a plan: two, the kit index, the shards of the passphrase, those of the key.
LEMMA DocumentsAre ==
  ASSUME Settled(plan)
  PROVE  LET k == Indexes
             a == Shards(plan)
             b == KeyShards(plan)
             D == Documents(plan)
         IN  /\ D = [i \in 1 .. (2 + k + a + b) |-> D[i]]
             /\ D[1] = Document("qr", 1, Unset, Stored(plan))
             /\ D[2] = Document("recovery", 1, plan.sharding, Stored(plan) \cup KeyLines(plan))
             /\ k = 1 => D[3] = Document("kit_index", 2 + a + b, Unset, {})
             /\ \A i \in 3 + k .. 2 + k + a : D[i] = Document("shard", i - 2 - k, plan.sharding, {"share_of_passphrase"})
             /\ \A i \in 3 + k + a .. 2 + k + a + b :
                  D[i] = Document("signing_key_shard", i - 2 - k - a, KeyQuorum(plan), {"share_of_signing_key"})
<1> DEFINE k == Indexes
           a == Shards(plan)
           b == KeyShards(plan)
           D == Documents(plan)
           h == << Document("qr", 1, Unset, Stored(plan)), Document("recovery", 1, plan.sharding, Stored(plan) \cup KeyLines(plan)) >>
           x == IF ask.kitIndex THEN <<Document("kit_index", KitIndexRows(plan), Unset, {})>> ELSE <<>>
           ps == PassphraseShards(plan)
           ss == SigningKeyShards(plan)
<1>1. k \in {0, 1} /\ a \in Nat /\ b \in Nat
  BY CountsOfPlan
<1>2. D = ((h \o x) \o ps) \o ss
  BY DEF Documents
<1>3. ps = [i \in 1 .. a |-> ps[i]] /\ ss = [i \in 1 .. b |-> ss[i]]
  BY ShardDocumentsAre
<1>3a. Len(ps) = a /\ Len(ss) = b
  BY <1>1, <1>3, LenOf
<1>4. /\ \A i \in 1 .. a : ps[i] = Document("shard", i, plan.sharding, {"share_of_passphrase"})
      /\ \A i \in 1 .. b : ss[i] = Document("signing_key_shard", i, KeyQuorum(plan), {"share_of_signing_key"})
  BY ShardDocumentsAre
<1>5. /\ h[1] = Document("qr", 1, Unset, Stored(plan)) /\ h[2] = Document("recovery", 1, plan.sharding, Stored(plan) \cup KeyLines(plan))
      /\ h = [i \in 1 .. 2 |-> h[i]]
  OBVIOUS
<1>6. x = [i \in 1 .. k |-> x[i]] /\ (k = 1 => x[1] = Document("kit_index", 2 + a + b, Unset, {}))
  <2>1. KitIndexRows(plan) = 2 + a + b
    BY <1>3a DEF KitIndexRows
  <2> HIDE DEF a, b
  <2>2. CASE ask.kitIndex
    BY <2>1, <2>2 DEF Indexes
  <2>3. CASE ~ask.kitIndex
    BY <2>3 DEF Indexes
  <2> QED BY <2>2, <2>3
<1> HIDE DEF k, a, b, D, h, x, ps, ss
<1>7. h \o x = [i \in 1 .. (2 + k) |-> IF i <= 2 THEN h[i] ELSE x[i - 2]]
  BY <1>1, <1>5, <1>6, Joined
<1> DEFINE y == h \o x
<1>8. /\ y = [i \in 1 .. (2 + k) |-> y[i]] /\ y[1] = h[1] /\ y[2] = h[2] /\ (k = 1 => y[3] = x[1])
  BY <1>7, <1>1
<1> HIDE DEF y
<1>9. y \o ps = [i \in 1 .. (2 + k + a) |-> IF i <= 2 + k THEN y[i] ELSE ps[i - (2 + k)]]
  BY <1>1, <1>3, <1>8, Joined
<1> DEFINE z == y \o ps
<1>10. z = [i \in 1 .. (2 + k + a) |-> z[i]]
  BY <1>9
<1>11. \A i \in 1 .. (2 + k) : z[i] = y[i]
  BY <1>9, <1>1
<1>12. \A i \in 3 + k .. 2 + k + a : z[i] = ps[i - 2 - k]
  BY <1>9, <1>1
<1> HIDE DEF z
<1>13. z \o ss = [i \in 1 .. (2 + k + a + b) |-> IF i <= 2 + k + a THEN z[i] ELSE ss[i - (2 + k + a)]]
  BY <1>1, <1>3, <1>10, Joined
<1>14. D = [i \in 1 .. (2 + k + a + b) |-> IF i <= 2 + k + a THEN z[i] ELSE ss[i - (2 + k + a)]]
  BY <1>2, <1>13 DEF z, y
<1>15. D = [i \in 1 .. (2 + k + a + b) |-> D[i]]
  BY <1>14
<1>16. D[1] = h[1] /\ D[2] = h[2] /\ (k = 1 => D[3] = x[1])
  BY <1>14, <1>11, <1>8, <1>1
<1>17. ASSUME NEW i \in 3 + k .. 2 + k + a
       PROVE  D[i] = Document("shard", i - 2 - k, plan.sharding, {"share_of_passphrase"})
  <2>1. D[i] = z[i] /\ i - 2 - k \in 1 .. a
    BY <1>14, <1>1
  <2> QED BY <2>1, <1>12, <1>4
<1>18. ASSUME NEW i \in 3 + k + a .. 2 + k + a + b
       PROVE  D[i] = Document("signing_key_shard", i - 2 - k - a, KeyQuorum(plan), {"share_of_signing_key"})
  <2>1. D[i] = ss[i - (2 + k + a)] /\ i - (2 + k + a) \in 1 .. b /\ i - 2 - k - a = i - (2 + k + a)
    BY <1>14, <1>1
  <2> QED BY <2>1, <1>4
<1> QED BY <1>5, <1>6, <1>15, <1>16, <1>17, <1>18 DEF k, a, b, D

\* The documents of a plan stay what they are while it does.
LEMMA DocumentsKept == ASSUME ask' = ask, plan' = plan PROVE Documents(plan)' = Documents(plan)
<1>1. \A a, b, c, d : Document(a, b, c, d)' = Document(a, b, c, d)
  BY DEF Document
<1>2. \A a, b, c : ShardDocuments(a, b, c)' = ShardDocuments(a, b, c)
  BY <1>1 DEF ShardDocuments
<1>3. PassphraseShards(plan)' = PassphraseShards(plan) /\ SigningKeyShards(plan)' = SigningKeyShards(plan)
  BY <1>2 DEF PassphraseShards, SigningKeyShards, SigningKeySharded, Merged
<1>4. KitIndexRows(plan)' = KitIndexRows(plan) /\ Stored(plan)' = Stored(plan) /\ KeyLines(plan)' = KeyLines(plan)
  BY <1>3 DEF KitIndexRows, Stored, KeyLines
<1> QED BY <1>1, <1>3, <1>4 DEF Documents

\* A plan has a finite, non-empty list of documents.
LEMMA DocumentsAreASequence ==
  ASSUME Settled(plan)
  PROVE  LET D == Documents(plan)
         IN  Len(D) \in Nat /\ Len(D) > 0 /\ D = [i \in 1 .. Len(D) |-> D[i]] /\ DOMAIN D = 1 .. Len(D)
                 /\ Len(D) = 2 + Indexes + Shards(plan) + KeyShards(plan)
<1> DEFINE D == Documents(plan)
           m == 2 + Indexes + Shards(plan) + KeyShards(plan)
<1>1. D = [i \in 1 .. m |-> D[i]]
  BY DocumentsAre
<1>2. m \in Nat /\ m > 0
  BY CountsOfPlan
<1> HIDE DEF m, D
<1>3. Len(D) = m /\ DOMAIN D = 1 .. m
  BY <1>1, <1>2, LenOf
<1> QED BY <1>1, <1>2, <1>3 DEF m, D

\* The staged and the published files of a backup are those of its plan.
LEMMA RenderedStep ==
  ASSUME Path, ask.command = "backup", Chosen, Planned, Rendered, Next
  PROVE  Rendered'
<1> USE DEF Boot, Wizard, Asking, Working
<1>a. status = Running \/ at = "done"
  BY DEF Path, Ended
<1>1. ASSUME papers' = <<>>, outputs' = <<>>, at' \notin {"render", "commit", "report", "result", "return"}
      PROVE  Rendered'
  BY <1>1 DEF Rendered
<1>2. CASE Bootstrap
  <2>1. at \in Boot /\ at' \in Boot \cup {"done", "backup"} /\ papers' = papers /\ outputs' = outputs
    BY <1>2, BootKeeps, BootGoes
  <2>2. papers = <<>> /\ outputs = <<>>
    BY <2>1 DEF Rendered
  <2> QED BY <2>1, <2>2, <1>1
<1>3. ASSUME at \in {"backup", "wizard_proceed"} \cup Asking \cup Working, papers' = papers, outputs' = outputs,
             at' \notin {"render", "commit", "report", "result", "return"}
      PROVE  Rendered'
  <2>1. papers = <<>> /\ outputs = <<>>
    BY <1>3 DEF Rendered
  <2> QED BY <2>1, <1>3, <1>1
<1>4. CASE StartBackup \/ CheckInput \/ BackupBrowsers \/ ResolvePlan \/ LoadInputs \/ WizardStarts
  BY <1>4, <1>3 DEF StartBackup, CheckInput, BackupBrowsers, ResolvePlan, LoadInputs, WizardStarts
<1>5. CASE PromptRecovery
  <2>1. at = "wizard_recovery" /\ at' \in {"done", "wizard_layout"} /\ papers' = papers /\ outputs' = outputs
    BY <1>5, Zenon DEF PromptRecovery
  <2> QED BY <2>1, <1>3
<1>6. CASE PromptEncryption \/ PromptLayout \/ PromptInputs
  BY <1>6, <1>3 DEF PromptEncryption, PromptLayout, PromptInputs
<1>7. CASE ShowReview \/ Proceed
  BY <1>7, <1>3 DEF ShowReview, Proceed
<1>8. CASE PreparePayload \/ PrepareEnvelope \/ EncryptPayload \/ CreateShards \/ ChunkAndStage
  BY <1>8, <1>3 DEF PreparePayload, PrepareEnvelope, EncryptPayload, CreateShards, ChunkAndStage
<1> DEFINE D == Documents(plan)
<1>b. ASSUME Settled(plan)
      PROVE  Len(D) \in Nat /\ Len(D) > 0 /\ D = [i \in 1 .. Len(D) |-> D[i]] /\ DOMAIN D = 1 .. Len(D) /\ D # <<>>
  BY <1>b, DocumentsAreASequence
<1>9. CASE PrepareRender
  <2>1. at' = "render" /\ papers' = papers /\ outputs' = outputs /\ ask' = ask /\ plan' = plan /\ at = "inputs"
    BY <1>9 DEF PrepareRender
  <2>2. papers' = <<>> /\ outputs' = <<>> /\ Settled(plan)
    BY <2>1 DEF Rendered, Planned
  <2>3. D' = D
    BY <2>1, DocumentsKept
  <2>4. Len(papers') \in 0 .. Len(D)
    BY <2>2, <1>b
  <2>5. papers' = [i \in 1 .. Len(papers') |-> D[i]]
    BY <2>2
  <2> HIDE DEF D
  <2> QED BY <2>1, <2>2, <2>3, <2>4, <2>5 DEF Rendered, D
<1>10. CASE RenderDocument
  <2>1. outputs' = outputs /\ ask' = ask /\ plan' = plan /\ at = "render"
    BY <1>10 DEF RenderDocument
  <2>2. outputs' = <<>> /\ Settled(plan) /\ Len(papers) \in 0 .. Len(D) /\ papers = [i \in 1 .. Len(papers) |-> D[i]]
    BY <2>1 DEF Rendered, Planned
  <2>3. D' = D
    BY <2>1, DocumentsKept
  <2>4. CASE Len(papers) < Len(D)
    <3>1. papers' = Append(papers, D[Len(papers) + 1]) /\ at' = at
      BY <1>10, <2>4 DEF RenderDocument
    <3> HIDE DEF D
    <3>2. /\ Len(papers') = Len(papers) + 1
          /\ papers' = [i \in 1 .. Len(papers) + 1 |-> D[i]]
      BY <3>1, <2>2
    <3>3. Len(papers') \in 0 .. Len(D) /\ papers' = [i \in 1 .. Len(papers') |-> D[i]]
      BY <3>2, <2>2, <2>4, <1>b
    <3> QED BY <3>1, <3>3, <2>1, <2>2, <2>3 DEF Rendered, D
  <2>5. CASE ~(Len(papers) < Len(D))
    <3>1. papers' = papers /\ at' = "commit"
      BY <1>10, <2>5 DEF RenderDocument
    <3> HIDE DEF D
    <3>2. papers = D
      BY <2>2, <2>5, <1>b
    <3> QED BY <3>1, <3>2, <2>1, <2>2, <2>3 DEF Rendered, D
  <2> QED BY <2>4, <2>5
<1>11. CASE Commit
  <2>1. outputs' = papers /\ papers' = <<>> /\ ask' = ask /\ plan' = plan /\ at = "commit" /\ at' = "report" /\ status' = status
    BY <1>11 DEF Commit
  <2>2. papers = D /\ D' = D
    BY <2>1, DocumentsKept DEF Rendered
  <2>3. status' # 1
    BY <2>1, <1>a DEF Running
  <2> HIDE DEF D
  <2> QED BY <2>1, <2>2, <2>3 DEF Rendered, D
<1>12. CASE ReportBackup \/ BackupResult
  <2>1. /\ outputs' = outputs /\ papers' = papers /\ ask' = ask /\ plan' = plan /\ at \in {"report", "result"}
        /\ at' \in {"result", "return"} /\ status' = status
    BY <1>12 DEF ReportBackup, BackupResult
  <2>2. outputs = D /\ D' = D /\ papers = <<>>
    BY <2>1, DocumentsKept DEF Rendered
  <2>3. status' # 1
    BY <2>1, <1>a DEF Running
  <2> HIDE DEF D
  <2> QED BY <2>1, <2>2, <2>3 DEF Rendered, D
<1>13. CASE Return \/ Breaks \/ Interrupt
  <2>1. /\ outputs' = outputs /\ ask' = ask /\ plan' = plan /\ at' = "done"
    BY <1>13, EndMoves
  <2>2. D' = D /\ (outputs = <<>> \/ outputs = D)
    BY <2>1, DocumentsKept DEF Rendered
  <2>3. status' = 1 => outputs' = <<>>
    <3>1. status' = 1 => at \in Boot
      BY <1>13 DEF Return, Breaks, Interrupt
    <3> QED BY <3>1, <2>1 DEF Rendered
  <2> HIDE DEF D
  <2> QED BY <2>1, <2>2, <2>3 DEF Rendered, D
<1> QED
  BY <1>2, <1>4, <1>5, <1>6, <1>7, <1>8, <1>9, <1>10, <1>11, <1>12, <1>13, BackupPath DEF BackupNext

\* A document says what it was made with.
LEMMA DocumentFields ==
  \A a, b, c, d : /\ Document(a, b, c, d).kind = a /\ Document(a, b, c, d).index = b
                  /\ Document(a, b, c, d).quorum = c /\ Document(a, b, c, d).holds = d
                  /\ Document(a, b, c, d).paper = plan.paper /\ Document(a, b, c, d).dir = plan.dir
BY DEF Document

\* Where the documents of each kind are among those published.
LEMMA PublishedKinds ==
  ASSUME Settled(plan), outputs = Documents(plan)
  PROVE  LET k == Indexes
             a == Shards(plan)
             b == KeyShards(plan)
         IN  /\ DOMAIN outputs = 1 .. (2 + k + a + b) /\ Len(outputs) = 2 + k + a + b
             /\ OutputsOf("qr") = {1} /\ OutputsOf("recovery") = {2}
             /\ OutputsOf("kit_index") = (IF k = 1 THEN {3} ELSE {})
             /\ OutputsOf("shard") = 3 + k .. 2 + k + a
             /\ OutputsOf("signing_key_shard") = 3 + k + a .. 2 + k + a + b
<1> DEFINE k == Indexes
           a == Shards(plan)
           b == KeyShards(plan)
           m == 2 + k + a + b
<1>1. k \in {0, 1} /\ a \in Nat /\ b \in Nat
  BY CountsOfPlan
<1>2. /\ outputs = [i \in 1 .. m |-> outputs[i]]
      /\ outputs[1] = Document("qr", 1, Unset, Stored(plan))
      /\ outputs[2] = Document("recovery", 1, plan.sharding, Stored(plan) \cup KeyLines(plan))
      /\ k = 1 => outputs[3] = Document("kit_index", 2 + a + b, Unset, {})
      /\ \A i \in 3 + k .. 2 + k + a : outputs[i] = Document("shard", i - 2 - k, plan.sharding, {"share_of_passphrase"})
      /\ \A i \in 3 + k + a .. 2 + k + a + b :
           outputs[i] = Document("signing_key_shard", i - 2 - k - a, KeyQuorum(plan), {"share_of_signing_key"})
  BY DocumentsAre
<1>3. Len(outputs) = m
  BY DocumentsAreASequence
<1> HIDE DEF k, a, b
<1>4. DOMAIN outputs = 1 .. m
  BY <1>2
<1> DEFINE kind(i) == outputs[i].kind
<1>5. \A i \in 1 .. m : \/ i = 1 /\ kind(i) = "qr"
                        \/ i = 2 /\ kind(i) = "recovery"
                        \/ i = 3 /\ k = 1 /\ kind(i) = "kit_index"
                        \/ i \in 3 + k .. 2 + k + a /\ kind(i) = "shard"
                        \/ i \in 3 + k + a .. 2 + k + a + b /\ kind(i) = "signing_key_shard"
  <2> TAKE i \in 1 .. m
  <2>1. \/ i = 1 \/ i = 2 \/ (i = 3 /\ k = 1)
        \/ i \in 3 + k .. 2 + k + a \/ i \in 3 + k + a .. 2 + k + a + b
    BY <1>1
  <2>2. i = 1 => kind(i) = "qr"
    BY <1>2, DocumentFields
  <2>3. i = 2 => kind(i) = "recovery"
    BY <1>2, DocumentFields
  <2>4. i = 3 /\ k = 1 => kind(i) = "kit_index"
    BY <1>2, DocumentFields
  <2>5. i \in 3 + k .. 2 + k + a => kind(i) = "shard"
    BY <1>2, DocumentFields
  <2>6. i \in 3 + k + a .. 2 + k + a + b => kind(i) = "signing_key_shard"
    BY <1>2, DocumentFields
  <2> QED BY <2>1, <2>2, <2>3, <2>4, <2>5, <2>6
<1>a. \A x : OutputsOf(x) = { i \in 1 .. m : kind(i) = x }
  BY <1>4 DEF OutputsOf
<1> HIDE DEF kind
<1>6. OutputsOf("qr") = {1}
  BY <1>1, <1>5, <1>a
<1>7. OutputsOf("recovery") = {2}
  BY <1>1, <1>5, <1>a
<1>8. OutputsOf("kit_index") = (IF k = 1 THEN {3} ELSE {})
  BY <1>1, <1>5, <1>a
<1>9. OutputsOf("shard") = 3 + k .. 2 + k + a
  <2>1. \A i \in 1 .. m : kind(i) = "shard" <=> i \in 3 + k .. 2 + k + a
    BY <1>1, <1>5
  <2>2. 3 + k .. 2 + k + a \subseteq 1 .. m
    BY <1>1
  <2> QED BY <2>1, <2>2, <1>a
<1>10. OutputsOf("signing_key_shard") = 3 + k + a .. 2 + k + a + b
  <2>1. \A i \in 1 .. m : kind(i) = "signing_key_shard" <=> i \in 3 + k + a .. 2 + k + a + b
    BY <1>1, <1>5
  <2>2. 3 + k + a .. 2 + k + a + b \subseteq 1 .. m
    BY <1>1
  <2> QED BY <2>1, <2>2, <1>a
<1> QED BY <1>3, <1>4, <1>6, <1>7, <1>8, <1>9, <1>10 DEF k, a, b

\* What the published documents hold.
LEMMA PublishedHolds ==
  ASSUME Settled(plan), outputs = Documents(plan)
  PROVE  /\ Shows("passphrase") <=> plan.sharding = Unset
         /\ Shows("signing_key") <=> ~plan.sealed
         /\ Shows("share_of_signing_key") <=> KeyShards(plan) > 0
<1> DEFINE k == Indexes
           a == Shards(plan)
           b == KeyShards(plan)
           m == 2 + k + a + b
<1>1. k \in {0, 1} /\ a \in Nat /\ b \in Nat
  BY CountsOfPlan
<1>2a. /\ outputs[1] = Document("qr", 1, Unset, Stored(plan))
       /\ outputs[2] = Document("recovery", 1, plan.sharding, Stored(plan) \cup KeyLines(plan))
       /\ k = 1 => outputs[3] = Document("kit_index", 2 + a + b, Unset, {})
       /\ \A i \in 3 + k .. 2 + k + a : outputs[i] = Document("shard", i - 2 - k, plan.sharding, {"share_of_passphrase"})
       /\ \A i \in 3 + k + a .. 2 + k + a + b :
            outputs[i] = Document("signing_key_shard", i - 2 - k - a, KeyQuorum(plan), {"share_of_signing_key"})
  BY DocumentsAre
<1>2b. DOMAIN outputs = 1 .. m
  BY PublishedKinds
<1>2. /\ outputs[1].holds = Stored(plan) /\ outputs[2].holds = Stored(plan) \cup KeyLines(plan)
      /\ k = 1 => outputs[3].holds = {}
      /\ \A i \in 3 + k .. 2 + k + a : outputs[i].holds = {"share_of_passphrase"}
      /\ \A i \in 3 + k + a .. 2 + k + a + b : outputs[i].holds = {"share_of_signing_key"}
      /\ DOMAIN outputs = 1 .. m
  BY <1>2a, <1>2b, DocumentFields
<1> HIDE DEF k, a, b
<1>5. \A i \in 1 .. m : \/ i = 1 \/ i = 2 \/ (i = 3 /\ k = 1)
                        \/ i \in 3 + k .. 2 + k + a \/ i \in 3 + k + a .. 2 + k + a + b
  BY <1>1
<1>6. \A i \in DOMAIN outputs : outputs[i].holds \in {Stored(plan), Stored(plan) \cup KeyLines(plan), {}, {"share_of_passphrase"}}
                                \/ (b > 0 /\ outputs[i].holds = {"share_of_signing_key"})
  <2>1. \A i \in 3 + k + a .. 2 + k + a + b : b > 0
    BY <1>1
  <2> QED BY <1>2, <1>5, <2>1
<1>7. 1 \in DOMAIN outputs /\ 2 \in DOMAIN outputs
  BY <1>1, <1>2
<1>8. b > 0 => 3 + k + a \in DOMAIN outputs /\ outputs[3 + k + a].holds = {"share_of_signing_key"}
  BY <1>1, <1>2
<1>9. Stored(plan) = (IF plan.sealed THEN {} ELSE {"signing_key"}) /\ KeyLines(plan) = (IF plan.sharding = Unset THEN {"passphrase"} ELSE {})
  BY DEF Stored, KeyLines
<1>10. Shows("passphrase") <=> plan.sharding = Unset
  BY <1>2, <1>6, <1>7, <1>9 DEF Shows
<1>11. Shows("signing_key") <=> ~plan.sealed
  BY <1>2, <1>6, <1>7, <1>9 DEF Shows
<1>12. Shows("share_of_signing_key") <=> b > 0
  BY <1>2, <1>6, <1>7, <1>8, <1>9 DEF Shows
<1> QED BY <1>10, <1>11, <1>12 DEF b

\* What a published backup is made of.
LEMMA BackupIsOfPlan ==
  ASSUME BackupMade, BackupPublished
  PROVE  outputs = Documents(plan) /\ Settled(plan) /\ ask.command = "backup"
BY DEF BackupMade, BackupPublished, Planned, Rendered

\* The secrets are where the plan has them.
LEMMA SecretsFromPlan == BackupMade => SecretsWherePlanned
<1> SUFFICES ASSUME BackupMade, BackupPublished
             PROVE  /\ OutputsOf("shard") # {} => ~Shows("passphrase")
                    /\ plan.sealed => ~Shows("signing_key") /\ ~Shows("share_of_signing_key")
  BY DEF SecretsWherePlanned
<1>1. outputs = Documents(plan) /\ Settled(plan)
  BY BackupIsOfPlan
<1>2. plan.sharding = Unset => Shards(plan) = 0
  BY DEF Shards
<1>3. plan.sharding = Unset => OutputsOf("shard") = {}
  BY <1>1, <1>2, PublishedKinds, CountsOfPlan
<1>4. plan.sealed => KeyShards(plan) = 0
  BY DEF KeyShards, SigningKeySharded
<1> QED BY <1>1, <1>3, <1>4, PublishedHolds

\* A quorum's documents, with its indexes once each, are a complete set.
LEMMA CompleteFromRange ==
  ASSUME NEW kind, NEW q \in Quorums, NEW m \in Nat,
         OutputsOf(kind) = m + 1 .. m + q.n,
         \A i \in OutputsOf(kind) : outputs[i].quorum = q /\ outputs[i].index = i - m
  PROVE  CompleteSet(kind)
<1>1. q.t \in Nat /\ q.n \in Nat /\ 1 <= q.t /\ q.t <= q.n /\ q.n <= MaxShards
  BY MaxShardsAssumption DEF Quorums
<1>2. m + 1 \in OutputsOf(kind)
  BY <1>1
<1>3. q \in { outputs[i].quorum : i \in OutputsOf(kind) }
  BY <1>2
<1>4. IndexesOf(kind) = 1 .. q.n
  <2>1. ASSUME NEW x \in IndexesOf(kind) PROVE x \in 1 .. q.n
    <3>1. PICK i \in OutputsOf(kind) : x = outputs[i].index
      BY DEF IndexesOf
    <3> QED BY <3>1, <1>1
  <2>2. ASSUME NEW x \in 1 .. q.n PROVE x \in IndexesOf(kind)
    <3>1. x + m \in OutputsOf(kind) /\ outputs[x + m].index = x
      BY <1>1
    <3> QED BY <3>1 DEF IndexesOf
  <2> QED BY <2>1, <2>2
<1>5. Cardinality(OutputsOf(kind)) = q.n
  BY <1>1, FS_Interval
<1> QED BY <1>1, <1>3, <1>4, <1>5 DEF CompleteSet

\* What the documents of a published backup say of themselves.
LEMMA PublishedFields ==
  ASSUME Settled(plan), outputs = Documents(plan)
  PROVE  /\ \A i \in OutputsOf("shard") : outputs[i].quorum = plan.sharding /\ outputs[i].index = i - (2 + Indexes)
         /\ \A i \in OutputsOf("signing_key_shard") :
              outputs[i].quorum = KeyQuorum(plan) /\ outputs[i].index = i - (2 + Indexes + Shards(plan))
         /\ \A i \in OutputsOf("kit_index") : outputs[i].index = Len(outputs) - 1 /\ ask.kitIndex
         /\ \A i \in DOMAIN outputs : outputs[i].paper = plan.paper /\ outputs[i].dir = plan.dir
<1> DEFINE k == Indexes
           a == Shards(plan)
           b == KeyShards(plan)
           m == 2 + k + a + b
<1>1. k \in {0, 1} /\ a \in Nat /\ b \in Nat
  BY CountsOfPlan
<1>2. /\ outputs[1] = Document("qr", 1, Unset, Stored(plan))
      /\ outputs[2] = Document("recovery", 1, plan.sharding, Stored(plan) \cup KeyLines(plan))
      /\ k = 1 => outputs[3] = Document("kit_index", 2 + a + b, Unset, {})
      /\ \A i \in 3 + k .. 2 + k + a : outputs[i] = Document("shard", i - 2 - k, plan.sharding, {"share_of_passphrase"})
      /\ \A i \in 3 + k + a .. 2 + k + a + b :
           outputs[i] = Document("signing_key_shard", i - 2 - k - a, KeyQuorum(plan), {"share_of_signing_key"})
  BY DocumentsAre
<1>3. /\ DOMAIN outputs = 1 .. m /\ Len(outputs) = m
      /\ OutputsOf("kit_index") = (IF k = 1 THEN {3} ELSE {})
      /\ OutputsOf("shard") = 3 + k .. 2 + k + a
      /\ OutputsOf("signing_key_shard") = 3 + k + a .. 2 + k + a + b
  BY PublishedKinds
<1>4. k = 1 => ask.kitIndex
  BY DEF Indexes
<1> HIDE DEF k, a, b
<1>5. \A i \in OutputsOf("shard") : outputs[i].quorum = plan.sharding /\ outputs[i].index = i - 2 - k
  <2> TAKE i \in OutputsOf("shard")
  <2>1. outputs[i] = Document("shard", i - 2 - k, plan.sharding, {"share_of_passphrase"})
    BY <1>2, <1>3
  <2> QED BY <2>1, DocumentFields
<1>6. \A i \in OutputsOf("signing_key_shard") : outputs[i].quorum = KeyQuorum(plan) /\ outputs[i].index = i - 2 - k - a
  <2> TAKE i \in OutputsOf("signing_key_shard")
  <2>1. outputs[i] = Document("signing_key_shard", i - 2 - k - a, KeyQuorum(plan), {"share_of_signing_key"})
    BY <1>2, <1>3
  <2> QED BY <2>1, DocumentFields
<1>7. \A i \in OutputsOf("kit_index") : outputs[i].index = Len(outputs) - 1 /\ ask.kitIndex
  <2>1. k = 1 => outputs[3].index = 2 + a + b /\ m - 1 = 2 + a + b
    BY <1>1, <1>2, DocumentFields
  <2> QED BY <2>1, <1>3, <1>4
<1>8. ASSUME NEW i \in DOMAIN outputs PROVE outputs[i].paper = plan.paper /\ outputs[i].dir = plan.dir
  <2>1. \/ i = 1 \/ i = 2 \/ (i = 3 /\ k = 1)
        \/ i \in 3 + k .. 2 + k + a \/ i \in 3 + k + a .. 2 + k + a + b
    BY <1>1, <1>3
  <2>2. \E w, x, y, z : outputs[i] = Document(w, x, y, z)
    BY <2>1, <1>2
  <2> QED BY <2>2, DocumentFields
<1>9. /\ \A i \in OutputsOf("shard") : i - 2 - k = i - (2 + k)
      /\ \A i \in OutputsOf("signing_key_shard") : i - 2 - k - a = i - (2 + k + a)
  BY <1>1, <1>3
<1> QED BY <1>5, <1>6, <1>7, <1>8, <1>9 DEF k, a

\* What a plan that can be carried out puts on paper can be opened again.
LEMMA RecoverableFromPlan == BackupMade => BackupRecoverable
<1> SUFFICES ASSUME BackupMade, BackupPublished
    PROVE  /\ OutputsOf("qr") # {} /\ OutputsOf("recovery") # {}
           /\ Shows("passphrase") \/ (OutputsOf("shard") # {} /\ CompleteSet("shard"))
           /\ OutputsOf("signing_key_shard") # {} => CompleteSet("signing_key_shard")
           /\ \A i \in OutputsOf("kit_index") : outputs[i].index = Len(outputs) - 1 /\ ask.kitIndex
  BY DEF BackupRecoverable
<1> DEFINE k == Indexes
           a == Shards(plan)
           b == KeyShards(plan)
<1>1. outputs = Documents(plan) /\ Settled(plan)
  BY BackupIsOfPlan
<1>2. k \in {0, 1} /\ a \in Nat /\ b \in Nat
  BY <1>1, CountsOfPlan
<1>3. /\ OutputsOf("qr") = {1} /\ OutputsOf("recovery") = {2}
      /\ OutputsOf("shard") = 3 + k .. 2 + k + a
      /\ OutputsOf("signing_key_shard") = 3 + k + a .. 2 + k + a + b
  BY <1>1, PublishedKinds
<1>4. /\ \A i \in OutputsOf("shard") : outputs[i].quorum = plan.sharding /\ outputs[i].index = i - (2 + k)
      /\ \A i \in OutputsOf("signing_key_shard") :
           outputs[i].quorum = KeyQuorum(plan) /\ outputs[i].index = i - (2 + k + a)
      /\ \A i \in OutputsOf("kit_index") : outputs[i].index = Len(outputs) - 1 /\ ask.kitIndex
  BY <1>1, PublishedFields
<1>5. /\ plan.sharding # Unset => plan.sharding \in Quorums /\ a > 0 /\ a = plan.sharding.n
      /\ b > 0 => KeyQuorum(plan) \in Quorums /\ b = KeyQuorum(plan).n
  BY <1>1, CountsOfPlan DEF Shards, KeyShards
<1>6. Shows("passphrase") <=> plan.sharding = Unset
  BY <1>1, PublishedHolds
<1> HIDE DEF k, a, b
<1>7. plan.sharding # Unset => OutputsOf("shard") # {} /\ CompleteSet("shard")
  <2> HAVE plan.sharding # Unset
  <2>1. OutputsOf("shard") = (2 + k) + 1 .. (2 + k) + plan.sharding.n /\ 2 + k \in Nat
    BY <1>2, <1>3, <1>5
  <2>2. CompleteSet("shard")
    BY <2>1, <1>4, <1>5, CompleteFromRange
  <2>3. 3 + k \in OutputsOf("shard")
    BY <1>2, <1>3, <1>5
  <2> QED BY <2>2, <2>3
<1>8. OutputsOf("signing_key_shard") # {} => CompleteSet("signing_key_shard")
  <2> HAVE OutputsOf("signing_key_shard") # {}
  <2>1. b > 0
    BY <1>2, <1>3
  <2>2. OutputsOf("signing_key_shard") = (2 + k + a) + 1 .. (2 + k + a) + KeyQuorum(plan).n /\ 2 + k + a \in Nat
    BY <2>1, <1>2, <1>3, <1>5
  <2> QED BY <2>1, <2>2, <1>4, <1>5, CompleteFromRange
<1> QED BY <1>3, <1>4, <1>6, <1>7, <1>8

\* A review is not None, so a run knows whether there was a wizard.
LEMMA ReviewIsSomething ==
  ASSUME ask \in Invocations, Settled(plan) PROVE ReviewRows(plan) # Unset
<1>1. ask.kitIndex \in BOOLEAN
  BY InvocationsAssumption
<1>2. Quorums \subseteq [t : Int, n : Int]
  BY DEF Quorums
<1>3. /\ plan.sharding \in [t : Int, n : Int] \cup {Unset} /\ plan.seed \in [t : Int, n : Int] \cup {Unset}
      /\ plan.sealed \in BOOLEAN /\ plan.mode \in Name /\ plan.paper \in Name /\ plan.dir \in Name
  BY <1>2 DEF Settled
<1>4. SigningLabel(plan) \in Name \cup {"not_applicable", "not_stored"}
  BY <1>3 DEF SigningLabel
<1>5. Merged(plan.seed, plan.sharding) \in [t : Int, n : Int] \cup {Unset}
  BY <1>3 DEF Merged
<1> DEFINE x == IF args.pass \in {Unset, "generate"} THEN "generated" ELSE "provided"
           y == IF plan.sharding # Unset /\ plan.mode = "sharded" THEN Merged(plan.seed, plan.sharding) ELSE Unset
<1>6. x \in {"generated", "provided"} /\ y \in [t : Int, n : Int] \cup {Unset}
  BY <1>5
<1>7. ReviewRows(plan) = [passphrase |-> x, sharding |-> plan.sharding, key |-> SigningLabel(plan), keyShards |-> y,
                          sealed |-> plan.sealed, paper |-> plan.paper, dir |-> plan.dir, kitIndex |-> ask.kitIndex]
  BY DEF ReviewRows
<1> HIDE DEF x, y
<1>8. ReviewRows(plan) \in Reviews
  BY <1>1, <1>3, <1>4, <1>6, <1>7 DEF Reviews
<1> QED BY <1>8, ReviewsAssumption

\* The plan is what was asked for.
LEMMA AskedFromPlan == Path /\ BackupMade => AskedIsMade
<1> SUFFICES ASSUME Path, BackupMade PROVE AskedIsMade
  OBVIOUS
<1>1. Done /\ ask.command = "backup" /\ status = 1 => outputs = <<>>
  BY DEF BackupMade, Rendered
<1>2. CASE ~BackupPublished
  BY <1>1, <1>2 DEF AskedIsMade
<1>3. CASE BackupPublished
  <2> DEFINE k == Indexes
             a == Shards(plan)
             b == KeyShards(plan)
  <2>1. outputs = Documents(plan) /\ Settled(plan) /\ ask \in Invocations /\ ask.command = "backup"
    BY <1>3, BackupIsOfPlan DEF Path
  <2>2. k \in {0, 1} /\ a \in Nat /\ b \in Nat
    BY <2>1, CountsOfPlan
  <2>3. /\ OutputsOf("kit_index") = (IF k = 1 THEN {3} ELSE {})
        /\ OutputsOf("shard") = 3 + k .. 2 + k + a
        /\ OutputsOf("signing_key_shard") = 3 + k + a .. 2 + k + a + b
    BY <2>1, PublishedKinds
  <2>4. /\ \A i \in OutputsOf("shard") : outputs[i].quorum = plan.sharding
        /\ \A i \in OutputsOf("signing_key_shard") : outputs[i].quorum = KeyQuorum(plan)
        /\ \A i \in DOMAIN outputs : outputs[i].paper = plan.paper /\ outputs[i].dir = plan.dir
    BY <2>1, PublishedFields
  <2>5. /\ plan.sharding # Unset <=> a > 0
        /\ SigningKeySharded(plan) <=> b > 0
    BY <2>1, CountsOfPlan DEF Shards, KeyShards
  <2>6. Shows("signing_key") <=> ~plan.sealed
    BY <2>1, PublishedHolds
  <2>7. k = 1 <=> ask.kitIndex
    BY DEF Indexes
  <2> HIDE DEF k, a, b
  <2>8. /\ plan.sharding = Unset <=> OutputsOf("shard") = {}
        /\ ~SigningKeySharded(plan) <=> OutputsOf("signing_key_shard") = {}
        /\ ask.kitIndex <=> OutputsOf("kit_index") # {}
    <3>1. a > 0 <=> OutputsOf("shard") # {}
      <4>1. a > 0 => 3 + k \in OutputsOf("shard")
        BY <2>2, <2>3
      <4>2. \A i \in OutputsOf("shard") : a > 0
        BY <2>2, <2>3
      <4> QED BY <4>1, <4>2
    <3>2. b > 0 <=> OutputsOf("signing_key_shard") # {}
      <4>1. b > 0 => 3 + k + a \in OutputsOf("signing_key_shard")
        BY <2>2, <2>3
      <4>2. \A i \in OutputsOf("signing_key_shard") : b > 0
        BY <2>2, <2>3
      <4> QED BY <4>1, <4>2
    <3> QED BY <3>1, <3>2, <2>3, <2>5, <2>7
  <2>9. \/ review = Unset /\ plan = OptionsPlan /\ BackupArgs \in BackupArgsType /\ ~BackupInvalid(BackupArgs)
        \/ review = ReviewRows(plan) /\ ~(plan.mode = "sharded" /\ plan.sealed)
    BY <1>3, <2>1 DEF BackupMade, Planned, BackupPublished
  <2>10. ASSUME review = ReviewRows(plan), ~(plan.mode = "sharded" /\ plan.sealed)
         PROVE  /\ review.sharding = Unset <=> OutputsOf("shard") = {}
                /\ \A i \in OutputsOf("shard") : outputs[i].quorum = review.sharding
                /\ review.keyShards = Unset <=> OutputsOf("signing_key_shard") = {}
                /\ \A i \in OutputsOf("signing_key_shard") : outputs[i].quorum = review.keyShards
                /\ review.key = "sharded" <=> OutputsOf("signing_key_shard") # {}
                /\ review.sealed <=> ~Shows("signing_key")
                /\ review.kitIndex <=> OutputsOf("kit_index") # {}
                /\ \A i \in DOMAIN outputs : outputs[i].paper = review.paper /\ outputs[i].dir = review.dir
    <3>1. /\ review.sharding = plan.sharding /\ review.sealed = plan.sealed /\ review.paper = plan.paper
          /\ review.dir = plan.dir /\ review.kitIndex = ask.kitIndex /\ review.key = SigningLabel(plan)
          /\ review.keyShards = IF plan.sharding # Unset /\ plan.mode = "sharded" THEN KeyQuorum(plan) ELSE Unset
      BY <2>10 DEF ReviewRows, KeyQuorum
    <3>2. SigningKeySharded(plan) <=> plan.sharding # Unset /\ plan.mode = "sharded"
      BY <2>10 DEF SigningKeySharded
    <3>3. SigningKeySharded(plan) => KeyQuorum(plan) # Unset
      BY UnsetAssumption DEF SigningKeySharded, KeyQuorum, Merged
    <3>4. review.key = "sharded" <=> SigningKeySharded(plan)
      BY <3>1, <3>2, <2>10 DEF SigningLabel
    <3>5. review.keyShards = Unset <=> ~SigningKeySharded(plan)
      BY <3>1, <3>2, <3>3
    <3>6. SigningKeySharded(plan) => review.keyShards = KeyQuorum(plan)
      BY <3>1, <3>2
    <3> QED BY <3>1, <3>4, <3>5, <3>6, <2>4, <2>6, <2>8
  <2>11. ASSUME review = Unset, plan = OptionsPlan, BackupArgs \in BackupArgsType, ~BackupInvalid(BackupArgs)
         PROVE  /\ ask.opts.t # Unset => \E i \in OutputsOf("shard") : outputs[i].quorum.t = ask.opts.t
                /\ ask.opts.n # Unset => \E i \in OutputsOf("shard") : outputs[i].quorum.n = ask.opts.n
                /\ ask.opts.mode = "embedded" => OutputsOf("signing_key_shard") = {}
                /\ ask.opts.sealed <=> ~Shows("signing_key")
                /\ \A i \in DOMAIN outputs : outputs[i].dir = Merged(ask.opts.dir, ask.saved.dir)
    <3>1. ask.opts \in BackupOptions(ask) /\ SavedOptions(ask.saved)
      BY <2>1, InvocationsAssumption
    <3>2. {"t", "n", "mode", "sealed", "dir"} \subseteq DOMAIN ask.opts
      BY <3>1 DEF BackupOptions
    <3>3. \A f \in {"t", "n", "mode", "sealed", "dir"} :
            BackupArgs[f] = IF f \in DOMAIN ask.saved THEN Merged(ask.opts[f], ask.saved[f]) ELSE ask.opts[f]
      BY <3>2 DEF BackupArgs
    <3>4. /\ ask.opts.t # Unset => BackupArgs.t = ask.opts.t
          /\ ask.opts.n # Unset => BackupArgs.n = ask.opts.n
          /\ ask.opts.mode # Unset => BackupArgs.mode = ask.opts.mode
          /\ BackupArgs.sealed = ask.opts.sealed
          /\ BackupArgs.dir = Merged(ask.opts.dir, ask.saved.dir)
      BY <3>1, <3>3 DEF SavedOptions, Merged
    <3>5. /\ plan.sealed = BackupArgs.sealed /\ plan.dir = BackupArgs.dir
          /\ plan.mode = Merged(BackupArgs.mode, "embedded") /\ plan.sharding = Quorum(BackupArgs.t, BackupArgs.n)
      BY <2>11 DEF OptionsPlan, Placed, PlanFromArgs, DocumentPlan
    <3>6. /\ BackupArgs.t \in Count /\ BackupArgs.n \in Count /\ BackupArgs.st \in Count /\ BackupArgs.sn \in Count
      BY <2>11 DEF BackupArgsType
    <3>7. /\ plan.sharding = Unset <=> BackupArgs.t = Unset
          /\ BackupArgs.n # Unset => BackupArgs.t # Unset
      BY <2>11, <3>5, <3>6, ValidOptions
    <3>8. plan.sharding # Unset => plan.sharding.t = BackupArgs.t /\ plan.sharding.n = BackupArgs.n
      BY <3>5 DEF Quorum
    <3>9. plan.sharding # Unset => \E i \in OutputsOf("shard") : outputs[i].quorum = plan.sharding
      BY <2>4, <2>8
    <3>10. ask.opts.t # Unset \/ ask.opts.n # Unset => plan.sharding # Unset
      BY <3>4, <3>7
    <3>11. ask.opts.t # Unset => \E i \in OutputsOf("shard") : outputs[i].quorum.t = ask.opts.t
      BY <3>4, <3>8, <3>9, <3>10
    <3>12. ask.opts.n # Unset => \E i \in OutputsOf("shard") : outputs[i].quorum.n = ask.opts.n
      BY <3>4, <3>8, <3>9, <3>10
    <3>13. ask.opts.mode = "embedded" => OutputsOf("signing_key_shard") = {}
      <4>1. "embedded" # Unset
        BY UnsetAssumption DEF Names
      <4>2. ask.opts.mode = "embedded" => plan.mode = "embedded"
        BY <4>1, <3>4, <3>5 DEF Merged
      <4> QED BY <4>2, <2>8 DEF SigningKeySharded
    <3> QED BY <3>4, <3>5, <3>11, <3>12, <3>13, <2>4, <2>6
  <2> HIDE DEF BackupPublished
  <2>12. review # Unset => review = ReviewRows(plan) /\ ~(plan.mode = "sharded" /\ plan.sealed)
    BY <2>9
  <2>13. review = Unset => plan = OptionsPlan /\ BackupArgs \in BackupArgsType /\ ~BackupInvalid(BackupArgs)
    BY <2>1, <2>9, ReviewIsSomething
  <2> QED BY <1>1, <2>10, <2>11, <2>12, <2>13 DEF AskedIsMade
<1> QED BY <1>2, <1>3

\* Nothing is chosen, planned or rendered at the start.
LEMMA BackupInit == ASSUME Init PROVE BackupMade
BY DEF Init, BackupMade, Chosen, Planned, Rendered, Boot, Asking, Working, Wizard, Running

\* Options, plan and documents agree after every step.
LEMMA BackupStep == ASSUME Path, BackupMade, [Next]_vars PROVE BackupMade'
<1>1. CASE UNCHANGED vars
  <2>1. /\ BackupArgs' = BackupArgs /\ WizardPlan' = WizardPlan /\ OptionsPlan' = OptionsPlan
        /\ BackupInvalid(BackupArgs)' = BackupInvalid(BackupArgs) /\ \A p : ReviewRows(p)' = ReviewRows(p)
        /\ Documents(plan)' = Documents(plan)
    BY <1>1, PlanKept, BackupArgsKept, DocumentsKept DEF vars
  <2>2. Chosen' <=> Chosen
    BY <1>1, <2>1 DEF vars, Chosen
  <2>3. ReviewRows(WizardPlan)' = ReviewRows(WizardPlan) /\ ReviewRows(plan)' = ReviewRows(plan)
    BY <1>1, <2>1 DEF vars, ReviewRows
  <2>4. Planned' <=> Planned
    BY <1>1, <2>1, <2>3 DEF vars, Planned, Settled
  <2>5. Rendered' <=> Rendered
    BY <1>1, <2>1 DEF vars, Rendered
  <2> QED BY <1>1, <2>2, <2>4, <2>5 DEF vars, BackupMade
<1>2. CASE Next
  <2>1. ask' = ask
    BY <1>2, AskKept
  <2>2. CASE ask.command # "backup"
    BY <2>1, <2>2 DEF BackupMade
  <2>3. CASE ask.command = "backup"
    BY <2>1, <2>3, <1>2, ChosenStep, PlannedStep, RenderedStep DEF BackupMade
  <2> QED BY <2>2, <2>3
<1> QED BY <1>1, <1>2

\* A published backup can be opened again.
THEOREM BackupsCanBeRecovered == Spec => []BackupRecoverable
<1>1. Init => Path /\ BackupMade
  BY PathInit, BackupInit
<1>2. Path /\ BackupMade /\ [Next]_vars => (Path /\ BackupMade)'
  BY PathStep, BackupStep
<1>3. BackupMade => BackupRecoverable
  BY RecoverableFromPlan
<1> QED
  BY <1>1, <1>2, <1>3, PTL DEF Spec

\* A passphrase that was split is on no document, and a sealed backup leaves its signing key nowhere.
THEOREM SecretsStayWherePlanned == Spec => []SecretsWherePlanned
<1>1. Init => Path /\ BackupMade
  BY PathInit, BackupInit
<1>2. Path /\ BackupMade /\ [Next]_vars => (Path /\ BackupMade)'
  BY PathStep, BackupStep
<1>3. BackupMade => SecretsWherePlanned
  BY SecretsFromPlan
<1> QED
  BY <1>1, <1>2, <1>3, PTL DEF Spec

\* What the wizard showed, or what the options asked for, is what was published.
THEOREM WhatWasAskedIsMade == Spec => []AskedIsMade
<1>1. Init => Path /\ BackupMade
  BY PathInit, BackupInit
<1>2. Path /\ BackupMade /\ [Next]_vars => (Path /\ BackupMade)'
  BY PathStep, BackupStep
<1>3. Path /\ BackupMade => AskedIsMade
  BY AskedFromPlan
<1> QED
  BY <1>1, <1>2, <1>3, PTL DEF Spec

(***************************************************************************)
(* Minting: the options, the plan and the documents of the plan.           *)
(***************************************************************************)
MintArgsType ==
  [input : BOOLEAN, p : BOOLEAN, s : BOOLEAN, t : Count, n : Count, st : Count, sn : Count,
   rp : Count, rs : Count, pass : Name, shards : Name, keys : BOOLEAN, paper : Name, dir : Name]

\* Something is asked for, and every count and quorum given is possible.
Requestable(a) == (a.p \/ a.s) /\ Positive(a.rp) /\ Positive(a.rs) /\ PairsValid(a)

MintChosen ==
  /\ at \in MintAsking \cup {"mint_render", "commit", "report", "return"} => args \in MintArgsType
  /\ at \in {"mint_keys", "mint_keys_read", "mint_authority", "mint_outputs"} => InScope(args) /\ PairsValid(args)
  /\ at = "mint_shards" => Requestable(args)

MintPlanned ==
  at \in {"mint_render", "commit", "report", "return"} \/ outputs # <<>> =>
    /\ args \in MintArgsType /\ Requestable(args)
    /\ PassphraseMintable /\ SigningMintable
    /\ plan = MintPlan

MintRendered ==
  /\ at \notin {"mint_render", "commit", "done"} => papers = <<>>
  /\ at = "mint_render" =>
       /\ Len(papers) \in 0 .. Len(MintedDocuments(plan))
       /\ papers = [i \in 1 .. Len(papers) |-> MintedDocuments(plan)[i]]
  /\ at = "commit" => papers = MintedDocuments(plan)
  /\ at \notin {"report", "return", "done"} => outputs = <<>>
  /\ at \in {"report", "return"} => outputs = MintedDocuments(plan)
  /\ outputs = <<>> \/ outputs = MintedDocuments(plan)
  /\ status = 0 /\ ~ask.help /\ ~ask.init => outputs # <<>>

MintMade == ask.command = "mint" => MintChosen /\ MintPlanned /\ MintRendered

\* The members of a finite set of numbers are ranked without gaps by how many are smaller.
LEMMA Ranks ==
  ASSUME NEW S, S \subseteq Nat, IsFiniteSet(S)
  PROVE  LET r == [i \in S |-> Cardinality({ j \in S : j < i })]
         IN  /\ Cardinality(S) \in Nat
             /\ \A i \in S : r[i] \in 0 .. (Cardinality(S) - 1)
             /\ \A i, j \in S : r[i] = r[j] => i = j
             /\ \A v \in 0 .. (Cardinality(S) - 1) : \E i \in S : r[i] = v
<1> DEFINE B(i) == { x \in S : x < i }
           r == [i \in S |-> Cardinality(B(i))]
           c == Cardinality(S)
<1>1. c \in Nat
  BY FS_CardinalityType
<1>2. ASSUME NEW i \in S
      PROVE  IsFiniteSet(B(i)) /\ Cardinality(B(i)) \in Nat /\ Cardinality(B(i)) < c
  <2>1. B(i) \in SUBSET S /\ i \notin B(i)
    OBVIOUS
  <2>2. IsFiniteSet(B(i)) /\ Cardinality(B(i)) <= c /\ (c = Cardinality(B(i)) => S = B(i))
    BY <2>1, FS_Subset
  <2>3. Cardinality(B(i)) \in Nat
    BY <2>2, FS_CardinalityType
  <2> HIDE DEF B, c
  <2> QED BY <1>1, <2>1, <2>2, <2>3
<1>3. ASSUME NEW i \in S, NEW j \in S, i < j
      PROVE  Cardinality(B(i)) < Cardinality(B(j))
  <2>0. \A x \in S : x < i => x < j
    BY <1>3
  <2>a. B(i) \in SUBSET B(j)
    BY <2>0
  <2>b. i \in B(j)
    BY <1>3
  <2>c. i \notin B(i)
    <3>1. i \in Nat
      OBVIOUS
    <3>2. ~(i < i)
      BY <3>1
    <3> QED BY <3>2
  <2>1. B(i) \in SUBSET B(j) /\ i \in B(j) /\ i \notin B(i)
    BY <2>a, <2>b, <2>c
  <2>2. IsFiniteSet(B(j)) /\ Cardinality(B(j)) \in Nat /\ Cardinality(B(i)) \in Nat
    BY <1>2
  <2>3. Cardinality(B(i)) <= Cardinality(B(j)) /\ (Cardinality(B(j)) = Cardinality(B(i)) => B(j) = B(i))
    BY <2>1, <2>2, FS_Subset
  <2> HIDE DEF B
  <2> QED BY <2>1, <2>2, <2>3
<1>4. \A i \in S : r[i] \in 0 .. (c - 1)
  <2> HIDE DEF B, c
  <2> QED BY <1>1, <1>2
<1>4a. ASSUME NEW i \in S, NEW j \in S, i < j
       PROVE  r[i] < r[j]
  <2>1. Cardinality(B(i)) < Cardinality(B(j))
    BY <1>3, <1>4a
  <2>2. r[i] = Cardinality(B(i)) /\ r[j] = Cardinality(B(j))
    OBVIOUS
  <2> HIDE DEF B, r
  <2> QED BY <2>1, <2>2, Zenon
<1>5. \A i, j \in S : r[i] = r[j] => i = j
  <2> SUFFICES ASSUME NEW i \in S, NEW j \in S, r[i] = r[j] PROVE i = j
    OBVIOUS
  <2>1. r[i] \in 0 .. (c - 1) /\ r[j] \in 0 .. (c - 1) /\ i \in Nat /\ j \in Nat
    BY <1>4
  <2> HIDE DEF r, c
  <2>2. i < j => r[i] < r[j]
    BY <1>4a
  <2>3. j < i => r[j] < r[i]
    BY <1>4a
  <2> QED BY <1>1, <2>1, <2>2, <2>3
<1> DEFINE T == 0 .. (c - 1)
<1>6. r \in Injection(S, T)
  <2>1. r \in [S -> T]
    BY <1>4
  <2> HIDE DEF r, T
  <2>2. DOMAIN r = S
    BY <2>1
  <2> QED BY <2>1, <2>2, <1>5 DEF Injection, IsInjective
<1>7. IsFiniteSet(T) /\ Cardinality(T) = c
  <2> HIDE DEF c
  <2>1. IsFiniteSet(T) /\ Cardinality(T) = IF 0 > c - 1 THEN 0 ELSE (c - 1) - 0 + 1
    BY <1>1, FS_Interval
  <2> QED BY <1>1, <2>1
<1>8. r \in Surjection(S, T)
  <2> HIDE DEF r, T
  <2> QED BY <1>6, <1>7, FS_Injection
<1>9. \A v \in T : \E i \in S : r[i] = v
  <2> HIDE DEF r, T
  <2> QED BY <1>8 DEF Surjection
<1> QED BY <1>1, <1>4, <1>5, <1>9

\* As many come first as are asked for, if there are as many.
LEMMA LeastHasCount ==
  ASSUME NEW S, S \subseteq Nat, IsFiniteSet(S), NEW count \in Nat, count <= Cardinality(S)
  PROVE  /\ Least(S, count) \subseteq S /\ IsFiniteSet(Least(S, count))
         /\ Cardinality(Least(S, count)) = count
<1> DEFINE r == [i \in S |-> Cardinality({ j \in S : j < i })]
           c == Cardinality(S)
           L == Least(S, count)
           T == 0 .. (count - 1)
           f == [i \in L |-> r[i]]
<1>1. /\ c \in Nat /\ \A i \in S : r[i] \in 0 .. (c - 1)
      /\ \A i, j \in S : r[i] = r[j] => i = j
      /\ \A v \in 0 .. (c - 1) : \E i \in S : r[i] = v
  BY Ranks
<1>2. L = { i \in S : r[i] < count }
  BY DEF Least
<1>3. L \in SUBSET S
  BY <1>2
<1> HIDE DEF r, c, L
<1>4. IsFiniteSet(L)
  BY <1>3, FS_Subset
<1>5. f \in [L -> T]
  <2>1. \A i \in L : r[i] \in T
    BY <1>1, <1>2
  <2> HIDE DEF T
  <2> QED BY <2>1
<1>6. \A i, j \in L : f[i] = f[j] => i = j
  BY <1>1, <1>3
<1>7. \A v \in T : \E i \in L : f[i] = v
  <2> TAKE v \in T
  <2>1. v \in 0 .. (c - 1) /\ v < count
    BY <1>1 DEF c
  <2>2. PICK i \in S : r[i] = v
    BY <1>1, <2>1
  <2>3. i \in L
    BY <2>1, <2>2, <1>2
  <2> QED BY <2>2, <2>3
<1> HIDE DEF f, T
<1>8. f \in Bijection(L, T)
  <2>1. DOMAIN f = L
    BY <1>5
  <2> QED BY <1>5, <1>6, <1>7, <2>1 DEF Bijection, Injection, Surjection, IsInjective
<1>9. Cardinality(T) = Cardinality(L)
  BY <1>4, <1>8, FS_Bijection, Fun_ExistsBij DEF ExistsBijection
<1>10. Cardinality(T) = count
  <2>1. Cardinality(T) = IF 0 > count - 1 THEN 0 ELSE (count - 1) - 0 + 1
    BY FS_Interval DEF T
  <2> QED BY <2>1
<1> QED BY <1>3, <1>4, <1>9, <1>10 DEF L

\* Ascending lists every member once.
LEMMA AscendingLists ==
  ASSUME NEW S, S \subseteq Nat, IsFiniteSet(S)
  PROVE  /\ Cardinality(S) \in Nat
         /\ Ascending(S) = [k \in 1 .. Cardinality(S) |-> Ascending(S)[k]]
         /\ \A k \in 1 .. Cardinality(S) : Ascending(S)[k] \in S
         /\ \A i \in S : \E k \in 1 .. Cardinality(S) : Ascending(S)[k] = i
<1> DEFINE r == [i \in S |-> Cardinality({ j \in S : j < i })]
           c == Cardinality(S)
           A == Ascending(S)
<1>1. /\ c \in Nat /\ \A i \in S : r[i] \in 0 .. (c - 1)
      /\ \A i, j \in S : r[i] = r[j] => i = j
      /\ \A v \in 0 .. (c - 1) : \E i \in S : r[i] = v
  BY Ranks
<1>2. A = [k \in 1 .. c |-> CHOOSE i \in S : Cardinality({ j \in S : j < i }) = k - 1]
  BY DEF Ascending
<1>3. ASSUME NEW k \in 1 .. c
      PROVE  A[k] \in S /\ r[A[k]] = k - 1
  <2>1. A[k] = CHOOSE i \in S : Cardinality({ j \in S : j < i }) = k - 1
    BY <1>2
  <2>2. k - 1 \in 0 .. (c - 1)
    BY <1>1
  <2>3. \E i \in S : r[i] = k - 1
    BY <1>1, <2>2
  <2>4. \E i \in S : Cardinality({ j \in S : j < i }) = k - 1
    BY <2>3
  <2>5. A[k] \in S /\ Cardinality({ j \in S : j < A[k] }) = k - 1
    BY <2>1, <2>4, Zenon
  <2> QED BY <2>5
<1>4. A = [k \in 1 .. c |-> A[k]]
  BY <1>2
<1>5. ASSUME NEW i \in S PROVE \E k \in 1 .. c : A[k] = i
  <2>1. r[i] + 1 \in 1 .. c
    BY <1>1
  <2> DEFINE k == r[i] + 1
  <2>2. A[k] \in S /\ r[A[k]] = k - 1
    BY <1>3, <2>1
  <2>3. r[A[k]] = r[i]
    BY <2>2, <1>1
  <2> HIDE DEF A, r
  <2>4. A[k] = i
    BY <2>2, <2>3, <1>1
  <2> QED BY <2>1, <2>4
<1> QED BY <1>1, <1>3, <1>4, <1>5

\* A run of mint takes steps of the start, of mint and of the ends only.
LEMMA MintPath == ASSUME Path, ask.command = "mint", Next
                  PROVE  Bootstrap \/ MintNext \/ Commit \/ Return \/ Breaks \/ Interrupt
<1> USE DEF Path, Scripted, Boot, MintSteps, MintAsking
<1>1. BackupNext => Commit
  BY DEF BackupNext, StartBackup, CheckInput, BackupBrowsers, ResolvePlan, LoadInputs, WizardStarts, PromptEncryption,
    PromptRecovery, PromptLayout, PromptInputs, ShowReview, Proceed, PreparePayload, PrepareEnvelope, EncryptPayload,
    CreateShards, ChunkAndStage, PrepareRender, RenderDocument, ReportBackup, BackupResult
<1>2. ~Scripts
  BY DEF Scripts, StartRecover, PlanRecovery, DecryptAndExtract, WriteRecovered, ReportRecovery, StartRecoverInspection,
    StartMintInspection, InspectRecovery, InspectMint, ConfigGet, ReadSettings, ConfigSet, ApplyPatch, ReportSettings, RenderKit
<1> QED
  BY <1>1, <1>2 DEF Next

\* The shards in hand are some of a set of at most MaxShards.
LEMMA HandsTyped ==
  ASSUME ask \in Invocations
  PROVE  ask.shards \in ShardsInHand /\ ask.keyShards \in ShardsInHand
BY InvocationsAssumption

\* Options of mint that the API can parse are of their type.
LEMMA MintOptionsTyped ==
  ASSUME ask \in Invocations, ask.command = "mint", ~MintUnparsable(ask.opts)
  PROVE  ask.opts \in MintArgsType
<1> DEFINE o == ask.opts
<1>1. o \in MintOptions(ask) /\ ask.front \in {"api", "cli", "home"}
  BY InvocationsAssumption
<1>2. \A f \in {"t", "n", "st", "sn", "rp", "rs"} : o[f] \in Number(ask)
  BY <1>1 DEF MintOptions
<1>3. \A f \in {"t", "n", "st", "sn", "rp", "rs"} : o[f] \in Count
  BY <1>2 DEF MintUnparsable, Number, Count
<1>4. /\ o.input \in BOOLEAN /\ o.p \in BOOLEAN /\ o.s \in BOOLEAN /\ o.keys \in BOOLEAN
      /\ o.pass \in Name /\ o.shards \in Name /\ o.paper \in Name /\ o.dir \in Name
  BY <1>1 DEF MintOptions
<1>5. o = [input |-> o.input, p |-> o.p, s |-> o.s, t |-> o.t, n |-> o.n, st |-> o.st, sn |-> o.sn, rp |-> o.rp,
           rs |-> o.rs, pass |-> o.pass, shards |-> o.shards, keys |-> o.keys, paper |-> o.paper, dir |-> o.dir]
  BY <1>1 DEF MintOptions
<1> HIDE DEF o
<1>6. o \in MintArgsType
  BY <1>3, <1>4, <1>5 DEF MintArgsType
<1> QED BY <1>6 DEF o

\* A given quorum that is possible is one.
LEMMA PairsAreQuorums ==
  ASSUME args \in MintArgsType, PairsValid(args)
  PROVE  /\ Quorum(args.t, args.n) \in Quorums \cup {Unset}
         /\ Quorum(args.st, args.sn) \in Quorums \cup {Unset}
         /\ Quorum(args.t, args.n) = Unset <=> args.t = Unset
         /\ Quorum(args.st, args.sn) = Unset <=> args.st = Unset
<1>1. args.t \in Count /\ args.n \in Count /\ args.st \in Count /\ args.sn \in Count
  BY DEF MintArgsType
<1> QED BY <1>1, QuorumBounds DEF PairsValid

\* A quorum passes the checks.
LEMMA QuorumPasses ==
  ASSUME NEW q \in Quorums \cup {Unset}
  PROVE  /\ ThresholdOf(q) \in Count /\ CountOf(q) \in Count
         /\ Given(ThresholdOf(q), CountOf(q)) => ~BadQuorum(ThresholdOf(q), CountOf(q))
<1>1. CASE q = Unset
  BY <1>1 DEF ThresholdOf, CountOf, Given, Count
<1>2. CASE q # Unset
  <2>1. q.t \in Int /\ q.n \in Int /\ 1 <= q.t /\ q.t <= q.n /\ q.n <= MaxShards /\ q.t <= MaxShards
    BY <1>2, MaxShardsAssumption DEF Quorums
  <2>2. ThresholdOf(q) = q.t /\ CountOf(q) = q.n
    BY <1>2 DEF ThresholdOf, CountOf
  <2>3. q.t # Unset /\ q.n # Unset
    BY <2>1, UnsetAssumption
  <2> QED BY <2>1, <2>2, <2>3, MaxShardsAssumption DEF BadQuorum, Count
<1> QED BY <1>1, <1>2

\* An answer is a possible count of replacements, a quorum, or neither.
LEMMA AnswersTyped ==
  ASSUME NEW count \in Count, Positive(count), NEW q \in Quorums \cup {Unset}, NEW given, NEW shards \in ShardsInHand,
         NEW qs, qs \subseteq Quorums \cup {Unset}, NEW x \in Answers(count, q, given, shards, qs)
  PROVE  x.r \in Count /\ Positive(x.r) /\ x.q \in Quorums \cup {Unset}
<1>1. \A r \in CountsOffered(given, shards) \ {Unset} : r \in Nat /\ r >= 1
  <2>1. IsFiniteSet(Missing(shards))
    <3>1. shards.n \in Int
      BY MaxShardsAssumption DEF ShardsInHand
    <3>2. IsFiniteSet(1 .. shards.n)
      BY <3>1, FS_Interval
    <3>3. Missing(shards) \in SUBSET (1 .. shards.n)
      BY DEF Missing
    <3> QED BY <3>2, <3>3, FS_Subset
  <2>2. Cardinality(Missing(shards)) \in Nat
    BY <2>1, FS_CardinalityType
  <2> QED BY <2>2 DEF CountsOffered
<1>2. CASE count # Unset
  BY <1>2 DEF Answers
<1>3. CASE count = Unset /\ q # Unset
  BY <1>3 DEF Answers, Positive, Count
<1>4. CASE count = Unset /\ q = Unset
  <2>1. \/ \E r \in CountsOffered(given, shards) \ {Unset} : x = [r |-> r, q |-> Unset]
        \/ \E p \in qs : x = [r |-> Unset, q |-> p]
    BY <1>4 DEF Answers
  <2> QED BY <2>1, <1>1 DEF Positive, Count
<1> QED BY <1>2, <1>3, <1>4

\* The quorums the options configure are quorums.
LEMMA ConfiguredTyped ==
  ASSUME args \in MintArgsType, PairsValid(args)
  PROVE  /\ Configured \in Quorums \cup {Unset}
         /\ ConfiguredSigning(Configured) \in Quorums \cup {Unset}
<1>1. Configured \in Quorums \cup {Unset}
  BY PairsAreQuorums DEF Configured
<1>2. Quorum(args.st, args.sn) \in Quorums \cup {Unset}
  BY PairsAreQuorums
<1> QED BY <1>1, <1>2 DEF ConfiguredSigning

\* The answers of the wizard leave options that can be asked for.
LEMMA WizardArgsRequestable ==
  ASSUME args \in MintArgsType, NEW p \in BOOLEAN, NEW s \in BOOLEAN, p \/ s, NEW keys \in BOOLEAN,
         NEW pass, NEW sign,
         pass.r \in Count, Positive(pass.r), pass.q \in Quorums \cup {Unset},
         sign.r \in Count, Positive(sign.r), sign.q \in Quorums \cup {Unset},
         args' = WizardArgs(p, s, keys, pass, sign)
  PROVE  args' \in MintArgsType /\ Requestable(args)'
<1> DEFINE t == ThresholdOf(pass.q)
           n == CountOf(pass.q)
           st == ThresholdOf(sign.q)
           sn == CountOf(sign.q)
           rp == pass.r
           rs == sign.r
<1>1. /\ t \in Count /\ n \in Count /\ st \in Count /\ sn \in Count
      /\ Given(t, n) => ~BadQuorum(t, n)
      /\ Given(st, sn) => ~BadQuorum(st, sn)
  BY QuorumPasses
<1>2. args' = [args EXCEPT !.p = p, !.s = s, !.rp = rp, !.rs = rs, !.keys = keys, !.t = t, !.n = n, !.st = st, !.sn = sn]
  BY DEF WizardArgs
<1>3. Positive(rp) /\ Positive(rs) /\ rp \in Count /\ rs \in Count
  OBVIOUS
<1> HIDE DEF t, n, st, sn, rp, rs
<1>4. args' \in MintArgsType
  BY <1>1, <1>2, <1>3 DEF MintArgsType
<1>5. /\ args'.p = p /\ args'.s = s /\ args'.rp = rp /\ args'.rs = rs
      /\ args'.t = t /\ args'.n = n /\ args'.st = st /\ args'.sn = sn
  BY <1>2 DEF MintArgsType
<1>6. PairsValid(args)'
  BY <1>1, <1>5 DEF PairsValid, Given, BadQuorum
<1>7. Positive(args'.rp) /\ Positive(args'.rs)
  BY <1>3, <1>5
<1> QED BY <1>4, <1>5, <1>6, <1>7 DEF Requestable, Positive

\* A wizard that goes on has options that can be asked for.
LEMMA OutputsAnswered ==
  ASSUME Path, ask.command = "mint", MintChosen, PromptOutputs, at' # "done" \/ status' # 2
  PROVE  at' = "mint_shards" /\ status' = status /\ args' \in MintArgsType /\ Requestable(args)'
<1>1. args \in MintArgsType /\ InScope(args) /\ PairsValid(args)
  BY DEF PromptOutputs, MintChosen, MintAsking
<1>2. ask.shards \in ShardsInHand /\ ask.keyShards \in ShardsInHand
  BY HandsTyped DEF Path
<1>3. /\ Configured \in Quorums \cup {Unset} /\ ConfiguredSigning(Configured) \in Quorums \cup {Unset}
      /\ args.rp \in Count /\ args.rs \in Count /\ Positive(args.rp) /\ Positive(args.rs)
      /\ args.p \in BOOLEAN /\ args.s \in BOOLEAN /\ args.keys \in BOOLEAN
  BY <1>1, ConfiguredTyped DEF MintArgsType, InScope
<1> DEFINE Ps == IF PassphrasePreset THEN {args.p} ELSE BOOLEAN
           Ss == IF SigningPreset THEN {args.s} ELSE BOOLEAN
           Passes(p) == IF p THEN Answers(args.rp, Configured, ShardsGiven, ask.shards, AnyQuorum)
                        ELSE {[Off EXCEPT !.q = Configured]}
           Keyed(s) == IF s /\ args.rs = Unset /\ ConfiguredSigning(Configured) = Unset /\ ~args.keys
                           /\ ask.keyShards.have # {}
                       THEN BOOLEAN ELSE {args.keys}
           Signs(s, keys, pass) == IF s THEN Answers(args.rs, ConfiguredSigning(Configured), keys, ask.keyShards,
                                                  IF pass.q # Unset THEN {Unset} \cup AnyQuorum ELSE AnyQuorum)
                                   ELSE {[Off EXCEPT !.q = ConfiguredSigning(Configured)]}
           Made(p, s, keys, pass, sign) == args' = WizardArgs(p, s, keys, pass, sign) /\ at' = "mint_shards" /\ status' = status
           Over == Raises("INVALID_INPUT") /\ Keep(args)
           Signed(p, s, pass, keys) ==
             IF s /\ Refused(args.rs, ConfiguredSigning(Configured), keys, ask.keyShards) THEN Over
             ELSE \E sign \in Signs(s, keys, pass) : /\ args' = WizardArgs(p, s, keys, pass, sign)
                                                     /\ at' = "mint_shards" /\ UNCHANGED <<stream, status>>
           Answered(p, s) ==
             IF (~p /\ ~s) \/ (p /\ Refused(args.rp, Configured, ShardsGiven, ask.shards)) THEN Over
             ELSE \E pass \in Passes(p), keys \in Keyed(s) : Signed(p, s, pass, keys)
<1>a. ~Over
  BY DEF Over
<1>b. \E p \in Ps, s \in Ss : Answered(p, s)
  BY DEF PromptOutputs
<1> HIDE DEF Over, Ps, Ss, Passes, Keyed, Signs
<1>4. PICK p \in Ps : \E s \in Ss : Answered(p, s)
  BY <1>b, Zenon
<1>5. PICK s \in Ss : Answered(p, s)
  BY <1>4, Zenon
<1>5a. (p \/ s) /\ \E pass \in Passes(p), keys \in Keyed(s) : Signed(p, s, pass, keys)
  BY <1>5, <1>a, Zenon
<1>6. PICK pass \in Passes(p) : \E keys \in Keyed(s) : Signed(p, s, pass, keys)
  BY <1>5a, Zenon
<1>7. PICK keys \in Keyed(s) : Signed(p, s, pass, keys)
  BY <1>6, Zenon
<1>8. PICK sign \in Signs(s, keys, pass) : Made(p, s, keys, pass, sign)
  BY <1>7, <1>a, Zenon
<1> USE DEF Ps, Ss, Passes, Keyed, Signs
<1>9. p \in BOOLEAN /\ s \in BOOLEAN /\ keys \in BOOLEAN
  BY <1>3, <1>4, <1>5, <1>7
<1>10. AnyQuorum \subseteq Quorums \cup {Unset} /\ {Unset} \cup AnyQuorum \subseteq Quorums \cup {Unset}
  BY AnyQuorumIs
<1>11. pass.r \in Count /\ Positive(pass.r) /\ pass.q \in Quorums \cup {Unset}
  <2>1. CASE p
    <3>1. pass \in Answers(args.rp, Configured, ShardsGiven, ask.shards, AnyQuorum)
      BY <2>1, <1>6
    <3> QED BY <3>1, <1>2, <1>3, <1>10, AnswersTyped
  <2>2. CASE ~p
    <3>1. pass = [r |-> Unset, q |-> Configured]
      BY <2>2, <1>6 DEF Off
    <3> QED BY <3>1, <1>3 DEF Count, Positive
  <2> QED BY <2>1, <2>2
<1>12. sign.r \in Count /\ Positive(sign.r) /\ sign.q \in Quorums \cup {Unset}
  <2>1. CASE s
    <3>1. PICK qs : qs \subseteq Quorums \cup {Unset} /\
            sign \in Answers(args.rs, ConfiguredSigning(Configured), keys, ask.keyShards, qs)
      BY <2>1, <1>8, <1>10
    <3> QED BY <3>1, <1>2, <1>3, AnswersTyped
  <2>2. CASE ~s
    <3>1. sign = [r |-> Unset, q |-> ConfiguredSigning(Configured)]
      BY <2>2, <1>8 DEF Off
    <3> QED BY <3>1, <1>3 DEF Count, Positive
  <2> QED BY <2>1, <2>2
<1>13. args' = WizardArgs(p, s, keys, pass, sign) /\ at' = "mint_shards" /\ status' = status
  BY <1>8
<1>14. p \/ s
  BY <1>5a
<1> QED BY <1>1, <1>9, <1>11, <1>12, <1>13, <1>14, WizardArgsRequestable

\* Options that pass the checks can be asked for.
LEMMA ValidIsRequestable ==
  ASSUME MintValid(args) PROVE Requestable(args)
BY DEF MintValid, InScope, Requestable

\* The options of mint stay possible.
LEMMA MintChosenStep == ASSUME Path, ask.command = "mint", MintChosen, Next PROVE MintChosen'
<1> USE DEF Boot, MintAsking
<1>a. ask \in Invocations
  BY DEF Path
<1>b. ASSUME at' = "done" PROVE MintChosen'
  BY <1>b DEF MintChosen
<1>1. CASE Bootstrap
  <2>1. at' \in Boot \cup {"done", "mint"} /\ args' = args
    BY <1>1, BootKeeps, BootGoes
  <2> QED BY <2>1 DEF MintChosen
<1>2. CASE StartMint
  <2>1. CASE MintUnparsable(ask.opts)
    BY <2>1, <1>2, <1>b DEF StartMint
  <2>2. CASE ~MintUnparsable(ask.opts)
    <3>1. args' = ask.opts /\ at' \in {"mint_wizard", "mint_browsers"}
      BY <2>2, <1>2 DEF StartMint, MintArgs
    <3>2. args' \in MintArgsType
      BY <3>1, <2>2, <1>a, MintOptionsTyped
    <3> QED BY <3>1, <3>2 DEF MintChosen
  <2> QED BY <2>1, <2>2
<1>3. CASE MintBrowsers
  BY <1>3 DEF MintBrowsers, MintChosen
<1>4. CASE LoadMint
  <2>1. args \in MintArgsType /\ args' = args /\ (at' = "done" \/ (at' = "mint_shards" /\ MintValid(args)))
    BY <1>4 DEF LoadMint, MintChosen
  <2>2. MintValid(args) => Requestable(args)'
    BY <2>1, ValidIsRequestable DEF Requestable, Positive, PairsValid
  <2> QED BY <2>1, <2>2 DEF MintChosen
<1>5. CASE MintFromPlan \/ RenderMinted \/ ReportMint \/ Commit
  <2>1. args \in MintArgsType /\ args' = args /\ at' \in {"done", "mint_render", "commit", "report", "return"}
    BY <1>5 DEF MintFromPlan, RenderMinted, ReportMint, Commit, MintChosen
  <2> QED BY <2>1 DEF MintChosen
<1>6. CASE StartMintWizard
  <2>1. args \in MintArgsType /\ args' = args /\ (at' = "done" \/ (at' = "mint_keys" /\ InScope(args) /\ PairsValid(args)))
    BY <1>6 DEF StartMintWizard, MintChosen
  <2>2. InScope(args) /\ PairsValid(args) => (InScope(args) /\ PairsValid(args))'
    BY <2>1 DEF InScope, Positive, PairsValid
  <2> QED BY <2>1, <2>2 DEF MintChosen
<1>7. CASE PromptKeys
  <2>1. args \in MintArgsType /\ InScope(args) /\ PairsValid(args) /\ at' = "mint_keys_read"
    BY <1>7 DEF PromptKeys, MintChosen
  <2>2. PICK pass \in {Unset, "given"}, shards \in {Unset, "files"} : args' = [args EXCEPT !.pass = pass, !.shards = shards]
    BY <1>7 DEF PromptKeys
  <2>3. args' \in MintArgsType
    BY <2>1, <2>2 DEF MintArgsType, Name, Names
  <2>4. \A f \in {"p", "s", "t", "n", "st", "sn", "rp", "rs"} : args'[f] = args[f]
    BY <2>1, <2>2 DEF MintArgsType
  <2>5. (InScope(args) /\ PairsValid(args))'
    BY <2>1, <2>4 DEF InScope, Positive, PairsValid
  <2> QED BY <2>1, <2>3, <2>5 DEF MintChosen
<1>8. CASE ReadKeys
  <2>1. args \in MintArgsType /\ InScope(args) /\ PairsValid(args) /\ args' = args /\ at' \in {"done", "mint_authority"}
    BY <1>8 DEF ReadKeys, MintChosen
  <2>2. (InScope(args) /\ PairsValid(args))'
    BY <2>1 DEF InScope, Positive, PairsValid
  <2> QED BY <2>1, <2>2 DEF MintChosen
<1>9. CASE PromptAuthority
  <2>1. args \in MintArgsType /\ InScope(args) /\ PairsValid(args) /\ at' \in {"done", "mint_outputs"}
    BY <1>9 DEF PromptAuthority, MintChosen
  <2>2. args' = args \/ args' = [args EXCEPT !.keys = TRUE]
    BY <1>9 DEF PromptAuthority
  <2>3. args' \in MintArgsType
    BY <2>1, <2>2 DEF MintArgsType
  <2>4. \A f \in {"p", "s", "t", "n", "st", "sn", "rp", "rs"} : args'[f] = args[f]
    BY <2>1, <2>2 DEF MintArgsType
  <2>5. (InScope(args) /\ PairsValid(args))'
    BY <2>1, <2>4 DEF InScope, Positive, PairsValid
  <2> QED BY <2>1, <2>3, <2>5 DEF MintChosen
<1>10. CASE PromptOutputs
  <2>1. CASE at' = "done"
    BY <2>1, <1>b
  <2>2. CASE at' # "done"
    BY <2>2, <1>10, OutputsAnswered DEF MintChosen
  <2> QED BY <2>1, <2>2
<1>11. CASE Return \/ Breaks \/ Interrupt
  BY <1>11, <1>b, EndMoves
<1> QED
  BY <1>1, <1>2, <1>3, <1>4, <1>5, <1>6, <1>7, <1>8, <1>9, <1>10, <1>11, MintPath DEF MintNext

\* What the plan of a run of mint is made from does not change while it is carried out.
LEMMA MintPlanKept ==
  ASSUME ask' = ask, args' = args
  PROVE  /\ MintPlan' = MintPlan /\ PassphraseMintable' = PassphraseMintable /\ SigningMintable' = SigningMintable
         /\ Requestable(args)' = Requestable(args)
<1>1. SigningQuorum' = SigningQuorum /\ ShardsGiven' = ShardsGiven
  BY DEF SigningQuorum, ShardsGiven
<1>2. MintPlan' = MintPlan
  BY <1>1 DEF MintPlan
<1>3. PassphraseMintable' = PassphraseMintable /\ SigningMintable' = SigningMintable
  BY <1>1 DEF PassphraseMintable, SigningMintable
<1>4. Requestable(args)' = Requestable(args)
  BY DEF Requestable, Positive, PairsValid
<1> QED BY <1>2, <1>3, <1>4

\* The plan of mint is the one its options and the shards in hand make.
LEMMA MintPlannedStep ==
  ASSUME Path, ask.command = "mint", MintChosen, MintPlanned, MintRendered, Next
  PROVE  MintPlanned'
<1> USE DEF Boot, MintAsking
<1>1. ASSUME at' \notin {"mint_render", "commit", "report", "return"}, outputs' = <<>>
      PROVE  MintPlanned'
  BY <1>1 DEF MintPlanned
<1>2. ASSUME at \in {"mint_render", "commit", "report", "return"} \/ outputs # <<>>, UNCHANGED <<ask, args, plan>>
      PROVE  MintPlanned'
  <2>1. args \in MintArgsType /\ Requestable(args) /\ PassphraseMintable /\ SigningMintable /\ plan = MintPlan
    BY <1>2 DEF MintPlanned
  <2>2. args' \in MintArgsType /\ Requestable(args)' /\ PassphraseMintable' /\ SigningMintable' /\ plan' = MintPlan'
    BY <2>1, <1>2, MintPlanKept
  <2> QED BY <2>2 DEF MintPlanned
<1>3. CASE Bootstrap
  <2>1. /\ at \in Boot /\ at' \in Boot \cup {"done", "mint"} /\ outputs' = outputs
    BY <1>3, BootKeeps, BootGoes
  <2>2. outputs = <<>>
    BY <2>1 DEF MintRendered
  <2> QED BY <2>1, <2>2, <1>1
<1>4. CASE StartMint \/ MintBrowsers \/ LoadMint \/ StartMintWizard \/ PromptKeys \/ ReadKeys \/ PromptAuthority
  <2>1. at \in {"mint"} \cup MintAsking /\ at' \in {"done"} \cup MintAsking /\ outputs' = outputs
    BY <1>4 DEF StartMint, MintBrowsers, LoadMint, StartMintWizard, PromptKeys, ReadKeys, PromptAuthority
  <2>2. outputs = <<>>
    BY <2>1 DEF MintRendered
  <2> QED BY <2>1, <2>2, <1>1
<1>5. CASE PromptOutputs
  <2>1. at = "mint_outputs" /\ outputs' = outputs
    BY <1>5 DEF PromptOutputs
  <2>2. at' = "done" \/ at' = "mint_shards"
    BY <1>5, OutputsAnswered
  <2>3. outputs = <<>>
    BY <2>1 DEF MintRendered
  <2> QED BY <2>1, <2>2, <2>3, <1>1
<1>6. CASE MintFromPlan
  <2>1. at = "mint_shards" /\ outputs' = outputs /\ ask' = ask /\ args' = args
    BY <1>6 DEF MintFromPlan
  <2>2. outputs = <<>> /\ args \in MintArgsType /\ Requestable(args)
    BY <2>1 DEF MintRendered, MintChosen
  <2>3. CASE at' = "done"
    BY <2>1, <2>2, <2>3, <1>1
  <2>4. CASE at' # "done"
    <3>1. PassphraseMintable /\ SigningMintable /\ plan' = MintPlan
      BY <2>4, <1>6 DEF MintFromPlan
    <3>2. args' \in MintArgsType /\ Requestable(args)' /\ PassphraseMintable' /\ SigningMintable' /\ plan' = MintPlan'
      BY <3>1, <2>1, <2>2, MintPlanKept
    <3> QED BY <3>2 DEF MintPlanned
  <2> QED BY <2>3, <2>4
<1>7. CASE RenderMinted \/ ReportMint \/ Commit
  BY <1>7, <1>2 DEF RenderMinted, ReportMint, Commit
<1>8. CASE Return \/ Breaks \/ Interrupt
  <2>1. UNCHANGED <<ask, args, plan, outputs>> /\ at' = "done"
    BY <1>8, EndMoves
  <2>2. CASE outputs = <<>>
    BY <2>1, <2>2, <1>1
  <2>3. CASE outputs # <<>>
    BY <2>1, <2>3, <1>2
  <2> QED BY <2>2, <2>3
<1> QED
  BY <1>3, <1>4, <1>5, <1>6, <1>7, <1>8, MintPath DEF MintNext

\* The indexes a kind of output takes.
LEMMA ReplacementsFit ==
  ASSUME NEW given, NEW shards \in ShardsInHand, NEW count \in Int, count >= 1, CanReplace(given, shards, count)
  PROVE  LET S == Replacements(shards, count)
         IN  /\ S \subseteq Missing(shards) /\ S \subseteq Nat /\ IsFiniteSet(S)
             /\ Cardinality(S) = count /\ HasQuorum(given, shards)
<1> DEFINE M == Missing(shards)
<1>1. IsFiniteSet(M) /\ M \subseteq Nat
  <2>1. shards.n \in Int
    BY MaxShardsAssumption DEF ShardsInHand
  <2>2. IsFiniteSet(1 .. shards.n)
    BY <2>1, FS_Interval
  <2>3. M \in SUBSET (1 .. shards.n)
    BY DEF Missing
  <2>4. IsFiniteSet(M)
    BY <2>2, <2>3, FS_Subset
  <2> QED BY <2>1, <2>3, <2>4
<1>2. count \in Nat /\ count <= Cardinality(M) /\ HasQuorum(given, shards)
  BY DEF CanReplace
<1> HIDE DEF M
<1>3. Least(M, count) \subseteq M /\ IsFiniteSet(Least(M, count)) /\ Cardinality(Least(M, count)) = count
  BY <1>1, <1>2, LeastHasCount
<1>4. Replacements(shards, count) = Least(M, count)
  BY DEF Replacements, M
<1> QED BY <1>1, <1>2, <1>3, <1>4 DEF M

\* A fresh set takes the indexes 1 to n.
LEMMA FreshFits ==
  ASSUME NEW q \in Quorums
  PROVE  1 .. q.n \subseteq Nat /\ IsFiniteSet(1 .. q.n) /\ Cardinality(1 .. q.n) = q.n /\ q.n \in Nat /\ q.n >= 1
<1>1. q.n \in Nat /\ q.n >= 1
  BY MaxShardsAssumption DEF Quorums
<1>2. IsFiniteSet(1 .. q.n) /\ Cardinality(1 .. q.n) = IF 1 > q.n THEN 0 ELSE q.n - 1 + 1
  BY <1>1, FS_Interval
<1> QED BY <1>1, <1>2

\* The plan of a run of mint: indexes for the kinds asked for, and the quorum they belong to.
LEMMA MintPlanIs ==
  ASSUME ask \in Invocations, args \in MintArgsType, Requestable(args), PassphraseMintable, SigningMintable,
         NEW p, p = MintPlan
  PROVE  /\ p.p \subseteq Nat /\ IsFiniteSet(p.p) /\ p.s \subseteq Nat /\ IsFiniteSet(p.s)
         /\ ~args.p => p.p = {}
         /\ ~args.s => p.s = {}
         /\ args.p => Cardinality(p.p) >= 1
         /\ args.s => Cardinality(p.s) >= 1
         /\ args.p /\ args.rp = Unset => p.pQuorum \in Quorums /\ p.p = 1 .. p.pQuorum.n
         /\ args.s /\ args.rs = Unset => p.sQuorum \in Quorums /\ p.s = 1 .. p.sQuorum.n
         /\ args.p /\ args.rp # Unset =>
              /\ HasQuorum(ShardsGiven, ask.shards) /\ p.p \subseteq Missing(ask.shards)
              /\ Cardinality(p.p) = args.rp /\ p.pQuorum = Kept(ask.shards)
         /\ args.s /\ args.rs # Unset =>
              /\ HasQuorum(args.keys, ask.keyShards) /\ p.s \subseteq Missing(ask.keyShards)
              /\ Cardinality(p.s) = args.rs /\ p.sQuorum = Kept(ask.keyShards)
<1>1. /\ ask.shards \in ShardsInHand /\ ask.keyShards \in ShardsInHand
      /\ args.rp \in Count /\ args.rs \in Count /\ Positive(args.rp) /\ Positive(args.rs) /\ PairsValid(args)
      /\ args.p \in BOOLEAN /\ args.s \in BOOLEAN
  BY HandsTyped DEF MintArgsType, Requestable
<1>2. /\ p.p = IF ~args.p THEN {} ELSE IF args.rp # Unset THEN Replacements(ask.shards, args.rp) ELSE 1..args.n
      /\ p.s = IF ~args.s THEN {} ELSE IF args.rs # Unset THEN Replacements(ask.keyShards, args.rs) ELSE 1..SigningQuorum.n
      /\ p.pQuorum = IF args.rp # Unset THEN Kept(ask.shards) ELSE Quorum(args.t, args.n)
      /\ p.sQuorum = IF args.rs # Unset THEN Kept(ask.keyShards) ELSE SigningQuorum
  BY DEF MintPlan
<1>3. /\ Quorum(args.t, args.n) \in Quorums \cup {Unset} /\ Quorum(args.st, args.sn) \in Quorums \cup {Unset}
      /\ Quorum(args.t, args.n) = Unset <=> args.t = Unset
  BY <1>1, PairsAreQuorums
<1>4. SigningQuorum \in Quorums \cup {Unset}
  BY <1>3 DEF SigningQuorum
<1>5. IsFiniteSet({}) /\ {} \subseteq Nat
  BY FS_EmptySet
<1>p. /\ p.p \subseteq Nat /\ IsFiniteSet(p.p)
      /\ ~args.p => p.p = {}
      /\ args.p => Cardinality(p.p) >= 1
      /\ args.p /\ args.rp = Unset => p.pQuorum \in Quorums /\ p.p = 1 .. p.pQuorum.n
      /\ args.p /\ args.rp # Unset =>
              /\ HasQuorum(ShardsGiven, ask.shards) /\ p.p \subseteq Missing(ask.shards)
              /\ Cardinality(p.p) = args.rp /\ p.pQuorum = Kept(ask.shards)
  <2>1. CASE args.p /\ args.rp # Unset
    <3>1. args.rp \in Int /\ args.rp >= 1 /\ CanReplace(ShardsGiven, ask.shards, args.rp)
      BY <1>1, <2>1 DEF Count, Positive, PassphraseMintable
    <3>2. p.p = Replacements(ask.shards, args.rp) /\ p.pQuorum = Kept(ask.shards)
      BY <2>1, <1>2
    <3>3. /\ p.p \subseteq Missing(ask.shards) /\ p.p \subseteq Nat /\ IsFiniteSet(p.p)
          /\ Cardinality(p.p) = args.rp /\ HasQuorum(ShardsGiven, ask.shards)
      <4> DEFINE S == Replacements(ask.shards, args.rp)
      <4>0. ask.shards \in ShardsInHand
        BY <1>1
      <4>1. S \subseteq Missing(ask.shards) /\ S \subseteq Nat /\ IsFiniteSet(S)
            /\ Cardinality(S) = args.rp /\ HasQuorum(ShardsGiven, ask.shards)
        BY <4>0, <3>1, ReplacementsFit, Zenon
      <4> QED BY <4>1, <3>2
    <3> QED BY <2>1, <3>1, <3>2, <3>3
  <2>2. CASE args.p /\ args.rp = Unset
    <3>1. args.t # Unset
      BY <2>2 DEF PassphraseMintable
    <3>2. p.pQuorum \in Quorums /\ p.pQuorum.n = args.n /\ p.p = 1 .. args.n
      BY <1>2, <1>3, <2>2, <3>1 DEF Quorum
    <3>3. p.p \subseteq Nat /\ IsFiniteSet(p.p) /\ Cardinality(p.p) >= 1
      BY <3>2, FreshFits
    <3> QED BY <2>2, <3>2, <3>3
  <2>3. CASE ~args.p
    BY <2>3, <1>2, <1>5
  <2> QED BY <2>1, <2>2, <2>3, <1>1
<1>s. /\ p.s \subseteq Nat /\ IsFiniteSet(p.s)
      /\ ~args.s => p.s = {}
      /\ args.s => Cardinality(p.s) >= 1
      /\ args.s /\ args.rs = Unset => p.sQuorum \in Quorums /\ p.s = 1 .. p.sQuorum.n
      /\ args.s /\ args.rs # Unset =>
              /\ HasQuorum(args.keys, ask.keyShards) /\ p.s \subseteq Missing(ask.keyShards)
              /\ Cardinality(p.s) = args.rs /\ p.sQuorum = Kept(ask.keyShards)
  <2>1. CASE args.s /\ args.rs # Unset
    <3>1. args.rs \in Int /\ args.rs >= 1 /\ CanReplace(args.keys, ask.keyShards, args.rs)
      BY <1>1, <2>1 DEF Count, Positive, SigningMintable
    <3>2. p.s = Replacements(ask.keyShards, args.rs) /\ p.sQuorum = Kept(ask.keyShards)
      BY <2>1, <1>2
    <3>3. /\ p.s \subseteq Missing(ask.keyShards) /\ p.s \subseteq Nat /\ IsFiniteSet(p.s)
          /\ Cardinality(p.s) = args.rs /\ HasQuorum(args.keys, ask.keyShards)
      <4> DEFINE S == Replacements(ask.keyShards, args.rs)
      <4>0. ask.keyShards \in ShardsInHand
        BY <1>1
      <4>1. S \subseteq Missing(ask.keyShards) /\ S \subseteq Nat /\ IsFiniteSet(S)
            /\ Cardinality(S) = args.rs /\ HasQuorum(args.keys, ask.keyShards)
        BY <4>0, <3>1, ReplacementsFit, Zenon
      <4> QED BY <4>1, <3>2
    <3> QED BY <2>1, <3>1, <3>2, <3>3
  <2>2. CASE args.s /\ args.rs = Unset
    <3>1. SigningQuorum # Unset
      BY <2>2 DEF SigningMintable
    <3>2. p.sQuorum \in Quorums /\ p.s = 1 .. p.sQuorum.n
      BY <1>2, <1>4, <2>2, <3>1
    <3>3. p.s \subseteq Nat /\ IsFiniteSet(p.s) /\ Cardinality(p.s) >= 1
      BY <3>2, FreshFits
    <3> QED BY <2>2, <3>2, <3>3
  <2>3. CASE ~args.s
    BY <2>3, <1>2, <1>5
  <2> QED BY <2>1, <2>2, <2>3, <1>1
<1> QED BY <1>p, <1>s

\* The documents of a plan of mint: the passphrase shards, then those of the signing key.
LEMMA MintedAre ==
  ASSUME plan.p \subseteq Nat, IsFiniteSet(plan.p), plan.s \subseteq Nat, IsFiniteSet(plan.s)
  PROVE  LET a == Cardinality(plan.p)
             b == Cardinality(plan.s)
             D == MintedDocuments(plan)
         IN  /\ a \in Nat /\ b \in Nat
             /\ D = [i \in 1 .. (a + b) |-> D[i]] /\ Len(D) = a + b /\ DOMAIN D = 1 .. (a + b)
             /\ \A i \in 1 .. a : D[i] = Document("shard", Ascending(plan.p)[i], plan.pQuorum, {"share_of_passphrase"})
             /\ \A i \in a + 1 .. a + b :
                  D[i] = Document("signing_key_shard", Ascending(plan.s)[i - a], plan.sQuorum, {"share_of_signing_key"})
<1> DEFINE a == Cardinality(plan.p)
           b == Cardinality(plan.s)
           D == MintedDocuments(plan)
           ps == [k \in 1 .. a |-> Document("shard", Ascending(plan.p)[k], plan.pQuorum, {"share_of_passphrase"})]
           ss == [k \in 1 .. b |-> Document("signing_key_shard", Ascending(plan.s)[k], plan.sQuorum, {"share_of_signing_key"})]
<1>1. a \in Nat /\ b \in Nat
  BY FS_CardinalityType
<1>2. D = ps \o ss
  BY DEF MintedDocuments
<1>3. ps = [i \in 1 .. a |-> ps[i]] /\ ss = [i \in 1 .. b |-> ss[i]]
  OBVIOUS
<1>4. /\ \A i \in 1 .. a : ps[i] = Document("shard", Ascending(plan.p)[i], plan.pQuorum, {"share_of_passphrase"})
      /\ \A i \in 1 .. b : ss[i] = Document("signing_key_shard", Ascending(plan.s)[i], plan.sQuorum, {"share_of_signing_key"})
  OBVIOUS
<1> HIDE DEF a, b, D, ps, ss
<1>5. D = [i \in 1 .. (a + b) |-> IF i <= a THEN ps[i] ELSE ss[i - a]]
  BY <1>1, <1>2, <1>3, Joined
<1>6. D = [i \in 1 .. (a + b) |-> D[i]]
  BY <1>5
<1>7. a + b \in Nat
  BY <1>1
<1>8. Len(D) = a + b /\ DOMAIN D = 1 .. (a + b)
  BY <1>6, <1>7, LenOf
<1>9. ASSUME NEW i \in 1 .. a
      PROVE  D[i] = Document("shard", Ascending(plan.p)[i], plan.pQuorum, {"share_of_passphrase"})
  <2>1. D[i] = ps[i]
    BY <1>1, <1>5
  <2> QED BY <2>1, <1>4
<1>10. ASSUME NEW i \in a + 1 .. a + b
       PROVE  D[i] = Document("signing_key_shard", Ascending(plan.s)[i - a], plan.sQuorum, {"share_of_signing_key"})
  <2>1. D[i] = ss[i - a] /\ i - a \in 1 .. b
    BY <1>1, <1>5
  <2> QED BY <2>1, <1>4
<1> QED BY <1>1, <1>6, <1>8, <1>9, <1>10 DEF a, b, D

\* The documents of mint stay what they are while their plan does.
LEMMA MintedKept == ASSUME plan' = plan PROVE MintedDocuments(plan)' = MintedDocuments(plan)
<1>1. \A a, b, c, d : Document(a, b, c, d)' = Document(a, b, c, d)
  BY DEF Document
<1> QED BY <1>1 DEF MintedDocuments

\* A plan that can be carried out makes at least one document.
LEMMA SomethingIsMinted ==
  ASSUME Path, ask.command = "mint", MintPlanned, at \in {"mint_render", "commit", "report", "return"} \/ outputs # <<>>
  PROVE  LET D == MintedDocuments(plan)
         IN  Len(D) \in Nat /\ Len(D) > 0 /\ D # <<>> /\ D = [i \in 1 .. Len(D) |-> D[i]] /\ DOMAIN D = 1 .. Len(D)
<1> DEFINE a == Cardinality(plan.p)
           b == Cardinality(plan.s)
           D == MintedDocuments(plan)
<1>0. /\ ask \in Invocations /\ args \in MintArgsType /\ Requestable(args) /\ PassphraseMintable /\ SigningMintable
      /\ plan = MintPlan
  BY DEF Path, MintPlanned
<1>1. /\ plan.p \subseteq Nat /\ IsFiniteSet(plan.p) /\ plan.s \subseteq Nat /\ IsFiniteSet(plan.s)
      /\ args.p => a >= 1
      /\ args.s => b >= 1
  BY <1>0, MintPlanIs
<1>2. args.p \/ args.s
  BY <1>0 DEF Requestable
<1>3. a \in Nat /\ b \in Nat /\ D = [i \in 1 .. (a + b) |-> D[i]] /\ Len(D) = a + b /\ DOMAIN D = 1 .. (a + b)
  BY <1>1, MintedAre
<1> HIDE DEF a, b, D
<1>4. Len(D) \in Nat /\ Len(D) > 0 /\ D = [i \in 1 .. Len(D) |-> D[i]] /\ DOMAIN D = 1 .. Len(D)
  BY <1>1, <1>2, <1>3
<1>5. D # <<>>
  BY <1>4
<1> QED BY <1>4, <1>5 DEF D

\* The staged and the published files of mint are those of its plan.
LEMMA MintRenderedStep ==
  ASSUME Path, ask.command = "mint", MintChosen, MintPlanned, MintRendered, Next
  PROVE  MintRendered'
<1> USE DEF Boot, MintAsking
<1> DEFINE D == MintedDocuments(plan)
<1>a. status = Running \/ at = "done"
  BY DEF Path, Ended
<1>z. Running # 0
  BY DEF Running
<1>1. ASSUME papers' = <<>>, outputs' = <<>>, at' \notin {"mint_render", "commit", "report", "return"},
             status' = 0 /\ ~ask.help /\ ~ask.init => FALSE, ask' = ask
      PROVE  MintRendered'
  BY <1>1 DEF MintRendered
<1>2. CASE Bootstrap
  <2>1. at \in Boot /\ at' \in Boot \cup {"done", "mint"} /\ papers' = papers /\ outputs' = outputs /\ ask' = ask
    BY <1>2, BootKeeps, BootGoes
  <2>2. papers = <<>> /\ outputs = <<>>
    BY <2>1 DEF MintRendered
  <2>3. status' = 0 => ask.help \/ ask.init
    BY <1>2, <2>1, <1>a, <1>z DEF Bootstrap, Main, Startup, Onboarding, DefaultsPath, LoadDefaults, Dispatch
  <2> QED BY <2>1, <2>2, <2>3, <1>1
<1>3. ASSUME at \in {"mint"} \cup MintAsking, papers' = papers, outputs' = outputs, ask' = ask, status' \in {status, 2},
             at' \notin {"mint_render", "commit", "report", "return"}
      PROVE  MintRendered'
  <2>1. papers = <<>> /\ outputs = <<>>
    BY <1>3 DEF MintRendered
  <2>2. status' # 0
    BY <1>3, <1>a, <1>z
  <2> QED BY <2>1, <2>2, <1>3, <1>1
<1>4. CASE StartMint \/ MintBrowsers \/ LoadMint \/ StartMintWizard \/ PromptKeys \/ ReadKeys \/ PromptAuthority
  BY <1>4, <1>3 DEF StartMint, MintBrowsers, LoadMint, StartMintWizard, PromptKeys, ReadKeys, PromptAuthority
<1>5. CASE PromptOutputs
  <2>1. at = "mint_outputs" /\ outputs' = outputs /\ papers' = papers /\ ask' = ask
    BY <1>5 DEF PromptOutputs
  <2>2. at' = "done" \/ at' = "mint_shards"
    BY <1>5, OutputsAnswered
  <2>3. status' \in {status, 2}
    BY <1>5, OutputsAnswered
  <2> QED BY <2>1, <2>2, <2>3, <1>3
<1>6. CASE MintFromPlan
  <2>1. /\ at = "mint_shards" /\ outputs' = outputs /\ papers' = papers /\ ask' = ask /\ status' \in {status, 2}
        /\ at' \in {"done", "mint_render"}
    BY <1>6 DEF MintFromPlan
  <2>2. CASE at' = "done"
    BY <2>1, <2>2, <1>3
  <2>3. CASE at' = "mint_render"
    <3>2. papers' = <<>> /\ outputs' = <<>> /\ status' # 0
      <4>1. papers = <<>> /\ outputs = <<>>
        BY <2>1 DEF MintRendered
      <4> QED BY <4>1, <2>1, <1>a, <1>z
    <3>3. Len(D') \in Nat
      <4> DEFINE a == Cardinality(plan'.p)
                 b == Cardinality(plan'.s)
                 ps == [k \in 1 .. a |-> Document("shard", Ascending(plan.p)[k], plan.pQuorum, {"share_of_passphrase"})']
                 ss == [k \in 1 .. b |-> Document("signing_key_shard", Ascending(plan.s)[k], plan.sQuorum, {"share_of_signing_key"})']
      <4>1. /\ ask \in Invocations /\ args \in MintArgsType /\ Requestable(args) /\ PassphraseMintable /\ SigningMintable
            /\ plan' = MintPlan
        BY <2>1, <2>3, <1>6 DEF Path, MintChosen, MintFromPlan
      <4>2. IsFiniteSet(plan'.p) /\ IsFiniteSet(plan'.s)
        BY <4>1, MintPlanIs
      <4>3. a \in Nat /\ b \in Nat
        BY <4>2, FS_CardinalityType
      <4>4. D' = ps \o ss
        BY DEF MintedDocuments
      <4>5. ps = [i \in 1 .. a |-> ps[i]] /\ ss = [i \in 1 .. b |-> ss[i]]
        OBVIOUS
      <4> HIDE DEF a, b, ps, ss, D
      <4>6. D' = [i \in 1 .. (a + b) |-> IF i <= a THEN ps[i] ELSE ss[i - a]]
        BY <4>3, <4>4, <4>5, Joined
      <4>7. D' = [i \in 1 .. (a + b) |-> D'[i]] /\ a + b \in Nat
        BY <4>3, <4>6
      <4> QED BY <4>7, LenOf
    <3>4. Len(papers') \in 0 .. Len(D') /\ papers' = [i \in 1 .. Len(papers') |-> D'[i]]
      BY <3>2, <3>3
    <3> QED BY <2>3, <3>2, <3>4 DEF MintRendered
  <2> QED BY <2>1, <2>2, <2>3
<1>b. ASSUME at \in {"mint_render", "commit", "report", "return"} \/ outputs # <<>>
      PROVE  Len(D) \in Nat /\ Len(D) > 0 /\ D = [i \in 1 .. Len(D) |-> D[i]] /\ DOMAIN D = 1 .. Len(D) /\ D # <<>>
  BY <1>b, SomethingIsMinted
<1>10. CASE RenderMinted
  <2>1. outputs' = outputs /\ ask' = ask /\ plan' = plan /\ at = "mint_render" /\ status' = status
    BY <1>10 DEF RenderMinted
  <2>2. outputs' = <<>> /\ Len(papers) \in 0 .. Len(D) /\ papers = [i \in 1 .. Len(papers) |-> D[i]] /\ status' # 0
    BY <2>1, <1>a, <1>z DEF MintRendered
  <2>3. D' = D
    BY <2>1, MintedKept
  <2>4. CASE Len(papers) < Len(D)
    <3>1. papers' = Append(papers, D[Len(papers) + 1]) /\ at' = at
      BY <1>10, <2>4 DEF RenderMinted
    <3> HIDE DEF D
    <3>2. /\ Len(papers') = Len(papers) + 1
          /\ papers' = [i \in 1 .. Len(papers) + 1 |-> D[i]]
      BY <3>1, <2>2
    <3>3. Len(papers') \in 0 .. Len(D) /\ papers' = [i \in 1 .. Len(papers') |-> D[i]]
      BY <3>2, <2>1, <2>2, <2>4, <1>b
    <3> QED BY <3>1, <3>3, <2>1, <2>2, <2>3 DEF MintRendered, D
  <2>5. CASE ~(Len(papers) < Len(D))
    <3>1. papers' = papers /\ at' = "commit"
      BY <1>10, <2>5 DEF RenderMinted
    <3> HIDE DEF D
    <3>2. papers = D
      BY <2>1, <2>2, <2>5, <1>b
    <3> QED BY <3>1, <3>2, <2>1, <2>2, <2>3 DEF MintRendered, D
  <2> QED BY <2>4, <2>5
<1>11. CASE Commit
  <2>1. outputs' = papers /\ papers' = <<>> /\ ask' = ask /\ plan' = plan /\ at = "commit" /\ at' = "report" /\ status' = status
    BY <1>11 DEF Commit
  <2>2. papers = D /\ D' = D /\ D # <<>>
    BY <2>1, <1>b, MintedKept DEF MintRendered
  <2> HIDE DEF D
  <2> QED BY <2>1, <2>2 DEF MintRendered, D
<1>12. CASE ReportMint
  <2>1. /\ outputs' = outputs /\ papers' = papers /\ ask' = ask /\ plan' = plan /\ at = "report"
        /\ at' = "return" /\ status' = status
    BY <1>12 DEF ReportMint
  <2>2. outputs = D /\ D' = D /\ papers = <<>> /\ D # <<>>
    BY <2>1, <1>b, MintedKept DEF MintRendered
  <2> HIDE DEF D
  <2> QED BY <2>1, <2>2 DEF MintRendered, D
<1>13. CASE Return \/ Breaks \/ Interrupt
  <2>1. /\ outputs' = outputs /\ ask' = ask /\ plan' = plan /\ at' = "done"
    BY <1>13, EndMoves
  <2>2. D' = D /\ (outputs = <<>> \/ outputs = D)
    BY <2>1, MintedKept DEF MintRendered
  <2>3. status' = 0 => outputs' # <<>>
    <3>1. status' = 0 => at = "return"
      BY <1>13 DEF Return, Breaks, Interrupt
    <3>2. at = "return" => outputs = D /\ D # <<>>
      BY <1>b DEF MintRendered
    <3> QED BY <3>1, <3>2, <2>1
  <2> HIDE DEF D
  <2> QED BY <2>1, <2>2, <2>3 DEF MintRendered, D
<1> QED
  BY <1>2, <1>4, <1>5, <1>6, <1>10, <1>11, <1>12, <1>13, MintPath DEF MintNext

\* Where the documents of each kind are among those of a run of mint, and what they say.
LEMMA MintedKinds ==
  ASSUME plan.p \subseteq Nat, IsFiniteSet(plan.p), plan.s \subseteq Nat, IsFiniteSet(plan.s),
         outputs = MintedDocuments(plan)
  PROVE  LET a == Cardinality(plan.p)
             b == Cardinality(plan.s)
         IN  /\ a \in Nat /\ b \in Nat
             /\ OutputsOf("shard") = 1 .. a
             /\ OutputsOf("signing_key_shard") = a + 1 .. a + b
             /\ \A i \in 1 .. a : outputs[i].index = Ascending(plan.p)[i] /\ outputs[i].quorum = plan.pQuorum
             /\ \A i \in a + 1 .. a + b : outputs[i].index = Ascending(plan.s)[i - a] /\ outputs[i].quorum = plan.sQuorum
<1> DEFINE a == Cardinality(plan.p)
           b == Cardinality(plan.s)
           kind(i) == outputs[i].kind
<1>1. /\ a \in Nat /\ b \in Nat /\ DOMAIN outputs = 1 .. (a + b)
      /\ \A i \in 1 .. a : outputs[i] = Document("shard", Ascending(plan.p)[i], plan.pQuorum, {"share_of_passphrase"})
      /\ \A i \in a + 1 .. a + b :
           outputs[i] = Document("signing_key_shard", Ascending(plan.s)[i - a], plan.sQuorum, {"share_of_signing_key"})
  BY MintedAre
<1> HIDE DEF a, b
<1>2. \A i \in 1 .. a : kind(i) = "shard" /\ outputs[i].index = Ascending(plan.p)[i] /\ outputs[i].quorum = plan.pQuorum
  BY <1>1, DocumentFields
<1>3. \A i \in a + 1 .. a + b : /\ kind(i) = "signing_key_shard" /\ outputs[i].index = Ascending(plan.s)[i - a]
                                /\ outputs[i].quorum = plan.sQuorum
  BY <1>1, DocumentFields
<1>4. \A x : OutputsOf(x) = { i \in 1 .. (a + b) : kind(i) = x }
  BY <1>1 DEF OutputsOf
<1> HIDE DEF kind
<1>5. \A i \in 1 .. (a + b) : i \in 1 .. a \/ i \in a + 1 .. a + b
  BY <1>1
<1>6. /\ \A i \in 1 .. a : i \in 1 .. (a + b) /\ i \notin a + 1 .. a + b
      /\ \A i \in a + 1 .. a + b : i \in 1 .. (a + b) /\ i \notin 1 .. a
  BY <1>1
<1>7. OutputsOf("shard") = 1 .. a
  <2>1. \A i \in 1 .. (a + b) : kind(i) = "shard" <=> i \in 1 .. a
    BY <1>2, <1>3, <1>5
  <2> QED BY <2>1, <1>4, <1>6
<1>8. OutputsOf("signing_key_shard") = a + 1 .. a + b
  <2>1. \A i \in 1 .. (a + b) : kind(i) = "signing_key_shard" <=> i \in a + 1 .. a + b
    BY <1>2, <1>3, <1>5
  <2> QED BY <2>1, <1>4, <1>6
<1> QED BY <1>1, <1>2, <1>3, <1>7, <1>8 DEF a, b

\* Documents that take the members of S one after the other take each once.
LEMMA IndexesAre ==
  ASSUME NEW kind, NEW S, S \subseteq Nat, IsFiniteSet(S), NEW m \in Nat,
         OutputsOf(kind) = m + 1 .. m + Cardinality(S),
         \A i \in OutputsOf(kind) : outputs[i].index = Ascending(S)[i - m]
  PROVE  IndexesOf(kind) = S /\ Cardinality(OutputsOf(kind)) = Cardinality(S)
<1> DEFINE c == Cardinality(S)
           A == Ascending(S)
<1>1. c \in Nat /\ (\A k \in 1 .. c : A[k] \in S) /\ (\A i \in S : \E k \in 1 .. c : A[k] = i)
  BY AscendingLists
<1> HIDE DEF c, A
<1>2. OutputsOf(kind) = m + 1 .. m + c /\ \A i \in OutputsOf(kind) : outputs[i].index = A[i - m]
  BY DEF c, A
<1>3. ASSUME NEW x \in IndexesOf(kind) PROVE x \in S
  <2>1. PICK i \in OutputsOf(kind) : x = outputs[i].index
    BY DEF IndexesOf
  <2>2. i - m \in 1 .. c
    <3>1. i \in m + 1 .. m + c
      BY <1>2
    <3> QED BY <3>1, <1>1
  <2>3. x = A[i - m]
    BY <2>1, <1>2
  <2> QED BY <2>2, <2>3, <1>1
<1>4. ASSUME NEW x \in S PROVE x \in IndexesOf(kind)
  <2>1. PICK k \in 1 .. c : A[k] = x
    BY <1>1
  <2>2. k + m \in OutputsOf(kind) /\ (k + m) - m = k
    <3>1. k + m \in m + 1 .. m + c /\ (k + m) - m = k
      BY <1>1
    <3> QED BY <3>1, <1>2
  <2>3. outputs[k + m].index = x
    BY <2>1, <2>2, <1>2
  <2> QED BY <2>2, <2>3 DEF IndexesOf
<1>5. Cardinality(OutputsOf(kind)) = c
  <2>1. m + 1 \in Int /\ m + c \in Int
    BY <1>1
  <2>2. Cardinality(OutputsOf(kind)) = IF m + 1 > m + c THEN 0 ELSE (m + c) - (m + 1) + 1
    BY <2>1, <1>2, FS_Interval
  <2> QED BY <1>1, <2>2
<1> QED BY <1>3, <1>4, <1>5 DEF c

\* A kind of output that follows the plan fits.
LEMMA KindFits ==
  ASSUME NEW kind, NEW count, NEW given, NEW shards, NEW S, S \subseteq Nat, IsFiniteSet(S), NEW q,
         IndexesOf(kind) = S, Cardinality(OutputsOf(kind)) = Cardinality(S),
         \A i \in OutputsOf(kind) : outputs[i].quorum = q,
         OutputsOf(kind) # {},
         count = Unset => q \in Quorums /\ S = 1 .. q.n,
         count # Unset => HasQuorum(given, shards) /\ S \subseteq Missing(shards) /\ Cardinality(S) = count /\ q = Kept(shards)
  PROVE  Fits(kind, count, given, shards)
<1>1. CASE count = Unset
  <2>1. q \in Quorums /\ S = 1 .. q.n
    BY <1>1
  <2>2. q.t \in Nat /\ q.n \in Nat /\ 1 <= q.t /\ q.t <= q.n /\ q.n <= MaxShards
    BY <2>1, MaxShardsAssumption DEF Quorums
  <2>3. q \in { outputs[i].quorum : i \in OutputsOf(kind) }
    OBVIOUS
  <2>4. Cardinality(OutputsOf(kind)) = q.n
    BY <2>1, FreshFits
  <2>5. CompleteSet(kind)
    BY <2>1, <2>2, <2>3, <2>4, Zenon DEF CompleteSet
  <2> QED BY <1>1, <2>5 DEF Fits
<1>2. CASE count # Unset
  BY <1>2, Zenon DEF Fits
<1> QED BY <1>1, <1>2

\* What a plan of mint puts on paper fits.
LEMMA MintedFromPlan == Path /\ MintMade => MintedWithinReach
<1> SUFFICES ASSUME Path, MintMade, ask.command = "mint",
                    outputs # <<>> \/ (Done /\ status = 0 /\ at = "done" /\ ~ask.help /\ ~ask.init)
             PROVE  /\ outputs # <<>>
                    /\ Fits("shard", args.rp, ShardsGiven, ask.shards)
                    /\ Fits("signing_key_shard", args.rs, args.keys, ask.keyShards)
  BY DEF MintedWithinReach
<1>1. outputs # <<>> /\ outputs = MintedDocuments(plan)
  BY DEF MintMade, MintRendered
<1>2. /\ ask \in Invocations /\ args \in MintArgsType /\ Requestable(args) /\ PassphraseMintable /\ SigningMintable
      /\ plan = MintPlan
  BY <1>1 DEF Path, MintMade, MintPlanned
<1> DEFINE a == Cardinality(plan.p)
           b == Cardinality(plan.s)
<1>3. /\ plan.p \subseteq Nat /\ IsFiniteSet(plan.p) /\ plan.s \subseteq Nat /\ IsFiniteSet(plan.s)
      /\ ~args.p => plan.p = {}
      /\ ~args.s => plan.s = {}
      /\ args.p /\ args.rp = Unset => plan.pQuorum \in Quorums /\ plan.p = 1 .. plan.pQuorum.n
      /\ args.s /\ args.rs = Unset => plan.sQuorum \in Quorums /\ plan.s = 1 .. plan.sQuorum.n
      /\ args.p /\ args.rp # Unset =>
           /\ HasQuorum(ShardsGiven, ask.shards) /\ plan.p \subseteq Missing(ask.shards)
           /\ Cardinality(plan.p) = args.rp /\ plan.pQuorum = Kept(ask.shards)
      /\ args.s /\ args.rs # Unset =>
           /\ HasQuorum(args.keys, ask.keyShards) /\ plan.s \subseteq Missing(ask.keyShards)
           /\ Cardinality(plan.s) = args.rs /\ plan.sQuorum = Kept(ask.keyShards)
  BY <1>2, MintPlanIs
<1>4. /\ a \in Nat /\ b \in Nat
      /\ OutputsOf("shard") = 1 .. a
      /\ OutputsOf("signing_key_shard") = a + 1 .. a + b
      /\ \A i \in 1 .. a : outputs[i].index = Ascending(plan.p)[i] /\ outputs[i].quorum = plan.pQuorum
      /\ \A i \in a + 1 .. a + b : outputs[i].index = Ascending(plan.s)[i - a] /\ outputs[i].quorum = plan.sQuorum
  BY <1>1, <1>3, MintedKinds
<1>5. IndexesOf("shard") = plan.p /\ Cardinality(OutputsOf("shard")) = Cardinality(plan.p)
  <2>1. OutputsOf("shard") = 0 + 1 .. 0 + Cardinality(plan.p)
    BY <1>4
  <2>2. \A i \in OutputsOf("shard") : outputs[i].index = Ascending(plan.p)[i - 0]
    <3>1. \A i \in 1 .. a : i - 0 = i
      BY <1>4
    <3> QED BY <3>1, <1>4
  <2> QED BY <2>1, <2>2, <1>3, IndexesAre
<1>6. IndexesOf("signing_key_shard") = plan.s /\ Cardinality(OutputsOf("signing_key_shard")) = Cardinality(plan.s)
  <2>1. OutputsOf("signing_key_shard") = a + 1 .. a + Cardinality(plan.s) /\ a \in Nat
    BY <1>4
  <2>2. \A i \in OutputsOf("signing_key_shard") : outputs[i].index = Ascending(plan.s)[i - a]
    BY <1>4
  <2> HIDE DEF a
  <2> QED BY <2>1, <2>2, <1>3, IndexesAre
<1>7. args.p \in BOOLEAN /\ args.s \in BOOLEAN
  BY <1>2 DEF MintArgsType
<1>8. Cardinality({}) = 0
  BY FS_EmptySet
<1>9. Fits("shard", args.rp, ShardsGiven, ask.shards)
  <2>1. CASE OutputsOf("shard") = {}
    BY <2>1 DEF Fits
  <2>2. CASE OutputsOf("shard") # {}
    <3>1. args.p
      <4>1. ~args.p => a = 0
        BY <1>3, <1>8
      <4>2. a # 0
        BY <2>2, <1>4
      <4> QED BY <4>1, <4>2, <1>7
    <3>2. \A i \in OutputsOf("shard") : outputs[i].quorum = plan.pQuorum
      BY <1>4
    <3> QED BY <2>2, <3>1, <3>2, <1>3, <1>5, KindFits
  <2> QED BY <2>1, <2>2
<1>10. Fits("signing_key_shard", args.rs, args.keys, ask.keyShards)
  <2>1. CASE OutputsOf("signing_key_shard") = {}
    BY <2>1 DEF Fits
  <2>2. CASE OutputsOf("signing_key_shard") # {}
    <3>1. args.s
      <4>1. ~args.s => b = 0
        BY <1>3, <1>8
      <4>2. b # 0
        BY <2>2, <1>4
      <4> QED BY <4>1, <4>2, <1>7
    <3>2. \A i \in OutputsOf("signing_key_shard") : outputs[i].quorum = plan.sQuorum
      BY <1>4
    <3> QED BY <2>2, <3>1, <3>2, <1>3, <1>6, KindFits
  <2> QED BY <2>1, <2>2
<1> QED BY <1>1, <1>9, <1>10

\* Nothing is chosen, planned or rendered at the start.
LEMMA MintInit == ASSUME Init PROVE MintMade
BY DEF Init, MintMade, MintChosen, MintPlanned, MintRendered, MintAsking, Running

\* Options, plan and documents of mint agree after every step.
LEMMA MintStep == ASSUME Path, MintMade, [Next]_vars PROVE MintMade'
<1>1. CASE UNCHANGED vars
  <2>1. /\ MintPlan' = MintPlan /\ PassphraseMintable' = PassphraseMintable /\ SigningMintable' = SigningMintable
        /\ Requestable(args)' = Requestable(args) /\ MintedDocuments(plan)' = MintedDocuments(plan)
    BY <1>1, MintPlanKept, MintedKept DEF vars
  <2>2. MintChosen' <=> MintChosen
    <3>1. InScope(args)' = InScope(args) /\ PairsValid(args)' = PairsValid(args)
      BY <1>1 DEF vars, InScope, Positive, PairsValid
    <3> QED BY <1>1, <2>1, <3>1 DEF vars, MintChosen
  <2>3. MintPlanned' <=> MintPlanned
    BY <1>1, <2>1 DEF vars, MintPlanned
  <2>4. MintRendered' <=> MintRendered
    BY <1>1, <2>1 DEF vars, MintRendered
  <2> QED BY <1>1, <2>2, <2>3, <2>4 DEF vars, MintMade
<1>2. CASE Next
  <2>1. ask' = ask
    BY <1>2, AskKept
  <2>2. CASE ask.command # "mint"
    BY <2>1, <2>2 DEF MintMade
  <2>3. CASE ask.command = "mint"
    BY <2>1, <2>3, <1>2, MintChosenStep, MintPlannedStep, MintRenderedStep DEF MintMade
  <2> QED BY <2>2, <2>3
<1> QED BY <1>1, <1>2

\* A run of mint that ends well has made something, and what it made fits the set it belongs to.
THEOREM MintingStaysWithinReach == Spec => []MintedWithinReach
<1>1. Init => Path /\ MintMade
  BY PathInit, MintInit
<1>2. Path /\ MintMade /\ [Next]_vars => (Path /\ MintMade)'
  BY PathStep, MintStep
<1>3. Path /\ MintMade => MintedWithinReach
  BY MintedFromPlan
<1> QED
  BY <1>1, <1>2, <1>3, PTL DEF Spec

(***************************************************************************)
(* The events of a command.                                                *)
(***************************************************************************)
List(s) == Len(s) \in Nat /\ s = [i \in 1 .. Len(s) |-> s[i]]

\* Phase q comes right after p.
Leads(command, p, q) ==
  \E k \in DOMAIN Phases(command) :
    q = Phases(command)[k] /\ p = IF k = 1 THEN "none" ELSE Phases(command)[k - 1]

\* A stream that has begun, in phase p, and goes on.
Open(s, command, p) ==
  /\ List(s) /\ Len(s) > 0
  /\ InOrder(s, command)
  /\ \A i \in 1 .. Len(s) : ~Terminal(s[i])
  /\ InPhase(s, Len(s) + 1, p)

\* A stream that has ended, with its only terminal event.
Closed(s, command) ==
  /\ List(s) /\ Len(s) > 0
  /\ InOrder(s, command)
  /\ \E p : InPhase(s, Len(s) + 1, p)
  /\ Terminal(s[Len(s)])
  /\ \A i \in 1 .. Len(s) : Terminal(s[i]) => i = Len(s)

\* Events within a phase.
Within(t, p) ==
  /\ List(t)
  /\ \A i \in 1 .. Len(t) : /\ t[i].type \notin {"started", "phase"}
                            /\ t[i].type = "progress" => t[i].phase = p /\ p # "none"

\* What is in two lists put together.
LEMMA ListsJoin ==
  ASSUME NEW s, NEW t, List(s), List(t)
  PROVE  /\ List(s \o t) /\ Len(s \o t) = Len(s) + Len(t) /\ DOMAIN (s \o t) = 1 .. Len(s) + Len(t)
         /\ \A i \in 1 .. Len(s) : (s \o t)[i] = s[i]
         /\ \A i \in 1 .. Len(t) : (s \o t)[Len(s) + i] = t[i]
<1> DEFINE m == Len(s)
           n == Len(t)
           u == s \o t
<1>1. m \in Nat /\ n \in Nat /\ s = [i \in 1 .. m |-> s[i]] /\ t = [i \in 1 .. n |-> t[i]]
  BY DEF List
<1>2. u = [i \in 1 .. (m + n) |-> IF i <= m THEN s[i] ELSE t[i - m]]
  BY <1>1, Joined
<1> HIDE DEF m, n, u
<1>3. u = [i \in 1 .. (m + n) |-> u[i]] /\ m + n \in Nat
  BY <1>1, <1>2
<1>4. Len(u) = m + n /\ DOMAIN u = 1 .. m + n
  BY <1>3, LenOf
<1>5. \A i \in 1 .. m : u[i] = s[i]
  BY <1>1, <1>2
<1>6. \A i \in 1 .. n : u[m + i] = t[i]
  BY <1>1, <1>2
<1> QED BY <1>3, <1>4, <1>5, <1>6 DEF List, m, n, u

\* A list of one event.
LEMMA ListOfOne ==
  ASSUME NEW e
  PROVE  List(<<e>>) /\ Len(<<e>>) = 1 /\ <<e>>[1] = e /\ DOMAIN <<e>> = 1 .. 1
BY DEF List

\* What a list says of its phases does not depend on what comes after.
LEMMA InPhaseKept ==
  ASSUME NEW s, NEW u, NEW i \in Int, NEW p, \A k \in 1 .. (i - 1) : u[k] = s[k]
  PROVE  InPhase(u, i, p) <=> InPhase(s, i, p)
<1>1. CASE p = "none"
  BY <1>1 DEF InPhase
<1>2. CASE p # "none"
  <2>1. \A j \in 1 .. (i - 1) : \A k \in (j + 1) .. (i - 1) : k \in 1 .. (i - 1)
    OBVIOUS
  <2> QED BY <1>2, <2>1 DEF InPhase
<1> QED BY <1>1, <1>2

\* A phase lasts until another is announced.
LEMMA InPhaseLasts ==
  ASSUME NEW s, NEW m \in Nat, NEW i \in Nat, m + 1 <= i, NEW p, InPhase(s, m + 1, p),
         \A k \in (m + 1) .. (i - 1) : s[k].type # "phase"
  PROVE  InPhase(s, i, p)
<1>1. CASE p = "none"
  <2>1. \A k \in 1 .. m : s[k].type # "phase"
    BY <1>1 DEF InPhase
  <2>2. \A k \in 1 .. (i - 1) : k \in 1 .. m \/ k \in (m + 1) .. (i - 1)
    OBVIOUS
  <2> QED BY <1>1, <2>1, <2>2 DEF InPhase
<1>2. CASE p # "none"
  <2>1. PICK j \in 1 .. m : s[j] = Phase(p) /\ \A k \in (j + 1) .. m : s[k].type # "phase"
    BY <1>2 DEF InPhase
  <2>2. \A k \in (j + 1) .. (i - 1) : k \in (j + 1) .. m \/ k \in (m + 1) .. (i - 1)
    OBVIOUS
  <2>3. j \in 1 .. (i - 1) /\ \A k \in (j + 1) .. (i - 1) : s[k].type # "phase"
    BY <2>1, <2>2
  <2> QED BY <1>2, <2>1, <2>3 DEF InPhase
<1> QED BY <1>1, <1>2

\* Events of the phase can be added to a stream.
LEMMA Grows ==
  ASSUME NEW s, NEW t, NEW c, NEW p, List(s), Len(s) > 0, InOrder(s, c), InPhase(s, Len(s) + 1, p), Within(t, p)
  PROVE  InOrder(s \o t, c) /\ InPhase(s \o t, Len(s) + Len(t) + 1, p)
<1> DEFINE m == Len(s)
           n == Len(t)
           u == s \o t
<1>1. /\ m \in Nat /\ n \in Nat /\ m > 0 /\ DOMAIN u = 1 .. m + n /\ DOMAIN s = 1 .. m
      /\ \A i \in 1 .. m : u[i] = s[i]
      /\ \A i \in 1 .. n : u[m + i] = t[i]
  BY ListsJoin DEF Within, List
<1>2. \A k \in (m + 1) .. (m + n) : k - m \in 1 .. n /\ u[k] = t[k - m]
  <2> TAKE k \in (m + 1) .. (m + n)
  <2>1. k - m \in 1 .. n /\ m + (k - m) = k
    BY <1>1
  <2> QED BY <2>1, <1>1
<1>3. \A k \in (m + 1) .. (m + n) : /\ u[k].type \notin {"started", "phase"}
                                    /\ u[k].type = "progress" => u[k].phase = p /\ p # "none"
  BY <1>2 DEF Within
<1>4. InPhase(u, m + 1, p)
  <2>1. InPhase(s, m + 1, p)
    OBVIOUS
  <2> HIDE DEF u, m
  <2> QED BY <2>1, <1>1, InPhaseKept
<1> HIDE DEF m, n, u
<1>5. \A i \in (m + 1) .. (m + n + 1) : InPhase(u, i, p)
  <2> TAKE i \in (m + 1) .. (m + n + 1)
  <2>1. \A k \in (m + 1) .. (i - 1) : k \in (m + 1) .. (m + n)
    BY <1>1
  <2>2. i \in Nat /\ m + 1 <= i
    BY <1>1
  <2>3. \A k \in (m + 1) .. (i - 1) : u[k].type # "phase"
    BY <2>1, <1>3
  <2> QED BY <2>2, <2>3, <1>1, <1>4, InPhaseLasts
<1>6. InOrder(s, c)
  OBVIOUS
<1>7. ASSUME NEW i \in 1 .. m
      PROVE  /\ u[i].type = "started" <=> (i = 1 /\ ~Terminal(u[i]))
             /\ u[i].type = "progress" => u[i].phase # "none" /\ InPhase(u, i, u[i].phase)
             /\ u[i].type = "phase" => \E k \in DOMAIN Phases(c) :
                  /\ u[i].phase = Phases(c)[k]
                  /\ InPhase(u, i, IF k = 1 THEN "none" ELSE Phases(c)[k - 1])
  <2>1. u[i] = s[i] /\ i \in Int /\ i \in DOMAIN s /\ \A k \in 1 .. (i - 1) : u[k] = s[k]
    BY <1>1
  <2>2. \A q : InPhase(u, i, q) <=> InPhase(s, i, q)
    BY <2>1, InPhaseKept
  <2> QED BY <2>1, <2>2, <1>6, Zenon DEF InOrder
<1>8. ASSUME NEW i \in (m + 1) .. (m + n)
      PROVE  /\ u[i].type = "started" <=> (i = 1 /\ ~Terminal(u[i]))
             /\ u[i].type = "progress" => u[i].phase # "none" /\ InPhase(u, i, u[i].phase)
             /\ u[i].type # "phase"
  <2>1. i # 1 /\ i \in (m + 1) .. (m + n + 1)
    BY <1>1
  <2> QED BY <2>1, <1>3, <1>5
<1>9. \A i \in 1 .. m + n : i \in 1 .. m \/ i \in (m + 1) .. (m + n)
  BY <1>1
<1>10. InOrder(u, c)
  <2> SUFFICES ASSUME NEW i \in DOMAIN u
               PROVE  /\ u[i].type = "started" <=> (i = 1 /\ ~Terminal(u[i]))
                      /\ u[i].type = "progress" => u[i].phase # "none" /\ InPhase(u, i, u[i].phase)
                      /\ u[i].type = "phase" => \E k \in DOMAIN Phases(c) :
                           /\ u[i].phase = Phases(c)[k]
                           /\ InPhase(u, i, IF k = 1 THEN "none" ELSE Phases(c)[k - 1])
    BY Zenon DEF InOrder
  <2>1. i \in 1 .. m \/ i \in (m + 1) .. (m + n)
    BY <1>1, <1>9
  <2>2. CASE i \in 1 .. m
    BY <2>2, <1>7
  <2>3. CASE i \in (m + 1) .. (m + n)
    BY <2>3, <1>8
  <2> QED BY <2>1, <2>2, <2>3
<1>11. m + n + 1 \in (m + 1) .. (m + n + 1)
  BY <1>1
<1> QED BY <1>5, <1>10, <1>11 DEF m, n, u

\* Events of the phase that end nothing leave the stream open,
LEMMA OpenGrows ==
  ASSUME NEW s, NEW t, NEW c, NEW p, Open(s, c, p), Within(t, p), \A i \in 1 .. Len(t) : ~Terminal(t[i])
  PROVE  Open(s \o t, c, p)
<1> DEFINE m == Len(s)
           n == Len(t)
           u == s \o t
<1>1. /\ m \in Nat /\ n \in Nat /\ m > 0 /\ List(u) /\ Len(u) = m + n
      /\ \A i \in 1 .. m : u[i] = s[i]
      /\ \A i \in 1 .. n : u[m + i] = t[i]
  BY ListsJoin DEF Open, Within, List
<1>2. InOrder(u, c) /\ InPhase(u, m + n + 1, p)
  BY Grows DEF Open
<1>3. \A i \in 1 .. m : ~Terminal(s[i])
  BY DEF Open
<1> HIDE DEF m, n, u
<1>4. ASSUME NEW i \in 1 .. m + n PROVE ~Terminal(u[i])
  <2>1. CASE i \in 1 .. m
    BY <2>1, <1>1, <1>3, Zenon
  <2>2. CASE i \notin 1 .. m
    <3>1. i - m \in 1 .. n /\ m + (i - m) = i
      BY <2>2, <1>1
    <3>2. u[i] = t[i - m] /\ ~Terminal(t[i - m])
      BY <3>1, <1>1 DEF n
    <3> QED BY <3>2, Zenon
  <2> QED BY <2>1, <2>2
<1>5. Len(u) > 0
  BY <1>1
<1> QED BY <1>1, <1>2, <1>4, <1>5 DEF Open, u

\* an event that ends it closes it,
LEMMA OpenEnds ==
  ASSUME NEW s, NEW e, NEW c, NEW p, Open(s, c, p), Terminal(e)
  PROVE  Closed(s \o <<e>>, c) /\ Len(s \o <<e>>) = Len(s) + 1 /\ (s \o <<e>>)[Len(s) + 1] = e
<1> DEFINE m == Len(s)
           t == <<e>>
           u == s \o t
<1>1. List(t) /\ Len(t) = 1 /\ t[1] = e
  BY ListOfOne
<1>2. /\ m \in Nat /\ m > 0 /\ List(u) /\ Len(u) = m + 1
      /\ \A i \in 1 .. m : u[i] = s[i]
      /\ \A i \in 1 .. 1 : u[m + i] = t[i]
  BY <1>1, ListsJoin DEF Open, List
<1>3. u[m + 1] = e
  BY <1>1, <1>2
<1>4. Within(t, p)
  BY <1>1 DEF Within, Terminal
<1>5. InOrder(u, c) /\ InPhase(u, m + 2, p)
  <2>1. InOrder(u, c) /\ InPhase(u, m + 1 + 1, p)
    BY <1>1, <1>4, Grows DEF Open
  <2>2. m + 1 + 1 = m + 2
    BY <1>2
  <2> HIDE DEF u, m
  <2> QED BY <2>1, <2>2
<1>6. \A i \in 1 .. m : ~Terminal(s[i])
  BY DEF Open
<1> HIDE DEF m, u, t
<1>7. ASSUME NEW i \in 1 .. m + 1, Terminal(u[i]) PROVE i = m + 1
  <2>1. CASE i \in 1 .. m
    BY <2>1, <1>2, <1>6, <1>7, Zenon
  <2>2. CASE i \notin 1 .. m
    BY <2>2, <1>2
  <2> QED BY <2>1, <2>2
<1>8. Closed(u, c)
  <2>1. Len(u) + 1 = m + 2 /\ Len(u) > 0
    BY <1>2
  <2>2. InPhase(u, Len(u) + 1, p)
    BY <2>1, <1>5
  <2> QED BY <2>1, <2>2, <1>2, <1>3, <1>5, <1>7 DEF Closed
<1> QED BY <1>2, <1>3, <1>8 DEF u, m, t

\* and the next phase may be announced.
LEMMA OpenTurns ==
  ASSUME NEW s, NEW c, NEW p, NEW q, Open(s, c, p), Leads(c, p, q), q # "none"
  PROVE  Open(s \o <<Phase(q)>>, c, q)
<1> DEFINE m == Len(s)
           t == <<Phase(q)>>
           u == s \o t
<1>1. List(t) /\ Len(t) = 1 /\ t[1] = Phase(q)
  BY ListOfOne
<1>2. /\ m \in Nat /\ m > 0 /\ List(u) /\ Len(u) = m + 1 /\ DOMAIN u = 1 .. m + 1 /\ DOMAIN s = 1 .. m
      /\ \A i \in 1 .. m : u[i] = s[i]
      /\ \A i \in 1 .. 1 : u[m + i] = t[i]
  BY <1>1, ListsJoin DEF Open, List
<1>3. u[m + 1] = Phase(q) /\ Phase(q).type = "phase" /\ Phase(q).phase = q /\ ~Terminal(Phase(q))
  BY <1>1, <1>2 DEF Phase, Terminal
<1>4. InOrder(s, c) /\ InPhase(s, m + 1, p) /\ \A i \in 1 .. m : ~Terminal(s[i])
  BY DEF Open
<1> HIDE DEF m, u, t
<1>5. ASSUME NEW i \in 1 .. m
      PROVE  /\ u[i].type = "started" <=> (i = 1 /\ ~Terminal(u[i]))
             /\ u[i].type = "progress" => u[i].phase # "none" /\ InPhase(u, i, u[i].phase)
             /\ u[i].type = "phase" => \E k \in DOMAIN Phases(c) :
                  /\ u[i].phase = Phases(c)[k]
                  /\ InPhase(u, i, IF k = 1 THEN "none" ELSE Phases(c)[k - 1])
  <2>1. u[i] = s[i] /\ i \in Int /\ i \in DOMAIN s /\ \A k \in 1 .. (i - 1) : u[k] = s[k]
    BY <1>2
  <2>2. \A r : InPhase(u, i, r) <=> InPhase(s, i, r)
    BY <2>1, InPhaseKept
  <2> QED BY <2>1, <2>2, <1>4, Zenon DEF InOrder
<1>6. InPhase(u, m + 1, p)
  <2>1. InPhase(s, m + 1, p)
    BY <1>4
  <2> QED BY <2>1, <1>2, InPhaseKept
<1>7. \E k \in DOMAIN Phases(c) : q = Phases(c)[k] /\ InPhase(u, m + 1, IF k = 1 THEN "none" ELSE Phases(c)[k - 1])
  BY <1>6, Zenon DEF Leads
<1>8. InOrder(u, c)
  <2> SUFFICES ASSUME NEW i \in DOMAIN u
               PROVE  /\ u[i].type = "started" <=> (i = 1 /\ ~Terminal(u[i]))
                      /\ u[i].type = "progress" => u[i].phase # "none" /\ InPhase(u, i, u[i].phase)
                      /\ u[i].type = "phase" => \E k \in DOMAIN Phases(c) :
                           /\ u[i].phase = Phases(c)[k]
                           /\ InPhase(u, i, IF k = 1 THEN "none" ELSE Phases(c)[k - 1])
    BY Zenon DEF InOrder
  <2>1. i \in 1 .. m \/ i = m + 1
    BY <1>2
  <2>2. CASE i \in 1 .. m
    BY <2>2, <1>5
  <2>3. CASE i = m + 1
    <3>1. i # 1
      BY <2>3, <1>2
    <3>2. u[i].type = "phase" /\ u[i].phase = q
      BY <2>3, <1>3
    <3>3. u[i].type # "started" /\ u[i].type # "progress"
      BY <3>2
    <3>4. \E k \in DOMAIN Phases(c) :
            u[i].phase = Phases(c)[k] /\ InPhase(u, i, IF k = 1 THEN "none" ELSE Phases(c)[k - 1])
      BY <2>3, <3>2, <1>7
    <3> QED BY <3>1, <3>2, <3>3, <3>4
  <2> QED BY <2>1, <2>2, <2>3
<1>9. InPhase(u, m + 2, q)
  <2> DEFINE i == m + 2
  <2>1. m + 1 \in 1 .. (i - 1) /\ \A k \in (m + 1 + 1) .. (i - 1) : u[k].type # "phase"
    BY <1>2
  <2> HIDE DEF i
  <2>2. \E j \in 1 .. (i - 1) : u[j] = Phase(q) /\ \A k \in (j + 1) .. (i - 1) : u[k].type # "phase"
    BY <2>1, <1>3, Zenon
  <2>3. InPhase(u, i, q)
    BY <2>2, Zenon DEF InPhase
  <2> QED BY <2>3 DEF i
<1>10. ASSUME NEW i \in 1 .. m + 1 PROVE ~Terminal(u[i])
  <2>1. i \in 1 .. m \/ i = m + 1
    BY <1>2
  <2>2. CASE i \in 1 .. m
    BY <2>2, <1>2, <1>4, Zenon
  <2>3. CASE i = m + 1
    BY <2>3, <1>3
  <2> QED BY <2>1, <2>2, <2>3
<1>11. Len(u) > 0 /\ Len(u) + 1 = m + 2
  BY <1>2
<1> QED BY <1>2, <1>8, <1>9, <1>10, <1>11 DEF Open, u, t

\* Lists can be put together in any grouping.
LEMMA JoinedAgain ==
  ASSUME NEW s, NEW t, NEW u, List(s), List(t), List(u)
  PROVE  s \o (t \o u) = (s \o t) \o u
<1> DEFINE l == Len(s)
           m == Len(t)
           n == Len(u)
           x == s \o (t \o u)
           y == (s \o t) \o u
<1>1. /\ l \in Nat /\ m \in Nat /\ n \in Nat
      /\ s = [i \in 1 .. l |-> s[i]] /\ t = [i \in 1 .. m |-> t[i]] /\ u = [i \in 1 .. n |-> u[i]]
  BY DEF List
<1>2. t \o u = [i \in 1 .. (m + n) |-> IF i <= m THEN t[i] ELSE u[i - m]]
  BY <1>1, Joined
<1>3. s \o t = [i \in 1 .. (l + m) |-> IF i <= l THEN s[i] ELSE t[i - l]]
  BY <1>1, Joined
<1>4. x = [i \in 1 .. (l + (m + n)) |-> IF i <= l THEN s[i] ELSE (t \o u)[i - l]]
  <2>1. t \o u = [i \in 1 .. (m + n) |-> (t \o u)[i]] /\ m + n \in Nat
    BY <1>1, <1>2
  <2> QED BY <1>1, <2>1, Joined
<1>5. y = [i \in 1 .. ((l + m) + n) |-> IF i <= l + m THEN (s \o t)[i] ELSE u[i - (l + m)]]
  <2>1. s \o t = [i \in 1 .. (l + m) |-> (s \o t)[i]] /\ l + m \in Nat
    BY <1>1, <1>3
  <2> QED BY <1>1, <2>1, Joined
<1> HIDE DEF l, m, n, x, y
<1>6. l + (m + n) = (l + m) + n
  BY <1>1
<1>7. ASSUME NEW i \in 1 .. (l + (m + n)) PROVE x[i] = y[i]
  <2>1. CASE i <= l
    <3>1. i \in 1 .. (l + m) /\ i <= l + m /\ i \in 1 .. ((l + m) + n)
      BY <2>1, <1>1
    <3>2. x[i] = s[i]
      BY <2>1, <1>4
    <3>3. y[i] = s[i]
      BY <2>1, <3>1, <1>5, <1>3
    <3> QED BY <3>2, <3>3
  <2>2. CASE ~(i <= l) /\ i <= l + m
    <3>1. i \in 1 .. (l + m) /\ i - l \in 1 .. (m + n) /\ i - l <= m /\ i \in 1 .. ((l + m) + n)
      BY <2>2, <1>1
    <3>2. x[i] = t[i - l]
      BY <2>2, <3>1, <1>4, <1>2
    <3>3. y[i] = t[i - l]
      BY <2>2, <3>1, <1>5, <1>3
    <3> QED BY <3>2, <3>3
  <2>3. CASE ~(i <= l + m)
    <3>1. i - l \in 1 .. (m + n) /\ ~(i - l <= m) /\ ~(i <= l) /\ (i - l) - m = i - (l + m) /\ i \in 1 .. ((l + m) + n)
      BY <2>3, <1>1
    <3>2. x[i] = u[(i - l) - m]
      BY <2>3, <3>1, <1>4, <1>2
    <3>3. y[i] = u[i - (l + m)]
      BY <2>3, <3>1, <1>5
    <3> QED BY <3>1, <3>2, <3>3
  <2> QED BY <2>1, <2>2, <2>3
<1>8. x = [i \in 1 .. (l + (m + n)) |-> x[i]] /\ y = [i \in 1 .. (l + (m + n)) |-> y[i]]
  BY <1>4, <1>5, <1>6
<1>9. x = y
  BY <1>7, <1>8, Zenon
<1> QED BY <1>9 DEF x, y

\* Two lists of one event make a list of two.
LEMMA PairOf == ASSUME NEW a, NEW b PROVE <<a>> \o <<b>> = <<a, b>>
<1> DEFINE x == <<a>> \o <<b>>
           y == <<a, b>>
<1>1. List(<<a>>) /\ Len(<<a>>) = 1 /\ <<a>>[1] = a /\ List(<<b>>) /\ Len(<<b>>) = 1 /\ <<b>>[1] = b
  BY ListOfOne
<1>2. /\ List(x) /\ Len(x) = 1 + 1
      /\ \A i \in 1 .. 1 : x[i] = <<a>>[i]
      /\ \A i \in 1 .. 1 : x[1 + i] = <<b>>[i]
  BY <1>1, ListsJoin
<1>3. x = [i \in 1 .. 2 |-> x[i]] /\ x[1] = a /\ x[2] = b
  BY <1>1, <1>2 DEF List
<1>4. y = [i \in 1 .. 2 |-> y[i]] /\ y[1] = a /\ y[2] = b
  OBVIOUS
<1> HIDE DEF x, y
<1>5. \A i \in 1 .. 2 : x[i] = y[i]
  BY <1>3, <1>4
<1>6. x = y
  BY <1>3, <1>4, <1>5, Zenon
<1> QED BY <1>6 DEF x, y

\* Two events at once are one after the other.
LEMMA OneByOne ==
  ASSUME NEW s, List(s), NEW a, NEW b
  PROVE  s \o <<a, b>> = (s \o <<a>>) \o <<b>>
<1> DEFINE t == <<a>>
           u == <<b>>
<1>1. List(t) /\ List(u)
  BY ListOfOne
<1>2. t \o u = <<a, b>>
  BY PairOf
<1> HIDE DEF t, u
<1>3. s \o (t \o u) = (s \o t) \o u
  BY <1>1, JoinedAgain
<1> QED BY <1>2, <1>3 DEF t, u

\* A stream begins with `started`, outside all phases.
LEMMA Begins == ASSUME NEW c PROVE Open(<<Started>>, c, "none")
<1>1. List(<<Started>>) /\ Len(<<Started>>) = 1 /\ <<Started>>[1] = Started /\ DOMAIN <<Started>> = 1 .. 1
  BY ListOfOne
<1>2. Started.type = "started" /\ ~Terminal(Started)
  BY DEF Started, Terminal
<1>3. InPhase(<<Started>>, 2, "none")
  BY <1>1, <1>2 DEF InPhase
<1> HIDE DEF Started
<1>4. InOrder(<<Started>>, c)
  BY <1>1, <1>2 DEF InOrder
<1> QED BY <1>1, <1>2, <1>3, <1>4 DEF Open

\* The first phase may come at once.
LEMMA BeginsPhase == ASSUME NEW c, NEW q, Leads(c, "none", q), q # "none" PROVE Open(<<Started, Phase(q)>>, c, q)
<1>1. Open(<<Started>> \o <<Phase(q)>>, c, q)
  BY Begins, OpenTurns
<1>2. <<Started>> \o <<Phase(q)>> = <<Started, Phase(q)>>
  BY PairOf
<1> QED BY <1>1, <1>2, Zenon

\* An event of a phase,
LEMMA WithinOne ==
  ASSUME NEW e, NEW p, e.type \notin {"started", "phase"}, e.type = "progress" => e.phase = p /\ p # "none"
  PROVE  Within(<<e>>, p)
<1>1. List(<<e>>) /\ Len(<<e>>) = 1 /\ <<e>>[1] = e
  BY ListOfOne
<1>2. \A i \in 1 .. 1 : <<e>>[i] = e
  BY <1>1
<1> HIDE DEF List
<1> QED BY <1>1, <1>2 DEF Within

\* and the turn to the next phase with the progress of the last one.
LEMMA Moves ==
  ASSUME NEW s, NEW c, NEW p, NEW q, NEW m, NEW n, Open(s, c, p), p # "none", Leads(c, p, q), q # "none"
  PROVE  Open(s \o <<Progress(p, m, n), Phase(q)>>, c, q)
<1> DEFINE e == Progress(p, m, n)
<1>1. e.type = "progress" /\ e.phase = p /\ ~Terminal(e)
  BY DEF Progress, Terminal
<1>2. List(<<e>>) /\ Len(<<e>>) = 1 /\ <<e>>[1] = e /\ List(s)
  BY ListOfOne DEF Open
<1> HIDE DEF e
<1>3. Within(<<e>>, p)
  BY <1>1, WithinOne
<1>4. \A i \in 1 .. Len(<<e>>) : ~Terminal(<<e>>[i])
  BY <1>1, <1>2
<1>5. Open(s \o <<e>>, c, p)
  BY <1>3, <1>4, OpenGrows
<1>6. Open((s \o <<e>>) \o <<Phase(q)>>, c, q)
  BY <1>5, OpenTurns
<1>7. s \o <<e, Phase(q)>> = (s \o <<e>>) \o <<Phase(q)>>
  BY <1>2, OneByOne
<1> QED BY <1>6, <1>7, Zenon DEF e

\* A single event of the phase that ends nothing.
LEMMA Adds ==
  ASSUME NEW s, NEW c, NEW p, NEW e, Open(s, c, p), ~Terminal(e), e.type \notin {"started", "phase"},
         e.type = "progress" => e.phase = p /\ p # "none"
  PROVE  Open(s \o <<e>>, c, p)
<1>1. Within(<<e>>, p)
  BY WithinOne
<1>2. List(<<e>>) /\ Len(<<e>>) = 1 /\ <<e>>[1] = e
  BY ListOfOne
<1>3. \A i \in 1 .. Len(<<e>>) : ~Terminal(<<e>>[i])
  BY <1>2
<1> QED BY <1>1, <1>3, OpenGrows

\* An error at the start closes a stream with nothing in it.
LEMMA FailsAtOnce ==
  ASSUME NEW c, NEW code
  PROVE  Closed(<<>> \o <<ErrorEvent(code)>>, c) /\ Len(<<>> \o <<ErrorEvent(code)>>) = 1
         /\ (<<>> \o <<ErrorEvent(code)>>)[1] = ErrorEvent(code)
<1> DEFINE e == ErrorEvent(code)
<1>1. e.type = "error" /\ Terminal(e)
  BY DEF ErrorEvent, Terminal
<1> HIDE DEF e
<1>2. <<>> \o <<e>> = <<e>>
  OBVIOUS
<1>3. List(<<e>>) /\ Len(<<e>>) = 1 /\ <<e>>[1] = e /\ DOMAIN <<e>> = 1 .. 1
  BY ListOfOne
<1>4. InPhase(<<e>>, 2, "none")
  BY <1>1, <1>3 DEF InPhase
<1>5. InOrder(<<e>>, c)
  BY <1>1, <1>3 DEF InOrder
<1>6. Closed(<<e>>, c)
  <2>1. 1 + 1 = 2
    OBVIOUS
  <2> QED BY <1>1, <1>3, <1>4, <1>5, <2>1 DEF Closed
<1> QED BY <1>2, <1>3, <1>6 DEF e

\* A cancellation after the result stays in order.
LEMMA CancelledLate ==
  ASSUME NEW s, NEW c, Closed(s, c)
  PROVE  InOrder(s \o <<ErrorEvent("CANCELLED")>>, c)
<1>1. PICK p : InPhase(s, Len(s) + 1, p)
  BY DEF Closed
<1>2. Within(<<ErrorEvent("CANCELLED")>>, p)
  BY WithinOne DEF ErrorEvent
<1> QED BY <1>1, <1>2, Grows DEF Closed

(***************************************************************************)
(* What has been told at each step.                                        *)
(***************************************************************************)
\* The steps of the program at which nothing has been said,
Silent == Boot \cup {"backup", "backup_input", "mint", "recover", "inspect_recover", "inspect_mint",
                     "config_get", "config_set"}

\* those that the API does not take,
Prompts == Wizard \cup {"wizard_proceed", "mint_wizard", "mint_keys", "mint_keys_read", "mint_authority",
                        "mint_outputs", "kit"}

\* and those within a phase.
Telling(p) ==
  \/ p = "none" /\ at \in {"backup_browsers", "mint_browsers"}
  \/ p = "plan" /\ at \in {"backup_plan", "mint_plan", "recover_plan", "inspect"}
  \/ p = "input" /\ at = "backup_inputs"
  \/ p = "backup" /\ at = "prepare"
  \/ p = "prepare" /\ at = "envelope"
  \/ p = "encrypt" /\ at = "encrypt"
  \/ p = "shard" /\ at \in {"split", "chunk", "inputs"}
  \/ p = "mint" /\ at = "mint_shards"
  \/ p = "decrypt" /\ at = "decrypt"
  \/ p = "render" /\ (at \in {"render", "mint_render", "result"} \/ (at \in {"commit", "report"} /\ ask.command # "recover"))
  \/ p = "write" /\ (at \in {"write", "config_report"} \/ (at \in {"commit", "report"} /\ ask.command = "recover"))
  \/ p = "load" /\ at = "config_read"
  \/ p = "validate" /\ at = "config_apply"

\* How the stream of a command that is over can look.
Ending ==
  \/ stream = <<>> /\ ((status = 0 /\ ask.help) \/ status \in {1, 130})
  \/ /\ Closed(stream, ask.command)
     /\ \/ status = 0 /\ stream[Len(stream)].type = "result"
        \/ status = 2 /\ \E code : code # "CANCELLED" /\ stream[Len(stream)] = ErrorEvent(code)
        \/ status = 130 /\ stream[Len(stream)] = ErrorEvent("CANCELLED")
  \/ /\ status = 130
     /\ \E s : Closed(s, ask.command) /\ s[Len(s)].type = "result" /\ stream = s \o <<ErrorEvent("CANCELLED")>>

Narrated ==
  /\ ~Api => stream = <<>>
  /\ Api => /\ at \notin Prompts
            /\ at \in Silent => stream = <<>>
            /\ \A p : Telling(p) => Open(stream, ask.command, p)
            /\ at = "return" => Closed(stream, ask.command) /\ stream[Len(stream)].type = "result"
            /\ at = "done" => Ending

\* A step is within one phase at most,
LEMMA OnePhase == \A p : \A r : Telling(p) /\ Telling(r) => p = r
BY DEF Telling

\* and outside the ends and the silent steps.
LEMMA TellingWhere == \A p : Telling(p) => at \notin Silent \cup Prompts \cup {"return", "done"}
BY DEF Telling, Silent, Prompts, Boot, Wizard

\* Every step of the API is silent, within a phase or at the end.
LEMMA Somewhere == ASSUME Path, at \notin Prompts
                   PROVE  at \in Silent \cup {"return", "done"} \/ \E p : Telling(p)
<1>1. CASE at \in {"backup_browsers", "mint_browsers"}
  BY <1>1 DEF Telling
<1>2. CASE at \in {"backup_plan", "mint_plan", "recover_plan", "inspect"}
  BY <1>2 DEF Telling
<1>3. CASE at \in {"backup_inputs", "prepare", "envelope", "encrypt", "mint_shards", "decrypt"}
  BY <1>3 DEF Telling
<1>4. CASE at \in {"split", "chunk", "inputs"}
  BY <1>4 DEF Telling
<1>5. CASE at \in {"render", "mint_render", "result"}
  BY <1>5 DEF Telling
<1>6. CASE at \in {"commit", "report"}
  <2>1. Telling("render") \/ Telling("write")
    BY <1>6 DEF Telling
  <2> QED BY <2>1
<1>7. CASE at \in {"write", "config_report", "config_read", "config_apply"}
  BY <1>7 DEF Telling
<1>8. CASE at \in Silent \cup {"return", "done"}
  BY <1>8
<1> QED
  BY <1>1, <1>2, <1>3, <1>4, <1>5, <1>6, <1>7, <1>8
  DEF Path, Scripted, Silent, Prompts, Boot, Wizard, Asking, Working, BackupSteps, MintSteps, MintAsking, RecoverSteps

\* The phases of the commands follow each other as the steps announce them.
LEMMA Leading ==
  /\ Leads("backup", "none", "plan") /\ Leads("backup", "plan", "input") /\ Leads("backup", "input", "backup")
  /\ Leads("backup", "backup", "prepare") /\ Leads("backup", "prepare", "encrypt")
  /\ Leads("backup", "encrypt", "shard") /\ Leads("backup", "shard", "render")
  /\ Leads("mint", "none", "plan") /\ Leads("mint", "plan", "mint") /\ Leads("mint", "mint", "render")
  /\ Leads("recover", "none", "plan") /\ Leads("recover", "plan", "decrypt") /\ Leads("recover", "decrypt", "write")
  /\ Leads("inspect_recover", "none", "plan") /\ Leads("inspect_recover", "plan", "decrypt")
  /\ Leads("inspect_mint", "none", "plan")
  /\ Leads("config_get", "none", "load")
  /\ Leads("config_set", "none", "validate") /\ Leads("config_set", "validate", "write")
<1>1. /\ Leads("backup", "none", "plan") /\ Leads("backup", "plan", "input") /\ Leads("backup", "input", "backup")
      /\ Leads("backup", "backup", "prepare") /\ Leads("backup", "prepare", "encrypt")
      /\ Leads("backup", "encrypt", "shard") /\ Leads("backup", "shard", "render")
  <2>1. Phases("backup") = <<"plan", "input", "backup", "prepare", "encrypt", "shard", "render">>
    BY DEF Phases
  <2> DEFINE s == Phases("backup")
  <2>2. /\ DOMAIN s = 1 .. 7 /\ s[1] = "plan" /\ s[2] = "input" /\ s[3] = "backup" /\ s[4] = "prepare"
        /\ s[5] = "encrypt" /\ s[6] = "shard" /\ s[7] = "render"
    BY <2>1
  <2> HIDE DEF s
  <2>3. \A k \in 2 .. 7 : k \in DOMAIN s /\ k # 1 /\ k - 1 \in 1 .. 6
    BY <2>2
  <2>4. \A k \in 2 .. 7 : Leads("backup", s[k - 1], s[k])
    BY <2>3, Zenon DEF Leads, s
  <2>5. Leads("backup", "none", s[1])
    <3>1. 1 \in DOMAIN s
      BY <2>2
    <3> QED BY <3>1, Zenon DEF Leads, s
  <2>6. /\ Leads("backup", s[1], s[2]) /\ Leads("backup", s[2], s[3]) /\ Leads("backup", s[3], s[4])
        /\ Leads("backup", s[4], s[5]) /\ Leads("backup", s[5], s[6]) /\ Leads("backup", s[6], s[7])
    BY <2>4
  <2> QED BY <2>2, <2>5, <2>6
<1>2. Leads("mint", "none", "plan") /\ Leads("mint", "plan", "mint") /\ Leads("mint", "mint", "render")
  <2>1. Phases("mint") = <<"plan", "mint", "render">>
    BY DEF Phases
  <2> DEFINE s == Phases("mint")
  <2>2. DOMAIN s = 1 .. 3 /\ s[1] = "plan" /\ s[2] = "mint" /\ s[3] = "render"
    BY <2>1
  <2> HIDE DEF s
  <2>3. \A k \in 2 .. 3 : k \in DOMAIN s /\ k # 1
    BY <2>2
  <2>4. \A k \in 2 .. 3 : Leads("mint", s[k - 1], s[k])
    BY <2>3, Zenon DEF Leads, s
  <2>5. Leads("mint", "none", s[1])
    <3>1. 1 \in DOMAIN s
      BY <2>2
    <3> QED BY <3>1, Zenon DEF Leads, s
  <2>6. Leads("mint", s[1], s[2]) /\ Leads("mint", s[2], s[3])
    BY <2>4
  <2> QED BY <2>2, <2>5, <2>6
<1>3. Leads("recover", "none", "plan") /\ Leads("recover", "plan", "decrypt") /\ Leads("recover", "decrypt", "write")
  <2>1. Phases("recover") = <<"plan", "decrypt", "write">>
    BY DEF Phases
  <2> DEFINE s == Phases("recover")
  <2>2. DOMAIN s = 1 .. 3 /\ s[1] = "plan" /\ s[2] = "decrypt" /\ s[3] = "write"
    BY <2>1
  <2> HIDE DEF s
  <2>3. \A k \in 2 .. 3 : k \in DOMAIN s /\ k # 1
    BY <2>2
  <2>4. \A k \in 2 .. 3 : Leads("recover", s[k - 1], s[k])
    BY <2>3, Zenon DEF Leads, s
  <2>5. Leads("recover", "none", s[1])
    <3>1. 1 \in DOMAIN s
      BY <2>2
    <3> QED BY <3>1, Zenon DEF Leads, s
  <2>6. Leads("recover", s[1], s[2]) /\ Leads("recover", s[2], s[3])
    BY <2>4
  <2> QED BY <2>2, <2>5, <2>6
<1>4. Leads("inspect_recover", "none", "plan") /\ Leads("inspect_recover", "plan", "decrypt")
  BY DEF Leads, Phases
<1>5. Leads("inspect_mint", "none", "plan")
  BY DEF Leads, Phases
<1>6. Leads("config_get", "none", "load")
  BY DEF Leads, Phases
<1>7. Leads("config_set", "none", "validate") /\ Leads("config_set", "validate", "write")
  BY DEF Leads, Phases
<1> QED BY <1>1, <1>2, <1>3, <1>4, <1>5, <1>6, <1>7

\* A step into a phase, with the stream open in it, keeps the invariant,
LEMMA IntoPhase ==
  ASSUME Api, ask' = ask, NEW q, Telling(q)', Open(stream', ask.command, q)
  PROVE  Narrated'
<1>1. \A p : Telling(p)' => p = q
  <2>1. (\A p : \A r : Telling(p) /\ Telling(r) => p = r)'
    BY OnePhase, PTL
  <2> QED BY <2>1
<1>2. (at \notin Silent \cup Prompts \cup {"return", "done"})'
  <2>1. (\A p : Telling(p) => at \notin Silent \cup Prompts \cup {"return", "done"})'
    BY TellingWhere, PTL
  <2> QED BY <2>1
<1>3. Open(stream', ask'.command, q)
  OBVIOUS
<1>4. \A p : Telling(p)' => Open(stream', ask'.command, p)
  BY <1>1, <1>3
<1> QED BY <1>2, <1>4 DEF Narrated

\* and so does a silent one,
LEMMA IntoSilence ==
  ASSUME Api, ask' = ask, at' \in Silent, stream' = <<>>
  PROVE  Narrated'
<1>1. \A p : Telling(p)' => at' \notin Silent
  <2>1. (\A p : Telling(p) => at \notin Silent \cup Prompts \cup {"return", "done"})'
    BY TellingWhere, PTL
  <2> QED BY <2>1 DEF Silent, Boot
<1>2. at' \notin Prompts /\ at' \notin {"return", "done"}
  BY DEF Silent, Prompts, Boot, Wizard
<1> QED BY <1>1, <1>2 DEF Narrated, Silent, Boot, Prompts, Wizard

\* The staged and the published files are listed in order.
Listed == List(papers) /\ List(outputs)

\* Only a few steps write or publish files.
LEMMA FilesKept ==
  ASSUME Next, ~RenderDocument, ~RenderMinted, ~WriteRecovered, ~Commit, ~RenderKit
  PROVE  outputs' = outputs /\ (papers' = papers \/ papers' = <<>>)
<1>1. CASE Bootstrap
  BY <1>1, BootKeeps
<1>2. CASE BackupNext
  <2>1. CASE StartBackup \/ CheckInput \/ BackupBrowsers \/ ResolvePlan \/ LoadInputs \/ WizardStarts
    BY <2>1 DEF StartBackup, CheckInput, BackupBrowsers, ResolvePlan, LoadInputs, WizardStarts
  <2>2. CASE PromptRecovery
    BY <2>2, Zenon DEF PromptRecovery
  <2>3. CASE PromptEncryption \/ PromptLayout \/ PromptInputs \/ ShowReview \/ Proceed
    BY <2>3 DEF PromptEncryption, PromptLayout, PromptInputs, ShowReview, Proceed
  <2>4. CASE PreparePayload \/ PrepareEnvelope \/ EncryptPayload \/ CreateShards \/ ChunkAndStage \/ PrepareRender
    BY <2>4 DEF PreparePayload, PrepareEnvelope, EncryptPayload, CreateShards, ChunkAndStage, PrepareRender
  <2>5. CASE ReportBackup \/ BackupResult
    BY <2>5 DEF ReportBackup, BackupResult
  <2> QED BY <1>2, <2>1, <2>2, <2>3, <2>4, <2>5 DEF BackupNext
<1>3. CASE MintNext
  <2>1. CASE PromptOutputs
    BY <2>1, Zenon DEF PromptOutputs
  <2>2. CASE StartMint \/ MintBrowsers \/ LoadMint \/ MintFromPlan \/ ReportMint
    BY <2>2 DEF StartMint, MintBrowsers, LoadMint, MintFromPlan, ReportMint
  <2>3. CASE StartMintWizard \/ PromptKeys \/ ReadKeys \/ PromptAuthority
    BY <2>3 DEF StartMintWizard, PromptKeys, ReadKeys, PromptAuthority
  <2> QED BY <1>3, <2>1, <2>2, <2>3 DEF MintNext
<1>4. CASE Scripts
  <2>1. CASE StartRecover \/ PlanRecovery \/ DecryptAndExtract \/ ReportRecovery
    BY <2>1 DEF StartRecover, PlanRecovery, DecryptAndExtract, ReportRecovery
  <2>2. CASE StartRecoverInspection \/ StartMintInspection \/ InspectRecovery \/ InspectMint
    BY <2>2 DEF StartRecoverInspection, StartMintInspection, InspectRecovery, InspectMint
  <2>3. CASE ConfigGet \/ ReadSettings \/ ConfigSet \/ ApplyPatch \/ ReportSettings
    BY <2>3 DEF ConfigGet, ReadSettings, ConfigSet, ApplyPatch, ReportSettings
  <2> QED BY <1>4, <2>1, <2>2, <2>3 DEF Scripts
<1>5. CASE Return \/ Breaks \/ Interrupt
  BY <1>5, EndMoves
<1> QED BY <1>1, <1>2, <1>3, <1>4, <1>5 DEF Next

\* A list and one more.
LEMMA OneMore == ASSUME NEW s, NEW e, List(s) PROVE List(Append(s, e))
<1> DEFINE m == Len(s)
<1>1. m \in Nat /\ s = [i \in 1 .. m |-> s[i]]
  BY DEF List
<1> HIDE DEF m
<1>2. Append(s, e) = [i \in 1 .. m + 1 |-> IF i = m + 1 THEN e ELSE s[i]]
  BY <1>1
<1>3. Append(s, e) = [i \in 1 .. m + 1 |-> Append(s, e)[i]] /\ m + 1 \in Nat
  BY <1>1, <1>2
<1>4. Len(Append(s, e)) = m + 1
  BY <1>3, LenOf
<1> QED BY <1>3, <1>4 DEF List

\* Files are written one by one and published together.
LEMMA ListedStep == ASSUME Listed, [Next]_vars PROVE Listed'
<1>a. List(<<>>)
  BY DEF List
<1> SUFFICES ASSUME Next PROVE Listed'
  BY DEF Listed, List, vars
<1>1. CASE RenderDocument
  <2>1. outputs' = outputs /\ (papers' = papers \/ papers' = Append(papers, Documents(plan)[Len(papers) + 1]))
    BY <1>1 DEF RenderDocument
  <2> QED BY <2>1, OneMore DEF Listed, List
<1>2. CASE RenderMinted
  <2>1. outputs' = outputs /\ (papers' = papers \/ papers' = Append(papers, MintedDocuments(plan)[Len(papers) + 1]))
    BY <1>2 DEF RenderMinted
  <2> QED BY <2>1, OneMore DEF Listed, List
<1>3. CASE WriteRecovered
  <2>1. outputs' = outputs /\ (papers' = papers \/ papers' = Append(papers, Recovered(Len(papers) + 1)))
    BY <1>3 DEF WriteRecovered
  <2> QED BY <2>1, OneMore DEF Listed, List
<1>4. CASE Commit
  BY <1>4, <1>a DEF Commit, Listed, List
<1>5. CASE RenderKit
  <2>1. papers' = papers /\ outputs' = <<[kind |-> "kit", index |-> 1, dir |-> Merged(ask.opts.output, Unset)]>>
    BY <1>5 DEF RenderKit
  <2> QED BY <2>1, ListOfOne DEF Listed, List
<1>6. CASE ~RenderDocument /\ ~RenderMinted /\ ~WriteRecovered /\ ~Commit /\ ~RenderKit
  BY <1>6, <1>a, FilesKept DEF Listed, List
<1> QED BY <1>1, <1>2, <1>3, <1>4, <1>5, <1>6

\* An error of any kind ends the stream,
LEMMA Erring ==
  ASSUME Narrated, Api, at \in Silent \/ \E p : Telling(p), NEW code
  PROVE  LET u == stream \o <<ErrorEvent(code)>>
         IN  Closed(u, ask.command) /\ u[Len(u)] = ErrorEvent(code)
<1>1. CASE at \in Silent
  <2>1. stream = <<>>
    BY <1>1 DEF Narrated
  <2> QED BY <2>1, FailsAtOnce
<1>2. ASSUME NEW p, Telling(p)
      PROVE  LET u == stream \o <<ErrorEvent(code)>>
             IN  Closed(u, ask.command) /\ u[Len(u)] = ErrorEvent(code)
  <2>1. Open(stream, ask.command, p)
    BY <1>2 DEF Narrated
  <2>2. Terminal(ErrorEvent(code))
    BY DEF Terminal, ErrorEvent
  <2> DEFINE e == ErrorEvent(code)
  <2> HIDE DEF e
  <2>3. Closed(stream \o <<e>>, ask.command) /\ Len(stream \o <<e>>) = Len(stream) + 1
        /\ (stream \o <<e>>)[Len(stream) + 1] = e
    BY <2>1, <2>2, OpenEnds DEF e
  <2> QED BY <2>3 DEF e
<1> QED BY <1>1, <1>2

\* an exception with exit code 2,
LEMMA Failing ==
  ASSUME Narrated, Api, at \in Silent \/ \E p : Telling(p), ask' = ask,
         NEW code, code # "CANCELLED", Raises(code)
  PROVE  Narrated'
<1> DEFINE u == stream \o <<ErrorEvent(code)>>
<1>1. stream' = u /\ at' = "done" /\ status' = 2
  BY DEF Emit
<1>2. Closed(u, ask.command) /\ u[Len(u)] = ErrorEvent(code)
  BY Erring
<1> HIDE DEF u
<1>3. Ending'
  BY <1>1, <1>2 DEF Ending
<1>4. ~(\E p : Telling(p)')
  BY <1>1 DEF Telling
<1> QED BY <1>1, <1>3, <1>4 DEF Narrated, Silent, Prompts, Boot, Wizard

\* a cancellation with 130, before the command without an event, and after the result too.
LEMMA Cancelling ==
  ASSUME Path, Narrated, Api, Interrupt
  PROVE  Narrated'
<1> DEFINE u == stream \o <<ErrorEvent("CANCELLED")>>
<1>1. at' = "done" /\ status' = 130 /\ ask' = ask /\ at # "done"
  BY DEF Interrupt, Path, Ended
<1>2. Ending'
  <2>1. CASE at \in Boot
    <3>1. at \in Silent /\ stream' = stream
      BY <2>1 DEF Interrupt, Silent
    <3> QED BY <1>1, <3>1 DEF Narrated, Ending
  <2>2. CASE at \notin Boot
    <3>1. stream' = u
      BY <2>2 DEF Interrupt, Emit
    <3>2. CASE at = "return"
      <4>1. Closed(stream, ask.command) /\ stream[Len(stream)].type = "result"
        BY <3>2 DEF Narrated
      <4>2. status' = 130 /\ \E s : Closed(s, ask'.command) /\ s[Len(s)].type = "result" /\ stream' = s \o <<ErrorEvent("CANCELLED")>>
        BY <4>1, <1>1, <3>1
      <4> QED BY <4>2, Zenon DEF Ending
    <3>3. CASE at # "return"
      <4>1. at \in Silent \/ \E p : Telling(p)
        BY <1>1, <3>3, Somewhere DEF Narrated
      <4>2. Closed(u, ask.command) /\ u[Len(u)] = ErrorEvent("CANCELLED")
        BY <4>1, Erring
      <4> HIDE DEF u
      <4> QED BY <1>1, <3>1, <4>2 DEF Ending
    <3> QED BY <3>2, <3>3
  <2> QED BY <2>1, <2>2
<1>3. ~(\E p : Telling(p)')
  BY <1>1 DEF Telling
<1> QED BY <1>1, <1>2, <1>3 DEF Narrated, Silent, Prompts, Boot, Wizard

\* The result ends the stream of a command that did what it was asked,
LEMMA Concluding ==
  ASSUME Api, ask' = ask, NEW s, NEW p, Open(s, ask.command, p), NEW e, e.type = "result",
         stream' = s \o <<e>>, at' = "return"
  PROVE  Narrated'
<1>1. Closed(s \o <<e>>, ask.command) /\ Len(s \o <<e>>) = Len(s) + 1 /\ (s \o <<e>>)[Len(s) + 1] = e
  BY OpenEnds DEF Terminal
<1>2. Closed(stream', ask'.command) /\ stream'[Len(stream')].type = "result"
  BY <1>1
<1>3. ~(\E p_1 : Telling(p_1)')
  BY DEF Telling
<1> QED BY <1>2, <1>3 DEF Narrated, Silent, Prompts, Boot, Wizard

\* after the files it published.
LEMMA Announcing ==
  ASSUME List(outputs), NEW p
  PROVE  LET t == [i \in DOMAIN outputs |-> Artifact(outputs[i])]
         IN  Within(t, p) /\ Len(t) = Len(outputs) /\ \A i \in 1 .. Len(t) : ~Terminal(t[i])
<1> DEFINE n == Len(outputs)
           t == [i \in DOMAIN outputs |-> Artifact(outputs[i])]
<1>1. n \in Nat /\ DOMAIN outputs = 1 .. n
  <2>1. n \in Nat /\ outputs = [i \in 1 .. n |-> outputs[i]]
    BY DEF List
  <2> HIDE DEF n
  <2> QED BY <2>1, LenOf
<1> HIDE DEF n
<1>2. t = [i \in 1 .. n |-> t[i]]
  BY <1>1
<1>3. \A i \in 1 .. n : t[i] = Artifact(outputs[i])
  BY <1>1
<1> HIDE DEF t
<1>4. Len(t) = n
  BY <1>1, <1>2, LenOf
<1>5. \A i \in 1 .. n : t[i].type = "artifact" /\ ~Terminal(t[i])
  <2>1. \A f : Artifact(f).type = "artifact"
    BY DEF Artifact
  <2> QED BY <1>3, <2>1 DEF Terminal
<1>6. List(t)
  BY <1>1, <1>2, <1>4 DEF List
<1> QED BY <1>4, <1>5, <1>6 DEF Within, t, n

\* Outside the API nothing is said.
LEMMA Mute == ASSUME ~Api, Next PROVE stream' = stream
<1> USE DEF Emit
<1>1. CASE Bootstrap
  <2>1. CASE Main
    BY <2>1 DEF Main
  <2>2. CASE Startup
    BY <2>2 DEF Startup
  <2>3. CASE Onboarding
    BY <2>3 DEF Onboarding
  <2>4. CASE DefaultsPath \/ LoadDefaults \/ Dispatch
    BY <2>4 DEF DefaultsPath, LoadDefaults, Dispatch
  <2> QED BY <1>1, <2>1, <2>2, <2>3, <2>4 DEF Bootstrap
<1>2. CASE BackupNext
  <2>1. CASE StartBackup \/ CheckInput \/ BackupBrowsers \/ LoadInputs \/ WizardStarts
    BY <2>1 DEF StartBackup, CheckInput, BackupBrowsers, LoadInputs, WizardStarts
  <2>2. CASE ResolvePlan
    BY <2>2 DEF ResolvePlan
  <2>3. CASE PromptRecovery
    <3>1. stream' = stream \/ Raises("INVALID_INPUT")
      BY <2>3, Zenon DEF PromptRecovery
    <3> QED BY <3>1
  <2>4. CASE PromptEncryption \/ PromptLayout \/ PromptInputs \/ ShowReview \/ Proceed
    BY <2>4 DEF PromptEncryption, PromptLayout, PromptInputs, ShowReview, Proceed
  <2>5. CASE PreparePayload \/ PrepareEnvelope \/ EncryptPayload \/ CreateShards \/ ChunkAndStage \/ PrepareRender
    BY <2>5 DEF PreparePayload, PrepareEnvelope, EncryptPayload, CreateShards, ChunkAndStage, PrepareRender
  <2>6. CASE RenderDocument \/ Commit \/ ReportBackup \/ BackupResult
    BY <2>6 DEF RenderDocument, Commit, ReportBackup, BackupResult
  <2> QED BY <1>2, <2>1, <2>2, <2>3, <2>4, <2>5, <2>6 DEF BackupNext
<1>3. CASE MintNext
  <2>1. CASE PromptOutputs
    BY <2>1 DEF PromptOutputs
  <2>2. CASE StartMint \/ MintBrowsers \/ LoadMint \/ MintFromPlan \/ RenderMinted \/ ReportMint
    BY <2>2 DEF StartMint, MintBrowsers, LoadMint, MintFromPlan, RenderMinted, ReportMint
  <2>3. CASE StartMintWizard \/ PromptKeys \/ ReadKeys \/ PromptAuthority
    BY <2>3 DEF StartMintWizard, PromptKeys, ReadKeys, PromptAuthority
  <2> QED BY <1>3, <2>1, <2>2, <2>3 DEF MintNext
<1>4. CASE Scripts
  <2>1. CASE StartRecover \/ PlanRecovery \/ DecryptAndExtract \/ WriteRecovered \/ ReportRecovery
    BY <2>1 DEF StartRecover, PlanRecovery, DecryptAndExtract, WriteRecovered, ReportRecovery
  <2>2. CASE StartRecoverInspection \/ StartMintInspection \/ InspectRecovery \/ InspectMint
    BY <2>2 DEF StartRecoverInspection, StartMintInspection, InspectRecovery, InspectMint
  <2>3. CASE ConfigGet \/ ReadSettings \/ ConfigSet \/ ApplyPatch \/ ReportSettings \/ RenderKit
    BY <2>3 DEF ConfigGet, ReadSettings, ConfigSet, ApplyPatch, ReportSettings, RenderKit
  <2> QED BY <1>4, <2>1, <2>2, <2>3 DEF Scripts
<1>5. CASE Return \/ Breaks \/ Interrupt
  BY <1>5 DEF Return, Breaks, Interrupt
<1> QED BY <1>1, <1>2, <1>3, <1>4, <1>5 DEF Next

\* A list of three and one of four from shorter ones.
LEMMA OneAfterTwo == ASSUME NEW a, NEW b, NEW d PROVE <<a, b, d>> = <<a, b>> \o <<d>>
<1> DEFINE s == <<a, b>>
           t == <<d>>
           x == s \o t
           y == <<a, b, d>>
<1>0. List(s) /\ List(t)
  BY DEF List
<1>1. Len(s) = 2 /\ s[1] = a /\ s[2] = b /\ Len(t) = 1 /\ t[1] = d
  OBVIOUS
<1> HIDE DEF s, t
<1>2. /\ List(x) /\ Len(x) = Len(s) + Len(t)
      /\ \A i \in 1 .. Len(s) : x[i] = s[i]
      /\ \A i \in 1 .. Len(t) : x[Len(s) + i] = t[i]
  BY <1>0, ListsJoin
<1>3. x = [i \in 1 .. 3 |-> x[i]] /\ x[1] = a /\ x[2] = b /\ x[3] = d
  <2> HIDE DEF x
  <2> QED BY <1>1, <1>2 DEF List
<1>4. y = [i \in 1 .. 3 |-> y[i]] /\ y[1] = a /\ y[2] = b /\ y[3] = d
  OBVIOUS
<1> HIDE DEF x, y
<1>5. \A i \in 1 .. 3 : x[i] = y[i]
  BY <1>3, <1>4
<1>6. x = y
  BY <1>3, <1>4, <1>5, Zenon
<1> QED BY <1>6 DEF s, t, x, y

\* Two and two.
LEMMA TwoAfterTwo == ASSUME NEW a, NEW b, NEW d, NEW e PROVE <<a, b, d, e>> = <<a, b>> \o <<d, e>>
<1> DEFINE s == <<a, b>>
           t == <<d, e>>
           x == s \o t
           y == <<a, b, d, e>>
<1>0. List(s) /\ List(t)
  BY DEF List
<1>1. Len(s) = 2 /\ s[1] = a /\ s[2] = b /\ Len(t) = 2 /\ t[1] = d /\ t[2] = e
  OBVIOUS
<1> HIDE DEF s, t
<1>2. /\ List(x) /\ Len(x) = Len(s) + Len(t)
      /\ \A i \in 1 .. Len(s) : x[i] = s[i]
      /\ \A i \in 1 .. Len(t) : x[Len(s) + i] = t[i]
  BY <1>0, ListsJoin
<1>3. x = [i \in 1 .. 4 |-> x[i]] /\ x[1] = a /\ x[2] = b /\ x[3] = d /\ x[4] = e
  <2> HIDE DEF x
  <2> QED BY <1>1, <1>2 DEF List
<1>4. y = [i \in 1 .. 4 |-> y[i]] /\ y[1] = a /\ y[2] = b /\ y[3] = d /\ y[4] = e
  OBVIOUS
<1> HIDE DEF x, y
<1>5. \A i \in 1 .. 4 : x[i] = y[i]
  BY <1>3, <1>4
<1>6. x = y
  BY <1>3, <1>4, <1>5, Zenon
<1> QED BY <1>6 DEF s, t, x, y

\* The command that takes a step.
LEMMA CommandOf ==
  ASSUME Path
  PROVE  /\ at \in BackupSteps \ {"commit", "report"} => ask.command = "backup"
         /\ at \in MintSteps \ {"commit", "report"} => ask.command = "mint"
         /\ at \in RecoverSteps \ {"commit", "report"} => ask.command = "recover"
         /\ at = "inspect_recover" => ask.command = "inspect_recover"
         /\ at = "inspect_mint" => ask.command = "inspect_mint"
         /\ at \in {"config_get", "config_read"} => ask.command = "config_get"
         /\ at \in {"config_set", "config_apply", "config_report"} => ask.command = "config_set"
         /\ at \in {"commit", "report"} => ask.command \in {"backup", "mint", "recover"}
         /\ ask \in Invocations /\ ask.command \in Commands /\ (Api => ask.command # "kit")
<1>1. ask \in Invocations /\ ask.command \in Commands /\ (Api => ask.command # "kit")
  BY InvocationsAssumption DEF Path
<1> QED
  BY <1>1 DEF Path, Scripted, Boot, Wizard, Asking, Working, BackupSteps, MintSteps, MintAsking, RecoverSteps

\* The steps of the start,
LEMMA BootStory == ASSUME Path, Narrated, Api, ask' = ask, Bootstrap PROVE Narrated'
<1>1. at \in Silent /\ stream = <<>>
  BY BootKeeps DEF Silent, Narrated
<1>2. ASSUME NEW code, code # "CANCELLED", Raises(code) PROVE Narrated'
  BY <1>1, <1>2, Failing
<1>3. ASSUME at' \in Silent, stream' = stream PROVE Narrated'
  BY <1>1, <1>3, IntoSilence
<1>4. ASSUME at' = "done", stream' = stream, (status' = 0 /\ ask.help) \/ status' = 1 PROVE Narrated'
  <2>1. Ending'
    BY <1>1, <1>4 DEF Ending
  <2>2. ~(\E p : Telling(p)')
    BY <1>4 DEF Telling
  <2> QED BY <1>4, <2>1, <2>2 DEF Narrated, Silent, Prompts, Boot, Wizard
<1>5. CASE Main
  <2>1. Raises("INVALID_INPUT") \/ (at' = "defaults_path" /\ stream' = stream)
    BY <1>5 DEF Main
  <2>2. "defaults_path" \in Silent
    BY DEF Silent, Boot
  <2> QED BY <2>1, <2>2, <1>2, <1>3
<1>6. CASE Startup \/ Onboarding
  BY <1>6 DEF Startup, Onboarding, Path, Careful
<1>7. CASE DefaultsPath
  <2>1. (at' \in {"context", "defaults"} /\ stream' = stream) \/ (at' = "done" /\ status' = 1 /\ stream' = stream)
    BY <1>7 DEF DefaultsPath
  <2>2. {"context", "defaults"} \subseteq Silent
    BY DEF Silent, Boot
  <2> QED BY <2>1, <2>2, <1>3, <1>4
<1>8. CASE LoadDefaults
  <2>1. Raises("INVALID_INPUT") \/ (at' = "context" /\ stream' = stream)
    BY <1>8 DEF LoadDefaults
  <2>2. "context" \in Silent
    BY DEF Silent, Boot
  <2> QED BY <2>1, <2>2, <1>2, <1>3
<1>9. CASE Dispatch
  <2>1. \/ at' = "done" /\ status' = 0 /\ ask.help /\ stream' = stream
        \/ Raises("NO_SUBCOMMAND")
        \/ at' = ask.command /\ stream' = stream
    BY <1>9 DEF Dispatch
  <2>2. ask.command \in Silent
    BY CommandOf DEF Silent, Commands
  <2> QED BY <2>1, <2>2, <1>2, <1>3, <1>4
<1> QED BY <1>5, <1>6, <1>7, <1>8, <1>9 DEF Bootstrap


\* of a backup,
LEMMA BackupStory == ASSUME Path, Listed, Narrated, Api, ask' = ask, BackupNext PROVE Narrated'
<1>a. ASSUME NEW code, code # "CANCELLED", Raises(code), at \in Silent PROVE Narrated'
  BY <1>a, Failing
<1>b. ASSUME NEW code, code # "CANCELLED", Raises(code), NEW p, Telling(p) PROVE Narrated'
  BY <1>b, Failing
<1>1. CASE StartBackup
  <2>1. at = "backup" /\ (Raises("INVALID_INPUT") \/ (at' = "backup_input" /\ stream' = stream))
    BY <1>1 DEF StartBackup
  <2>2. at \in Silent /\ "backup_input" \in Silent /\ stream = <<>>
    BY <2>1 DEF Silent, Narrated
  <2> QED BY <2>1, <2>2, <1>a, IntoSilence
<1>2. CASE CheckInput
  <2>1. at = "backup_input" /\ (Raises("INPUT_REQUIRED") \/ (at' = "backup_browsers" /\ stream' = stream \o <<Started>>))
    BY <1>2 DEF CheckInput, NeedsWizard, Emit
  <2>2. at \in Silent /\ stream = <<>>
    BY <2>1 DEF Silent, Narrated
  <2>3. CASE at' = "backup_browsers" /\ stream' = stream \o <<Started>>
    <3>1. stream' = <<Started>> /\ Telling("none")'
      BY <2>2, <2>3 DEF Telling
    <3> QED BY <3>1, Begins, IntoPhase
  <2> QED BY <2>1, <2>2, <2>3, <1>a
<1>3. CASE BackupBrowsers
  <2>1. at = "backup_browsers" /\ at' = "backup_plan" /\ stream' = stream \o <<Phase("plan")>>
    BY <1>3 DEF BackupBrowsers, Emit
  <2>2. Telling("none") /\ Telling("plan")'
    BY <2>1 DEF Telling
  <2>3. ask.command = "backup"
    BY <2>1, CommandOf DEF BackupSteps, Asking, Working
  <2>4. Open(stream, ask.command, "none") /\ Leads(ask.command, "none", "plan")
    BY <2>2, <2>3, Leading DEF Narrated
  <2>5. Open(stream', ask.command, "plan")
    BY <2>1, <2>4, OpenTurns
  <2> QED BY <2>2, <2>5, IntoPhase
<1>4. CASE ResolvePlan
  <2>1. /\ at = "backup_plan"
        /\ \/ Raises("INVALID_INPUT")
           \/ /\ at' = "backup_inputs"
              /\ \/ stream' = stream \o (<<Warning("SIGNING_KEY_SHARDING_DISABLED")>> \o <<Phase("input")>>)
                 \/ stream' = stream \o (<<>> \o <<Phase("input")>>)
    BY <1>4 DEF ResolvePlan, Emit
  <2>2. Telling("plan")
    BY <2>1 DEF Telling
  <2>3. ask.command = "backup"
    BY <2>1, CommandOf DEF BackupSteps, Asking, Working
  <2>4. Open(stream, ask.command, "plan") /\ Leads(ask.command, "plan", "input")
    BY <2>2, <2>3, Leading DEF Narrated
  <2>5. CASE at' = "backup_inputs"
             /\ stream' = stream \o (<<Warning("SIGNING_KEY_SHARDING_DISABLED")>> \o <<Phase("input")>>)
    <3> DEFINE e == Warning("SIGNING_KEY_SHARDING_DISABLED")
    <3>1. e.type = "warning" /\ ~Terminal(e)
      BY DEF Warning, Terminal
    <3> HIDE DEF e
    <3>2. Open(stream \o <<e>>, ask.command, "plan")
      BY <2>4, <3>1, Adds
    <3>3. Open((stream \o <<e>>) \o <<Phase("input")>>, ask.command, "input")
      BY <2>4, <3>2, OpenTurns
    <3>4. stream \o (<<e>> \o <<Phase("input")>>) = (stream \o <<e>>) \o <<Phase("input")>>
      BY <2>4, ListOfOne, JoinedAgain DEF Open
    <3>5. Open(stream', ask.command, "input")
      BY <2>5, <3>3, <3>4, Zenon DEF e
    <3>6. Telling("input")'
      BY <2>5 DEF Telling
    <3> QED BY <3>5, <3>6, IntoPhase
  <2>6. CASE at' = "backup_inputs" /\ stream' = stream \o (<<>> \o <<Phase("input")>>)
    <3>1. <<>> \o <<Phase("input")>> = <<Phase("input")>>
      OBVIOUS
    <3>2. Open(stream', ask.command, "input")
      BY <2>4, <2>6, <3>1, OpenTurns
    <3>3. Telling("input")'
      BY <2>6 DEF Telling
    <3> QED BY <3>2, <3>3, IntoPhase
  <2> QED BY <2>1, <2>2, <2>5, <2>6, <1>b
<1>5. CASE LoadInputs
  <2>1. at = "backup_inputs" /\ at' = "prepare" /\ stream' = stream \o <<Progress("input", 1, 1), Phase("backup")>>
    BY <1>5 DEF LoadInputs, Emit
  <2>2. Telling("input") /\ Telling("backup")'
    BY <2>1 DEF Telling
  <2>3. ask.command = "backup"
    BY <2>1, CommandOf DEF BackupSteps, Asking, Working
  <2>4. Open(stream, ask.command, "input") /\ Leads(ask.command, "input", "backup")
    BY <2>2, <2>3, Leading DEF Narrated
  <2>5. Open(stream', ask.command, "backup")
    BY <2>1, <2>4, Moves
  <2> QED BY <2>2, <2>5, IntoPhase
<1>6. CASE PreparePayload
  <2>1. at = "prepare" /\ at' = "envelope" /\ stream' = stream \o <<Phase("prepare")>>
    BY <1>6 DEF PreparePayload, Emit
  <2>2. Telling("backup") /\ Telling("prepare")'
    BY <2>1 DEF Telling
  <2>3. ask.command = "backup"
    BY <2>1, CommandOf DEF BackupSteps, Asking, Working
  <2>4. Open(stream, ask.command, "backup") /\ Leads(ask.command, "backup", "prepare")
    BY <2>2, <2>3, Leading DEF Narrated
  <2>5. Open(stream', ask.command, "prepare")
    BY <2>1, <2>4, OpenTurns
  <2> QED BY <2>2, <2>5, IntoPhase
<1>7. CASE PrepareEnvelope
  <2>1. at = "envelope" /\ at' = "encrypt" /\ stream' = stream \o <<Progress("prepare", 1, 1), Phase("encrypt")>>
    BY <1>7 DEF PrepareEnvelope, Emit
  <2>2. Telling("prepare") /\ Telling("encrypt")'
    BY <2>1 DEF Telling
  <2>3. ask.command = "backup"
    BY <2>1, CommandOf DEF BackupSteps, Asking, Working
  <2>4. Open(stream, ask.command, "prepare") /\ Leads(ask.command, "prepare", "encrypt")
    BY <2>2, <2>3, Leading DEF Narrated
  <2>5. Open(stream', ask.command, "encrypt")
    BY <2>1, <2>4, Moves
  <2> QED BY <2>2, <2>5, IntoPhase
<1>8. CASE EncryptPayload
  <2>1. at = "encrypt" /\ at' = "split" /\ stream' = stream \o <<Progress("encrypt", 1, 1), Phase("shard")>>
    BY <1>8 DEF EncryptPayload, Emit
  <2>2. Telling("encrypt") /\ Telling("shard")'
    BY <2>1 DEF Telling
  <2>3. ask.command = "backup"
    BY <2>1, CommandOf DEF BackupSteps, Asking, Working
  <2>4. Open(stream, ask.command, "encrypt") /\ Leads(ask.command, "encrypt", "shard")
    BY <2>2, <2>3, Leading DEF Narrated
  <2>5. Open(stream', ask.command, "shard")
    BY <2>1, <2>4, Moves
  <2> QED BY <2>2, <2>5, IntoPhase
<1>9. CASE CreateShards
  <2>1. at = "split" /\ at' = "chunk" /\ stream' = stream \o <<Progress("shard", ShardTotal, ShardTotal)>>
    BY <1>9 DEF CreateShards, Emit
  <2>2. Telling("shard") /\ Telling("shard")'
    BY <2>1 DEF Telling
  <2>3. Open(stream, ask.command, "shard")
    BY <2>2 DEF Narrated
  <2> DEFINE e == Progress("shard", ShardTotal, ShardTotal)
  <2>4. e.type = "progress" /\ e.phase = "shard" /\ ~Terminal(e)
    BY DEF Progress, Terminal
  <2>5. stream' = stream \o <<e>>
    BY <2>1
  <2> HIDE DEF e
  <2>6. Open(stream \o <<e>>, ask.command, "shard")
    BY <2>3, <2>4, Adds
  <2> QED BY <2>2, <2>5, <2>6, IntoPhase
<1>10. CASE ChunkAndStage
  <2>1. /\ at = "chunk" /\ at' = "inputs"
        /\ stream' = stream \o <<>> \/ stream' = stream \o <<Warning("BACKUP_QR_CHUNK_SIZE_REDUCED")>>
    BY <1>10 DEF ChunkAndStage, Emit
  <2>2. Telling("shard") /\ Telling("shard")'
    BY <2>1 DEF Telling
  <2>3. Open(stream, ask.command, "shard")
    BY <2>2 DEF Narrated
  <2>4. CASE stream' = stream \o <<>>
    <3>1. Within(<<>>, "shard") /\ \A i \in 1 .. Len(<<>>) : ~Terminal(<<>>[i])
      BY DEF Within, List
    <3>2. Open(stream', ask.command, "shard")
      BY <2>3, <2>4, <3>1, OpenGrows
    <3> QED BY <2>2, <3>2, IntoPhase
  <2>5. CASE stream' = stream \o <<Warning("BACKUP_QR_CHUNK_SIZE_REDUCED")>>
    <3> DEFINE e == Warning("BACKUP_QR_CHUNK_SIZE_REDUCED")
    <3>1. e.type = "warning" /\ ~Terminal(e)
      BY DEF Warning, Terminal
    <3>2. stream' = stream \o <<e>>
      BY <2>5
    <3> HIDE DEF e
    <3>3. Open(stream \o <<e>>, ask.command, "shard")
      BY <2>3, <3>1, Adds
    <3> QED BY <2>2, <3>2, <3>3, IntoPhase
  <2> QED BY <2>1, <2>4, <2>5
<1>11. CASE PrepareRender
  <2>1. at = "inputs" /\ at' = "render" /\ stream' = stream \o <<Phase("render")>>
    BY <1>11 DEF PrepareRender, Emit
  <2>2. Telling("shard") /\ Telling("render")'
    BY <2>1 DEF Telling
  <2>3. ask.command = "backup"
    BY <2>1, CommandOf DEF BackupSteps, Asking, Working
  <2>4. Open(stream, ask.command, "shard") /\ Leads(ask.command, "shard", "render")
    BY <2>2, <2>3, Leading DEF Narrated
  <2>5. Open(stream', ask.command, "render")
    BY <2>1, <2>4, OpenTurns
  <2> QED BY <2>2, <2>5, IntoPhase
<1>12. CASE RenderDocument
  <2>1. /\ at = "render"
        /\ \/ at' = "render" /\ stream' = stream \o <<Progress("render", Len(papers) + 1, Len(Documents(plan)))>>
           \/ at' = "commit" /\ stream' = stream
    BY <1>12 DEF RenderDocument, Emit
  <2>3. ask.command = "backup"
    BY <2>1, CommandOf DEF BackupSteps, Asking, Working
  <2>4. Telling("render") /\ Telling("render")'
    BY <2>1, <2>3 DEF Telling
  <2>5. Open(stream, ask.command, "render")
    BY <2>4 DEF Narrated
  <2> DEFINE e == Progress("render", Len(papers) + 1, Len(Documents(plan)))
  <2>6. e.type = "progress" /\ e.phase = "render" /\ ~Terminal(e)
    BY DEF Progress, Terminal
  <2>7. stream' = stream \o <<e>> \/ stream' = stream
    BY <2>1
  <2> HIDE DEF e
  <2>8. Open(stream \o <<e>>, ask.command, "render")
    BY <2>5, <2>6, Adds
  <2> QED BY <2>4, <2>5, <2>7, <2>8, IntoPhase
<1>13. CASE Commit
  <2>1. at = "commit" /\ at' = "report" /\ stream' = stream
    BY <1>13 DEF Commit
  <2>2. \E p \in {"render", "write"} : Telling(p) /\ Telling(p)'
    BY <2>1 DEF Telling
  <2>3. PICK p \in {"render", "write"} : Telling(p) /\ Telling(p)'
    BY <2>2
  <2>4. Open(stream', ask.command, p)
    BY <2>1, <2>3 DEF Narrated
  <2> QED BY <2>3, <2>4, IntoPhase
<1>14. CASE ReportBackup
  <2> DEFINE t == [i \in DOMAIN outputs |-> Artifact(outputs[i])]
  <2>1. at = "report" /\ at' = "result" /\ stream' = stream \o t /\ ask.command = "backup"
    BY <1>14 DEF ReportBackup, Emit
  <2>2. Telling("render") /\ Telling("render")'
    BY <2>1 DEF Telling
  <2>3. Open(stream, ask.command, "render")
    BY <2>2 DEF Narrated
  <2>4. Within(t, "render") /\ \A i \in 1 .. Len(t) : ~Terminal(t[i])
    BY Announcing DEF Listed
  <2> HIDE DEF t
  <2>5. Open(stream', ask.command, "render")
    BY <2>1, <2>3, <2>4, OpenGrows
  <2> QED BY <2>2, <2>5, IntoPhase
<1>15. CASE BackupResult
  <2>1. at = "result" /\ at' = "return" /\ stream' = stream \o <<Result(BackupSummary(plan))>>
    BY <1>15 DEF BackupResult, Emit
  <2>2. Telling("render")
    BY <2>1 DEF Telling
  <2>3. Open(stream, ask.command, "render")
    BY <2>2 DEF Narrated
  <2>4. Result(BackupSummary(plan)).type = "result"
    BY DEF Result
  <2> QED BY <2>1, <2>3, <2>4, Concluding
<1>16. CASE WizardStarts \/ PromptEncryption \/ PromptRecovery \/ PromptLayout \/ PromptInputs \/ ShowReview \/ Proceed
  BY <1>16 DEF WizardStarts, PromptEncryption, PromptRecovery, PromptLayout, PromptInputs, ShowReview, Proceed,
    Narrated, Prompts, Wizard
<1> QED BY <1>1, <1>2, <1>3, <1>4, <1>5, <1>6, <1>7, <1>8, <1>9, <1>10, <1>11, <1>12, <1>13, <1>14, <1>15, <1>16 DEF BackupNext

\* of a mint,
LEMMA MintStory == ASSUME Path, Listed, Narrated, Api, ask' = ask, MintNext PROVE Narrated'
<1>a. ASSUME NEW code, code # "CANCELLED", Raises(code), at \in Silent PROVE Narrated'
  BY <1>a, Failing
<1>b. ASSUME NEW code, code # "CANCELLED", Raises(code), NEW p, Telling(p) PROVE Narrated'
  BY <1>b, Failing
<1>1. CASE StartMint
  <2>1. at = "mint" /\ (Raises("INVALID_INPUT") \/ (at' = "mint_browsers" /\ stream' = stream \o <<Started>>))
    BY <1>1 DEF StartMint, MintWizard, Emit
  <2>2. at \in Silent /\ stream = <<>>
    BY <2>1 DEF Silent, Narrated
  <2>3. CASE at' = "mint_browsers" /\ stream' = stream \o <<Started>>
    <3>1. stream' = <<Started>> /\ Telling("none")'
      BY <2>2, <2>3 DEF Telling
    <3> QED BY <3>1, Begins, IntoPhase
  <2> QED BY <2>1, <2>2, <2>3, <1>a
<1>2. CASE MintBrowsers
  <2>1. at = "mint_browsers" /\ at' = "mint_plan" /\ stream' = stream \o <<Phase("plan")>>
    BY <1>2 DEF MintBrowsers, Emit
  <2>2. Telling("none") /\ Telling("plan")'
    BY <2>1 DEF Telling
  <2>3. ask.command = "mint"
    BY <2>1, CommandOf DEF MintSteps, MintAsking
  <2>4. Open(stream, ask.command, "none") /\ Leads(ask.command, "none", "plan")
    BY <2>2, <2>3, Leading DEF Narrated
  <2>5. Open(stream', ask.command, "plan")
    BY <2>1, <2>4, OpenTurns
  <2> QED BY <2>2, <2>5, IntoPhase
<1>3. CASE LoadMint
  <2>1. /\ at = "mint_plan"
        /\ \/ Raises("INVALID_INPUT")
           \/ at' = "mint_shards" /\ stream' = stream \o <<Progress("plan", 1, 1), Phase("mint")>>
    BY <1>3 DEF LoadMint, Emit
  <2>2. Telling("plan")
    BY <2>1 DEF Telling
  <2>3. ask.command = "mint"
    BY <2>1, CommandOf DEF MintSteps, MintAsking
  <2>4. Open(stream, ask.command, "plan") /\ Leads(ask.command, "plan", "mint")
    BY <2>2, <2>3, Leading DEF Narrated
  <2>5. CASE at' = "mint_shards" /\ stream' = stream \o <<Progress("plan", 1, 1), Phase("mint")>>
    <3>1. Telling("mint")'
      BY <2>5 DEF Telling
    <3>2. Open(stream', ask.command, "mint")
      BY <2>4, <2>5, Moves
    <3> QED BY <3>1, <3>2, IntoPhase
  <2> QED BY <2>1, <2>2, <2>5, <1>b
<1>4. CASE MintFromPlan
  <2>1. /\ at = "mint_shards"
        /\ \/ Raises("INVALID_INPUT")
           \/ at' = "mint_render" /\ stream' = stream \o <<Progress("mint", 1, 1), Phase("render")>>
    BY <1>4 DEF MintFromPlan, Emit
  <2>2. Telling("mint")
    BY <2>1 DEF Telling
  <2>3. ask.command = "mint"
    BY <2>1, CommandOf DEF MintSteps, MintAsking
  <2>4. Open(stream, ask.command, "mint") /\ Leads(ask.command, "mint", "render")
    BY <2>2, <2>3, Leading DEF Narrated
  <2>5. CASE at' = "mint_render" /\ stream' = stream \o <<Progress("mint", 1, 1), Phase("render")>>
    <3>1. Telling("render")'
      BY <2>5 DEF Telling
    <3>2. Open(stream', ask.command, "render")
      BY <2>4, <2>5, Moves
    <3> QED BY <3>1, <3>2, IntoPhase
  <2> QED BY <2>1, <2>2, <2>5, <1>b
<1>5. CASE RenderMinted
  <2>1. /\ at = "mint_render"
        /\ \/ at' = "mint_render" /\ stream' = stream \o <<Progress("render", Len(papers) + 1, Len(MintedDocuments(plan)))>>
           \/ at' = "commit" /\ stream' = stream
    BY <1>5 DEF RenderMinted, Emit
  <2>3. ask.command = "mint"
    BY <2>1, CommandOf DEF MintSteps, MintAsking
  <2>4. Telling("render") /\ Telling("render")'
    BY <2>1, <2>3 DEF Telling
  <2>5. Open(stream, ask.command, "render")
    BY <2>4 DEF Narrated
  <2> DEFINE e == Progress("render", Len(papers) + 1, Len(MintedDocuments(plan)))
  <2>6. e.type = "progress" /\ e.phase = "render" /\ ~Terminal(e)
    BY DEF Progress, Terminal
  <2>7. stream' = stream \o <<e>> \/ stream' = stream
    BY <2>1
  <2> HIDE DEF e
  <2>8. Open(stream \o <<e>>, ask.command, "render")
    BY <2>5, <2>6, Adds
  <2> QED BY <2>4, <2>5, <2>7, <2>8, IntoPhase
<1>6. CASE ReportMint
  <2> DEFINE t == [i \in DOMAIN outputs |-> Artifact(outputs[i])]
           e == Result(MintSummary)
  <2>1. at = "report" /\ at' = "return" /\ stream' = stream \o (t \o <<e>>) /\ ask.command = "mint"
    BY <1>6 DEF ReportMint, Emit
  <2>2. Telling("render")
    BY <2>1 DEF Telling
  <2>3. Open(stream, ask.command, "render")
    BY <2>2 DEF Narrated
  <2>4. Within(t, "render") /\ \A i \in 1 .. Len(t) : ~Terminal(t[i])
    BY Announcing DEF Listed
  <2>5. e.type = "result"
    BY DEF Result
  <2> HIDE DEF t, e
  <2>6. Open(stream \o t, ask.command, "render")
    BY <2>3, <2>4, OpenGrows
  <2>7. stream \o (t \o <<e>>) = (stream \o t) \o <<e>>
    BY <2>3, <2>4, ListOfOne, JoinedAgain DEF Open, Within
  <2> QED BY <2>1, <2>5, <2>6, <2>7, Concluding
<1>7. CASE StartMintWizard \/ PromptKeys \/ ReadKeys \/ PromptAuthority \/ PromptOutputs
  <2>1. at \in Prompts
    BY <1>7 DEF StartMintWizard, PromptKeys, ReadKeys, PromptAuthority, PromptOutputs, Prompts
  <2> QED BY <2>1 DEF Narrated
<1> QED BY <1>1, <1>2, <1>3, <1>4, <1>5, <1>6, <1>7 DEF MintNext

\* The files of a recovery are written in the phase of that name.
LEMMA Writing ==
  ASSUME List(outputs)
  PROVE  Within(WrittenEvents, "write") /\ Len(WrittenEvents) = Len(outputs)
         /\ \A i \in 1 .. Len(WrittenEvents) : ~Terminal(WrittenEvents[i])
<1> DEFINE n == Len(outputs)
           t == WrittenEvents
<1>1. n \in Nat /\ DOMAIN outputs = 1 .. n
  <2>1. n \in Nat /\ outputs = [i \in 1 .. n |-> outputs[i]]
    BY DEF List
  <2> HIDE DEF n
  <2> QED BY <2>1, LenOf
<1>2. t = [i \in 1 .. n |-> Progress("write", i, n)]
  BY <1>1, Zenon DEF WrittenEvents
<1> HIDE DEF n, t
<1>3. t = [i \in 1 .. n |-> t[i]] /\ \A i \in 1 .. n : t[i] = Progress("write", i, n)
  BY <1>2
<1>4. Len(t) = n
  BY <1>1, <1>3, LenOf
<1>5. \A i \in 1 .. n : t[i].type = "progress" /\ t[i].phase = "write" /\ ~Terminal(t[i])
  <2>1. \A i : Progress("write", i, n).type = "progress" /\ Progress("write", i, n).phase = "write"
    BY DEF Progress
  <2> QED BY <1>3, <2>1 DEF Terminal
<1>6. List(t)
  BY <1>1, <1>3, <1>4 DEF List
<1> QED BY <1>4, <1>5, <1>6 DEF Within, t, n


\* and of the others tell the story on.
LEMMA ScriptStory == ASSUME Path, Listed, Narrated, Api, ask' = ask, Scripts PROVE Narrated'
<1>a. ASSUME NEW code, code # "CANCELLED", Raises(code), at \in Silent PROVE Narrated'
  BY <1>a, Failing
<1>b. ASSUME NEW code, code # "CANCELLED", Raises(code), NEW p, Telling(p) PROVE Narrated'
  BY <1>b, Failing
<1>1. CASE StartRecover
  <2>1. at = "recover" /\ (Raises("OUTPUT_REQUIRED") \/ (at' = "recover_plan" /\ stream' = stream \o <<Started, Phase("plan")>>))
    BY <1>1 DEF StartRecover, Emit
  <2>2. at \in Silent /\ stream = <<>>
    BY <2>1 DEF Silent, Narrated
  <2>3. ask.command = "recover"
    BY <2>1, CommandOf DEF RecoverSteps
  <2>4. CASE at' = "recover_plan" /\ stream' = stream \o <<Started, Phase("plan")>>
    <3>1. stream' = <<Started, Phase("plan")>> /\ Telling("plan")'
      BY <2>2, <2>4 DEF Telling
    <3>2. Open(<<Started, Phase("plan")>>, ask.command, "plan")
      BY <2>3, Leading, BeginsPhase
    <3> QED BY <3>1, <3>2, IntoPhase
  <2> QED BY <2>1, <2>2, <2>4, <1>a
<1>2. CASE PlanRecovery
  <2>1. at = "recover_plan" /\ at' = "decrypt" /\ stream' = stream \o <<Progress("plan", 1, 1), Phase("decrypt")>>
    BY <1>2 DEF PlanRecovery, Emit
  <2>2. Telling("plan") /\ Telling("decrypt")'
    BY <2>1 DEF Telling
  <2>3. ask.command = "recover"
    BY <2>1, CommandOf DEF RecoverSteps
  <2>4. Open(stream, ask.command, "plan") /\ Leads(ask.command, "plan", "decrypt")
    BY <2>2, <2>3, Leading DEF Narrated
  <2>5. Open(stream', ask.command, "decrypt")
    BY <2>1, <2>4, Moves
  <2> QED BY <2>2, <2>5, IntoPhase
<1>3. CASE DecryptAndExtract
  <2>1. at = "decrypt" /\ at' = "write" /\ stream' = stream \o <<Progress("decrypt", 1, 1), Phase("write")>>
    BY <1>3 DEF DecryptAndExtract, Emit
  <2>2. Telling("decrypt") /\ Telling("write")'
    BY <2>1 DEF Telling
  <2>3. ask.command = "recover"
    BY <2>1, CommandOf DEF RecoverSteps
  <2>4. Open(stream, ask.command, "decrypt") /\ Leads(ask.command, "decrypt", "write")
    BY <2>2, <2>3, Leading DEF Narrated
  <2>5. Open(stream', ask.command, "write")
    BY <2>1, <2>4, Moves
  <2> QED BY <2>2, <2>5, IntoPhase
<1>4. CASE WriteRecovered
  <2>1. at = "write" /\ (Raises("INVALID_INPUT") \/ (at' \in {"write", "commit"} /\ stream' = stream))
    BY <1>4 DEF WriteRecovered
  <2>3. ask.command = "recover"
    BY <2>1, CommandOf DEF RecoverSteps
  <2>4. Telling("write")
    BY <2>1 DEF Telling
  <2>5. CASE at' \in {"write", "commit"} /\ stream' = stream
    <3>1. Telling("write")' /\ Open(stream', ask.command, "write")
      BY <2>3, <2>4, <2>5 DEF Telling, Narrated
    <3> QED BY <3>1, IntoPhase
  <2> QED BY <2>1, <2>4, <2>5, <1>b
<1>5. CASE ReportRecovery
  <2> DEFINE t == [i \in DOMAIN outputs |-> Artifact(outputs[i])]
           v == WrittenEvents
           e == Result([files |-> outputs, dir |-> plan.dir])
  <2>1. at = "report" /\ at' = "return" /\ stream' = stream \o (v \o t \o <<e>>) /\ ask.command = "recover"
    BY <1>5 DEF ReportRecovery, Emit
  <2>2. Telling("write")
    BY <2>1 DEF Telling
  <2>3. Open(stream, ask.command, "write")
    BY <2>2 DEF Narrated
  <2>4. Within(t, "write") /\ \A i \in 1 .. Len(t) : ~Terminal(t[i])
    BY Announcing DEF Listed
  <2>5. Within(v, "write") /\ \A i \in 1 .. Len(v) : ~Terminal(v[i])
    BY Writing DEF Listed
  <2>6. e.type = "result"
    BY DEF Result
  <2> HIDE DEF t, v, e
  <2>7. Open(stream \o v, ask.command, "write")
    BY <2>3, <2>5, OpenGrows
  <2>8. Open((stream \o v) \o t, ask.command, "write")
    BY <2>4, <2>7, OpenGrows
  <2>9. stream \o (v \o t \o <<e>>) = ((stream \o v) \o t) \o <<e>>
    <3>1. List(stream) /\ List(v) /\ List(t) /\ List(<<e>>)
      BY <2>3, <2>4, <2>5, ListOfOne DEF Open, Within
    <3>2. List(v \o t) /\ List(stream \o v)
      BY <3>1, ListsJoin
    <3>3. stream \o ((v \o t) \o <<e>>) = (stream \o (v \o t)) \o <<e>>
      BY <3>1, <3>2, JoinedAgain
    <3>4. stream \o (v \o t) = (stream \o v) \o t
      BY <3>1, JoinedAgain
    <3> QED BY <3>3, <3>4
  <2> QED BY <2>1, <2>6, <2>8, <2>9, Concluding
<1>6. CASE StartRecoverInspection
  <2>1. at = "inspect_recover" /\ at' = "inspect" /\ stream' = stream \o <<Started, Phase("plan")>>
    BY <1>6 DEF StartRecoverInspection, Emit
  <2>2. stream = <<>> /\ Telling("plan")'
    BY <2>1 DEF Telling, Narrated, Silent
  <2>3. ask.command = "inspect_recover"
    BY <2>1, CommandOf
  <2>4. Open(<<Started, Phase("plan")>>, ask.command, "plan")
    BY <2>3, Leading, BeginsPhase
  <2>5. stream' = <<Started, Phase("plan")>>
    BY <2>1, <2>2
  <2> QED BY <2>2, <2>4, <2>5, IntoPhase
<1>7. CASE StartMintInspection
  <2>1. at = "inspect_mint" /\ at' = "inspect" /\ stream' = stream \o <<Started, Phase("plan")>>
    BY <1>7 DEF StartMintInspection, Emit
  <2>2. stream = <<>> /\ Telling("plan")'
    BY <2>1 DEF Telling, Narrated, Silent
  <2>3. ask.command = "inspect_mint"
    BY <2>1, CommandOf
  <2>4. Open(<<Started, Phase("plan")>>, ask.command, "plan")
    BY <2>3, Leading, BeginsPhase
  <2>5. stream' = <<Started, Phase("plan")>>
    BY <2>1, <2>2
  <2> QED BY <2>2, <2>4, <2>5, IntoPhase
<1>8. CASE InspectRecovery
  <2> DEFINE no == Result([files |-> <<>>, ready |-> FALSE])
             yes == Result([files |-> <<>>, ready |-> TRUE])
             e == Progress("plan", 1, 1)
             d == Phase("decrypt")
             f == Progress("decrypt", 1, 1)
  <2>1. /\ at = "inspect" /\ at' = "return" /\ ask.command = "inspect_recover"
        /\ \/ stream' = stream \o <<e, no>>
           \/ stream' = stream \o <<e, d, no>>
           \/ stream' = stream \o <<e, d, f, yes>>
    BY <1>8 DEF InspectRecovery, Emit
  <2>2. Telling("plan")
    BY <2>1 DEF Telling
  <2>3. Open(stream, ask.command, "plan") /\ Leads(ask.command, "plan", "decrypt")
    BY <2>1, <2>2, Leading DEF Narrated
  <2>4. no.type = "result" /\ yes.type = "result"
    BY DEF Result
  <2>5. /\ e.type = "progress" /\ e.phase = "plan" /\ ~Terminal(e)
        /\ f.type = "progress" /\ f.phase = "decrypt" /\ ~Terminal(f)
    BY DEF Progress, Terminal
  <2>6. Open(stream \o <<e, d>>, ask.command, "decrypt")
    BY <2>3, Moves
  <2> HIDE DEF no, yes, e, f, d
  <2>7. Open(stream \o <<e>>, ask.command, "plan")
    BY <2>3, <2>5, Adds
  <2>8. Open((stream \o <<e, d>>) \o <<f>>, ask.command, "decrypt")
    BY <2>5, <2>6, Adds
  <2>9. List(stream) /\ \A a, b : List(<<a>>) /\ List(<<a, b>>)
    BY <2>3 DEF Open, List
  <2>10. stream \o <<e, no>> = (stream \o <<e>>) \o <<no>>
    BY <2>9, OneByOne
  <2>11. stream \o <<e, d, no>> = (stream \o <<e, d>>) \o <<no>>
    <3>1. <<e, d, no>> = <<e, d>> \o <<no>>
      BY OneAfterTwo
    <3>2. stream \o (<<e, d>> \o <<no>>) = (stream \o <<e, d>>) \o <<no>>
      BY <2>9, JoinedAgain
    <3> QED BY <3>1, <3>2
  <2>12. stream \o <<e, d, f, yes>> = ((stream \o <<e, d>>) \o <<f>>) \o <<yes>>
    <3>1. <<e, d, f, yes>> = <<e, d>> \o <<f, yes>>
      BY TwoAfterTwo
    <3>2. stream \o (<<e, d>> \o <<f, yes>>) = (stream \o <<e, d>>) \o <<f, yes>>
      BY <2>9, JoinedAgain
    <3>3. List(stream \o <<e, d>>)
      BY <2>6 DEF Open
    <3>4. (stream \o <<e, d>>) \o <<f, yes>> = ((stream \o <<e, d>>) \o <<f>>) \o <<yes>>
      BY <3>3, OneByOne
    <3> QED BY <3>1, <3>2, <3>4
  <2>13. CASE stream' = stream \o <<e, no>>
    BY <2>1, <2>4, <2>7, <2>10, <2>13, Concluding
  <2>14. CASE stream' = stream \o <<e, d, no>>
    BY <2>1, <2>4, <2>6, <2>11, <2>14, Concluding
  <2>15. CASE stream' = stream \o <<e, d, f, yes>>
    BY <2>1, <2>4, <2>8, <2>12, <2>15, Concluding
  <2> QED BY <2>1, <2>13, <2>14, <2>15
<1>9. CASE InspectMint
  <2> DEFINE e == Progress("plan", 1, 1)
  <2>1. /\ at = "inspect" /\ at' = "return" /\ ask.command = "inspect_mint"
        /\ \E ready \in BOOLEAN : stream' = stream \o <<e, Result([files |-> <<>>, ready |-> ready])>>
    BY <1>9, Zenon DEF InspectMint, Emit, Works, Go
  <2>2. PICK ready \in BOOLEAN : stream' = stream \o <<e, Result([files |-> <<>>, ready |-> ready])>>
    BY <2>1
  <2> DEFINE r == Result([files |-> <<>>, ready |-> ready])
  <2>3. Telling("plan")
    BY <2>1 DEF Telling
  <2>4. Open(stream, ask.command, "plan")
    BY <2>3 DEF Narrated
  <2>5. r.type = "result" /\ e.type = "progress" /\ e.phase = "plan" /\ ~Terminal(e)
    BY DEF Result, Progress, Terminal
  <2>6. stream' = stream \o <<e, r>>
    BY <2>2
  <2> HIDE DEF e, r
  <2>7. Open(stream \o <<e>>, ask.command, "plan")
    BY <2>4, <2>5, Adds
  <2>8. stream \o <<e, r>> = (stream \o <<e>>) \o <<r>>
    BY <2>4, OneByOne DEF Open
  <2> QED BY <2>1, <2>5, <2>6, <2>7, <2>8, Concluding
<1>10. CASE ConfigGet
  <2>1. at = "config_get" /\ at' = "config_read" /\ stream' = stream \o <<Started, Phase("load")>>
    BY <1>10 DEF ConfigGet, Emit
  <2>2. stream = <<>> /\ Telling("load")'
    BY <2>1 DEF Telling, Narrated, Silent
  <2>3. ask.command = "config_get"
    BY <2>1, CommandOf
  <2>4. Open(<<Started, Phase("load")>>, ask.command, "load")
    BY <2>3, Leading, BeginsPhase
  <2>5. stream' = <<Started, Phase("load")>>
    BY <2>1, <2>2
  <2> QED BY <2>2, <2>4, <2>5, IntoPhase
<1>11. CASE ReadSettings
  <2> DEFINE r == Result([files |-> <<>>])
  <2>1. at = "config_read" /\ at' = "return" /\ stream' = stream \o <<r>>
    BY <1>11 DEF ReadSettings, Emit
  <2>2. Telling("load")
    BY <2>1 DEF Telling
  <2>3. Open(stream, ask.command, "load")
    BY <2>2 DEF Narrated
  <2>4. r.type = "result"
    BY DEF Result
  <2> HIDE DEF r
  <2> QED BY <2>1, <2>3, <2>4, Concluding
<1>12. CASE ConfigSet
  <2>1. /\ at = "config_set"
        /\ \/ Raises("CONFIG_INPUT_REQUIRED")
           \/ at' = "config_apply" /\ stream' = stream \o <<Started, Phase("validate")>>
    BY <1>12 DEF ConfigSet, Emit
  <2>2. at \in Silent /\ stream = <<>>
    BY <2>1 DEF Silent, Narrated
  <2>3. ask.command = "config_set"
    BY <2>1, CommandOf
  <2>4. CASE at' = "config_apply" /\ stream' = stream \o <<Started, Phase("validate")>>
    <3>1. stream' = <<Started, Phase("validate")>> /\ Telling("validate")'
      BY <2>2, <2>4 DEF Telling
    <3>2. Open(<<Started, Phase("validate")>>, ask.command, "validate")
      BY <2>3, Leading, BeginsPhase
    <3> QED BY <3>1, <3>2, IntoPhase
  <2> QED BY <2>1, <2>2, <2>4, <1>a
<1>13. CASE ApplyPatch
  <2>1. at = "config_apply" /\ at' = "config_report" /\ stream' = stream \o <<Phase("write")>>
    BY <1>13 DEF ApplyPatch, Emit
  <2>2. Telling("validate") /\ Telling("write")'
    BY <2>1 DEF Telling
  <2>3. ask.command = "config_set"
    BY <2>1, CommandOf
  <2>4. Open(stream, ask.command, "validate") /\ Leads(ask.command, "validate", "write")
    BY <2>2, <2>3, Leading DEF Narrated
  <2>5. Open(stream', ask.command, "write")
    BY <2>1, <2>4, OpenTurns
  <2> QED BY <2>2, <2>5, IntoPhase
<1>14. CASE ReportSettings
  <2> DEFINE r == Result([files |-> <<>>])
  <2>1. at = "config_report" /\ at' = "return" /\ stream' = stream \o <<r>>
    BY <1>14 DEF ReportSettings, Emit
  <2>2. Telling("write")
    BY <2>1 DEF Telling
  <2>3. Open(stream, ask.command, "write")
    BY <2>2 DEF Narrated
  <2>4. r.type = "result"
    BY DEF Result
  <2> HIDE DEF r
  <2> QED BY <2>1, <2>3, <2>4, Concluding
<1>15. CASE RenderKit
  BY <1>15 DEF RenderKit, Narrated, Prompts
<1> QED BY <1>1, <1>2, <1>3, <1>4, <1>5, <1>6, <1>7, <1>8, <1>9, <1>10, <1>11, <1>12, <1>13, <1>14, <1>15 DEF Scripts

\* Every step keeps the story.
LEMMA NarratedStep == ASSUME Path, Listed, Narrated, [Next]_vars PROVE Narrated'
<1>1. CASE UNCHANGED vars
  BY <1>1 DEF Narrated, Telling, Ending, vars
<1>2. CASE Next /\ ~Api
  <2>1. ask' = ask /\ stream' = stream
    BY <1>2, AskKept, Mute
  <2> QED BY <1>2, <2>1 DEF Narrated
<1>3. CASE Next /\ Api
  <2>1. ask' = ask
    BY <1>3, AskKept
  <2>2. CASE Return
    <3>1. at = "return" /\ at' = "done" /\ status' = 0 /\ stream' = stream
      BY <2>2 DEF Return
    <3>2. Closed(stream, ask.command) /\ stream[Len(stream)].type = "result"
      BY <1>3, <3>1 DEF Narrated
    <3>3. Ending'
      BY <2>1, <3>1, <3>2 DEF Ending
    <3>4. ~(\E p : Telling(p)')
      BY <3>1 DEF Telling
    <3> QED BY <1>3, <2>1, <3>1, <3>3, <3>4 DEF Narrated, Silent, Prompts, Boot, Wizard
  <2>3. CASE Breaks
    <3>1. at \in Fallible /\ Raises("FAILED")
      BY <2>3 DEF Breaks
    <3>2. at \notin {"return", "done"} /\ at \notin Prompts
      BY <1>3, <3>1 DEF Fallible, Narrated
    <3>3. at \in Silent \/ \E p : Telling(p)
      BY <3>2, Somewhere
    <3> QED BY <1>3, <2>1, <3>1, <3>3, Failing
  <2>4. CASE Interrupt
    BY <1>3, <2>4, Cancelling
  <2> QED BY <1>3, <2>1, <2>2, <2>3, <2>4, BootStory, BackupStory, MintStory, ScriptStory DEF Next
<1> QED BY <1>1, <1>2, <1>3

\* The story starts with nothing said.
LEMMA NarratedInit == ASSUME Init PROVE Narrated /\ Listed
<1>1. at = "main" /\ stream = <<>> /\ papers = <<>> /\ outputs = <<>>
  BY DEF Init
<1>2. ~(\E p : Telling(p))
  BY <1>1 DEF Telling
<1> QED BY <1>1, <1>2 DEF Narrated, Listed, List, Prompts, Wizard

\* A stream that is told in this way is in order and has its one terminal event.
LEMMA NarratedMeans == ASSUME Path, Narrated PROVE EventsTellTheStory
<1> DEFINE c == ask.command
<1>1. InOrder(<<>>, c)
  BY DEF InOrder
<1>2. CASE ~Api
  BY <1>1, <1>2 DEF Narrated, EventsTellTheStory, EventsInOrder, OneTerminalEvent
<1>3. CASE Api /\ at # "done"
  <2>1. ~Done
    BY <1>3 DEF Done, Path, Ended
  <2>2. InOrder(stream, c)
    BY <1>1, <1>3, Somewhere DEF Narrated, Open, Closed
  <2> QED BY <2>1, <2>2 DEF EventsTellTheStory, EventsInOrder, OneTerminalEvent
<1>4. CASE Api /\ at = "done"
  <2>0. Ending
    BY <1>4 DEF Narrated
  <2>1. CASE stream = <<>> /\ ((status = 0 /\ ask.help) \/ status \in {1, 130})
    BY <1>1, <2>1 DEF EventsTellTheStory, EventsInOrder, OneTerminalEvent
  <2>2. CASE /\ Closed(stream, c)
             /\ \/ status = 0 /\ stream[Len(stream)].type = "result"
                \/ status = 2 /\ \E code : code # "CANCELLED" /\ stream[Len(stream)] = ErrorEvent(code)
                \/ status = 130 /\ stream[Len(stream)] = ErrorEvent("CANCELLED")
    <3> DEFINE n == Len(stream)
    <3>1. /\ InOrder(stream, c) /\ n > 0 /\ n \in Nat /\ DOMAIN stream = 1 .. n /\ Terminal(stream[n])
          /\ \A i \in 1 .. n : Terminal(stream[i]) => i = n
      <4>1. stream = [i \in 1 .. n |-> stream[i]] /\ n \in Nat
        BY <2>2 DEF Closed, List
      <4>2. DOMAIN stream = 1 .. n
        <5> HIDE DEF n
        <5> QED BY <4>1
      <4> QED BY <2>2, <4>1, <4>2 DEF Closed
    <3>2. \A code : ErrorEvent(code).type = "error" /\ ErrorEvent(code).code = code
      BY DEF ErrorEvent
    <3>3. /\ status = 0 <=> stream[n].type = "result"
          /\ status = 130 <=> stream[n] = ErrorEvent("CANCELLED")
          /\ status # 1
      BY <2>2, <3>2
    <3>4. n \in Terminals /\ Terminals \ {n} = {}
      <4> HIDE DEF n
      <4> QED BY <3>1 DEF Terminals
    <3> QED BY <3>1, <3>3, <3>4 DEF EventsTellTheStory, EventsInOrder, OneTerminalEvent
  <2>3. CASE /\ status = 130
             /\ \E s : Closed(s, c) /\ s[Len(s)].type = "result" /\ stream = s \o <<ErrorEvent("CANCELLED")>>
    <3> DEFINE e == ErrorEvent("CANCELLED")
    <3>1. PICK s : Closed(s, c) /\ s[Len(s)].type = "result" /\ stream = s \o <<e>>
      BY <2>3
    <3> DEFINE m == Len(s)
    <3>2. List(<<e>>) /\ Len(<<e>>) = 1 /\ <<e>>[1] = e
      BY ListOfOne
    <3>3. /\ Len(stream) = m + 1 /\ DOMAIN stream = 1 .. m + 1
          /\ \A i \in 1 .. m : stream[i] = s[i]
          /\ \A i \in 1 .. 1 : stream[m + i] = <<e>>[i]
          /\ m \in Nat
      BY <3>1, <3>2, ListsJoin DEF Closed, List
    <3>4. stream[m + 1] = e
      BY <3>2, <3>3
    <3>5. InOrder(stream, c)
      BY <3>1, CancelledLate
    <3>6. e.type = "error" /\ Terminal(e)
      BY DEF ErrorEvent, Terminal
    <3>7. \A i \in 1 .. m : Terminal(s[i]) => i = m
      BY <3>1 DEF Closed
    <3>9. s[m].type = "result"
      BY <3>1
    <3> HIDE DEF m
    <3>8. \A i \in Terminals \ {m + 1} : stream[i].type = "result" /\ status = 130
      <4> TAKE i \in Terminals \ {m + 1}
      <4>1. i \in 1 .. m /\ Terminal(stream[i])
        BY <3>3 DEF Terminals
      <4>2. i = m /\ stream[i] = s[m]
        BY <4>1, <3>3, <3>7
      <4> QED BY <4>2, <3>9, <2>3
    <3>10. m + 1 \in Terminals
      BY <3>3, <3>4, <3>6 DEF Terminals
    <3>11. OneTerminalEvent
      <4>1. status = 130 /\ stream[m + 1] = ErrorEvent("CANCELLED") /\ stream[m + 1].type = "error"
        BY <2>3, <3>4, <3>6
      <4> QED BY <4>1, <3>3, <3>8, <3>10 DEF OneTerminalEvent
    <3> QED BY <3>5, <3>11 DEF EventsTellTheStory, EventsInOrder
  <2> QED BY <2>0, <2>1, <2>2, <2>3 DEF Ending
<1> QED BY <1>2, <1>3, <1>4

\* The event stream of the API tells the story of every command, whatever it was asked and
\* wherever it fails or is interrupted.
THEOREM EventsAlwaysTellTheStory == Spec => []EventsTellTheStory
<1>1. Init => Path /\ Listed /\ Narrated
  BY PathInit, NarratedInit
<1>2. Path /\ Listed /\ Narrated /\ [Next]_vars => (Path /\ Listed /\ Narrated)'
  BY PathStep, ListedStep, NarratedStep
<1>3. Path /\ Narrated => EventsTellTheStory
  BY NarratedMeans
<1> QED
  BY <1>1, <1>2, <1>3, PTL DEF Spec

(***************************************************************************)
(* What a result says.                                                     *)
(***************************************************************************)
\* No files and no result among the events.
Plain(s) == \A i \in 1 .. Len(s) : s[i].type \notin {"artifact", "result"}

NoResult(s) == \A i \in 1 .. Len(s) : s[i].type # "result"

\* The files published are announced right before the i-th event, and nowhere else.
Announced(s, i) ==
  LET before == i - Len(outputs)
  IN /\ { j \in DOMAIN s : s[j].type = "artifact" } = before .. (i - 1)
     /\ \A j \in DOMAIN outputs : s[before + j - 1] = Artifact(outputs[j])

\* The result of a backup says how its signing key is kept.
KeyTold(r) ==
  ask.command = "backup" =>
    /\ (r.mode = "sharded") = (OutputsOf("signing_key_shard") # {})
    /\ \A j \in OutputsOf("signing_key_shard") : outputs[j].quorum = Merged(r.seed, r.sharding)
    /\ r.seed # Unset => r.mode = "sharded"

\* Files are announced when they are published, and the result comes after them.
Reported ==
  /\ List(stream)
  /\ Api => review = Unset
  /\ at \notin {"result", "return", "done"} => Plain(stream)
  /\ Api /\ at = "result" => Announced(stream, Len(stream) + 1) /\ NoResult(stream)
  /\ ResultTellsTheTruth

\* The parts of the property have the names above.
LEMMA TruthIs ==
  ResultTellsTheTruth <=>
    \A i \in DOMAIN stream : stream[i].type = "result" =>
      /\ stream[i].about.files = outputs
      /\ Announced(stream, i)
      /\ KeyTold(stream[i].about)
BY Zenon DEF ResultTellsTheTruth, Announced, KeyTold

\* A stream without a result keeps every promise.
LEMMA NothingClaimed == ASSUME List(stream), NoResult(stream) PROVE ResultTellsTheTruth
<1> DEFINE n == Len(stream)
<1>1. stream = [i \in 1 .. n |-> stream[i]] /\ n \in Nat
  BY DEF List
<1>2. DOMAIN stream = 1 .. n
  <2> HIDE DEF n
  <2> QED BY <1>1
<1> QED BY <1>2, TruthIs DEF NoResult

\* The positions of a list.
LEMMA ListDomain == ASSUME NEW s, List(s) PROVE DOMAIN s = 1 .. Len(s) /\ Len(s) \in Nat
<1> DEFINE n == Len(s)
<1>1. s = [i \in 1 .. n |-> s[i]] /\ n \in Nat
  BY DEF List
<1> HIDE DEF n
<1>2. DOMAIN s = 1 .. n
  BY <1>1
<1> QED BY <1>1, <1>2 DEF n

\* Where an event of two lists comes from.
LEMMA EitherList ==
  ASSUME NEW s, NEW t, List(s), List(t), NEW i \in 1 .. Len(s \o t)
  PROVE  \/ i \in 1 .. Len(s) /\ (s \o t)[i] = s[i]
         \/ i - Len(s) \in 1 .. Len(t) /\ (s \o t)[i] = t[i - Len(s)]
<1> DEFINE m == Len(s)
           n == Len(t)
           u == s \o t
<1>1. m \in Nat /\ n \in Nat
  BY DEF List
<1>2. /\ Len(u) = m + n
      /\ \A k \in 1 .. m : u[k] = s[k]
      /\ \A k \in 1 .. n : u[m + k] = t[k]
  BY ListsJoin
<1>3. i \in 1 .. Len(u)
  OBVIOUS
<1> HIDE DEF m, n, u
<1>4. CASE i \in 1 .. m
  BY <1>2, <1>4 DEF m, u
<1>5. CASE i \notin 1 .. m
  <2>1. i - m \in 1 .. n /\ m + (i - m) = i
    BY <1>1, <1>2, <1>3, <1>5
  <2>2. u[i] = t[i - m]
    BY <2>1, <1>2
  <2> QED BY <2>1, <2>2 DEF m, n, u
<1> QED BY <1>4, <1>5

\* Plain events after plain events,
LEMMA PlainJoin ==
  ASSUME NEW s, NEW t, List(s), List(t)
  PROVE  /\ Plain(s) /\ Plain(t) => Plain(s \o t)
         /\ NoResult(s) /\ NoResult(t) => NoResult(s \o t)
<1>1. ASSUME Plain(s), Plain(t) PROVE Plain(s \o t)
  <2>1. ASSUME NEW i \in 1 .. Len(s \o t) PROVE (s \o t)[i].type \notin {"artifact", "result"}
    <3>1. \/ i \in 1 .. Len(s) /\ (s \o t)[i] = s[i]
          \/ i - Len(s) \in 1 .. Len(t) /\ (s \o t)[i] = t[i - Len(s)]
      BY EitherList
    <3>2. CASE i \in 1 .. Len(s) /\ (s \o t)[i] = s[i]
      BY <1>1, <3>2, Zenon DEF Plain
    <3>3. CASE i - Len(s) \in 1 .. Len(t) /\ (s \o t)[i] = t[i - Len(s)]
      BY <1>1, <3>3, Zenon DEF Plain
    <3> QED BY <3>1, <3>2, <3>3
  <2> QED BY <2>1, Zenon DEF Plain
<1>2. ASSUME NoResult(s), NoResult(t) PROVE NoResult(s \o t)
  <2>1. ASSUME NEW i \in 1 .. Len(s \o t) PROVE (s \o t)[i].type # "result"
    <3>1. \/ i \in 1 .. Len(s) /\ (s \o t)[i] = s[i]
          \/ i - Len(s) \in 1 .. Len(t) /\ (s \o t)[i] = t[i - Len(s)]
      BY EitherList
    <3>2. CASE i \in 1 .. Len(s) /\ (s \o t)[i] = s[i]
      BY <1>2, <3>2, Zenon DEF NoResult
    <3>3. CASE i - Len(s) \in 1 .. Len(t) /\ (s \o t)[i] = t[i - Len(s)]
      BY <1>2, <3>3, Zenon DEF NoResult
    <3> QED BY <3>1, <3>2, <3>3
  <2> QED BY <2>1, Zenon DEF NoResult
<1> QED BY <1>1, <1>2

\* none,
LEMMA PlainNone == List(<<>>) /\ Plain(<<>>)
BY DEF List, Plain

\* one
LEMMA PlainOne == ASSUME NEW e, e.type \notin {"artifact", "result"} PROVE List(<<e>>) /\ Plain(<<e>>)
<1>1. List(<<e>>) /\ Len(<<e>>) = 1 /\ <<e>>[1] = e
  BY ListOfOne
<1> QED BY <1>1 DEF Plain

\* or two of them.
LEMMA PlainTwo ==
  ASSUME NEW a, NEW b, a.type \notin {"artifact", "result"}, b.type \notin {"artifact", "result"}
  PROVE  List(<<a, b>>) /\ Plain(<<a, b>>)
<1>1. List(<<a>>) /\ Plain(<<a>>) /\ List(<<b>>) /\ Plain(<<b>>)
  BY PlainOne
<1>2. <<a>> \o <<b>> = <<a, b>>
  BY PairOf
<1>3. List(<<a>> \o <<b>>) /\ Plain(<<a>> \o <<b>>)
  BY <1>1, ListsJoin, PlainJoin
<1> QED BY <1>2, <1>3, Zenon

\* The events that announce no file and no result.
LEMMA PlainEvents ==
  /\ Started.type = "started"
  /\ \A p : Phase(p).type = "phase"
  /\ \A p, m, n : Progress(p, m, n).type = "progress"
  /\ \A c : Warning(c).type = "warning"
  /\ \A c : ErrorEvent(c).type = "error"
  /\ \A f : Artifact(f).type = "artifact" /\ Artifact(f).file = f
  /\ \A r : Result(r).type = "result" /\ Result(r).about = r
BY DEF Started, Phase, Progress, Warning, ErrorEvent, Artifact, Result

\* After plain events, the files published are announced by an event each.
LEMMA AnnouncedBy ==
  ASSUME NEW s, List(s), Plain(s), List(outputs)
  PROVE  LET t == [i \in DOMAIN outputs |-> Artifact(outputs[i])]
         IN  List(s \o t) /\ Announced(s \o t, Len(s \o t) + 1) /\ NoResult(s \o t)
<1> DEFINE m == Len(s)
           n == Len(outputs)
           t == [i \in DOMAIN outputs |-> Artifact(outputs[i])]
           u == s \o t
<1>1. m \in Nat /\ n \in Nat /\ DOMAIN outputs = 1 .. n
  BY ListDomain DEF List
<1>2. List(t) /\ Len(t) = n
  BY Announcing DEF Within
<1>3. \A i \in 1 .. n : t[i] = Artifact(outputs[i])
  BY <1>1
<1> HIDE DEF t
<1>4. /\ List(u) /\ Len(u) = m + n /\ DOMAIN u = 1 .. m + n
      /\ \A i \in 1 .. m : u[i] = s[i]
      /\ \A i \in 1 .. n : u[m + i] = t[i]
  BY <1>2, ListsJoin
<1>5. \A i \in 1 .. m : s[i].type \notin {"artifact", "result"}
  BY DEF Plain
<1> HIDE DEF m, n, u
<1>6. \A i \in 1 .. n : u[m + i].type = "artifact" /\ u[m + i] = Artifact(outputs[i])
  BY <1>3, <1>4, PlainEvents
<1>7. \A i \in 1 .. m : u[i].type \notin {"artifact", "result"}
  BY <1>4, <1>5
<1>8. \A i \in m + 1 .. m + n : i - m \in 1 .. n /\ m + (i - m) = i
  BY <1>1
<1>9. \A i \in m + 1 .. m + n : u[i].type = "artifact"
  <2> TAKE i \in m + 1 .. m + n
  <2>1. i - m \in 1 .. n /\ m + (i - m) = i
    BY <1>8
  <2> QED BY <2>1, <1>6
<1>10. \A i \in 1 .. m + n : i \in 1 .. m \/ i \in m + 1 .. m + n
  BY <1>1
<1>11. { j \in DOMAIN u : u[j].type = "artifact" } = m + 1 .. m + n
  <2>1. m + 1 .. m + n \subseteq 1 .. m + n
    BY <1>1
  <2> QED BY <2>1, <1>4, <1>7, <1>9, <1>10
<1>12. NoResult(u)
  BY <1>4, <1>7, <1>9, <1>10 DEF NoResult
<1>13. Announced(u, Len(u) + 1)
  <2> DEFINE i == Len(u) + 1
             before == i - Len(outputs)
  <2>1. before = m + 1 /\ i - 1 = m + n
    BY <1>1, <1>4 DEF n
  <2>2. \A j \in DOMAIN outputs : before + j - 1 = m + j
    BY <2>1, <1>1
  <2>3. \A j \in DOMAIN outputs : u[before + j - 1] = Artifact(outputs[j])
    BY <2>2, <1>1, <1>6
  <2>4. { j \in DOMAIN u : u[j].type = "artifact" } = before .. (i - 1)
    BY <2>1, <1>11
  <2> HIDE DEF i
  <2>5. Announced(u, i)
    BY <2>3, <2>4 DEF Announced
  <2> QED BY <2>5 DEF i
<1> QED BY <1>4, <1>12, <1>13 DEF u, t

\* Where nothing was published, nothing needs to be.
LEMMA NothingAnnounced ==
  ASSUME NEW s, List(s), Plain(s), outputs = <<>>
  PROVE  Announced(s, Len(s) + 1) /\ NoResult(s)
<1> DEFINE m == Len(s)
<1>1. DOMAIN s = 1 .. m /\ m \in Nat
  BY ListDomain
<1>2. \A i \in 1 .. m : s[i].type \notin {"artifact", "result"}
  BY DEF Plain
<1>3. NoResult(s)
  BY DEF Plain, NoResult
<1> HIDE DEF m
<1>4. Len(outputs) = 0 /\ DOMAIN outputs = {}
  OBVIOUS
<1>5. Announced(s, m + 1)
  <2>1. (m + 1) - Len(outputs) = m + 1 /\ m + 1 .. (m + 1) - 1 = {}
    BY <1>1, <1>4
  <2>2. { j \in DOMAIN s : s[j].type = "artifact" } = {}
    BY <1>1, <1>2
  <2> QED BY <2>1, <2>2, <1>4 DEF Announced
<1> QED BY <1>3, <1>5 DEF m

\* What is announced stays so when an event of another kind follows.
LEMMA AnnouncedStill ==
  ASSUME NEW s, List(s), List(outputs), NEW i \in 1 .. Len(s) + 1, Announced(s, i), NEW e, e.type # "artifact"
  PROVE  Announced(s \o <<e>>, i)
<1> DEFINE m == Len(s)
           n == Len(outputs)
           t == <<e>>
           u == s \o t
           before == i - n
<1>1. m \in Nat /\ n \in Nat /\ DOMAIN outputs = 1 .. n /\ DOMAIN s = 1 .. m
  BY ListDomain
<1>2. List(t) /\ Len(t) = 1 /\ t[1] = e
  BY ListOfOne
<1> HIDE DEF t
<1>3. /\ Len(u) = m + 1 /\ DOMAIN u = 1 .. m + 1
      /\ \A k \in 1 .. m : u[k] = s[k]
      /\ \A k \in 1 .. 1 : u[m + k] = t[k]
  BY <1>2, ListsJoin
<1>4. u[m + 1] = e
  BY <1>2, <1>3
<1>5. /\ { j \in DOMAIN s : s[j].type = "artifact" } = before .. (i - 1)
      /\ \A j \in DOMAIN outputs : s[before + j - 1] = Artifact(outputs[j])
  BY DEF Announced
<1>6. i \in 1 .. m + 1
  OBVIOUS
<1> HIDE DEF m, n, u
<1>7. { j \in DOMAIN u : u[j].type = "artifact" } = before .. (i - 1)
  <2>1. \A j \in 1 .. m + 1 : j \in 1 .. m \/ j = m + 1
    BY <1>1
  <2> HIDE DEF before
  <2> QED BY <2>1, <1>1, <1>3, <1>4, <1>5
<1>8. ASSUME NEW j \in DOMAIN outputs PROVE u[before + j - 1] = Artifact(outputs[j])
  <2> DEFINE k == before + j - 1
  <2>1. k \in before .. (i - 1)
    BY <1>1, <1>6
  <2>2. k \in 1 .. m
    BY <2>1, <1>1, <1>5
  <2> HIDE DEF k
  <2>3. u[k] = s[k]
    BY <2>2, <1>3
  <2>4. s[k] = Artifact(outputs[j])
    BY <1>5 DEF k
  <2> QED BY <2>3, <2>4 DEF k
<1> QED BY <1>7, <1>8 DEF Announced, u, t, n

\* The parts after a step.
LEMMA TruthIsNext ==
  ASSUME \A i \in DOMAIN stream' : stream'[i].type = "result" =>
           stream'[i].about.files = outputs' /\ Announced(stream, i)' /\ KeyTold(stream[i].about)'
  PROVE  ResultTellsTheTruth'
<1>1. (ResultTellsTheTruth <=>
         \A i \in DOMAIN stream : stream[i].type = "result" =>
           /\ stream[i].about.files = outputs
           /\ Announced(stream, i)
           /\ KeyTold(stream[i].about))'
  BY TruthIs, PTL
<1> QED BY <1>1

\* What is said of published files holds as long as they are the files published.
LEMMA SaidStill ==
  ASSUME outputs' = outputs, ask' = ask, NEW i, NEW s, s = stream', NEW r, r = stream'[i].about
  PROVE  /\ Announced(s, i) => Announced(stream, i)'
         /\ KeyTold(r) => KeyTold(stream[i].about)'
<1>1. Announced(s, i) => Announced(stream, i)'
  BY DEF Announced
<1>2. KeyTold(r) => KeyTold(stream[i].about)'
  BY DEF KeyTold, OutputsOf
<1> QED BY <1>1, <1>2

\* What a result said stays true when nothing but an error follows.
LEMMA TruthKept ==
  ASSUME List(stream), List(outputs), ResultTellsTheTruth, outputs' = outputs, ask' = ask, NEW code,
         stream' = stream \/ stream' = stream \o <<ErrorEvent(code)>>
  PROVE  List(stream') /\ ResultTellsTheTruth'
<1> DEFINE e == ErrorEvent(code)
<1>1. e.type = "error"
  BY PlainEvents
<1>2. List(stream')
  BY ListsJoin, ListOfOne
<1>3. DOMAIN stream = 1 .. Len(stream) /\ DOMAIN stream' = 1 .. Len(stream')
  BY <1>2, ListDomain
<1> HIDE DEF e
<1>4. ASSUME NEW i \in DOMAIN stream', stream'[i].type = "result"
      PROVE  stream'[i].about.files = outputs' /\ Announced(stream, i)' /\ KeyTold(stream[i].about)'
  <2> DEFINE s == stream'
             r == stream'[i].about
  <2>1. i \in DOMAIN stream /\ stream'[i] = stream[i]
    <3>1. CASE stream' = stream
      BY <1>4, <3>1
    <3>2. CASE stream' = stream \o <<e>>
      <4>1. List(<<e>>) /\ Len(<<e>>) = 1 /\ <<e>>[1] = e
        BY ListOfOne
      <4>2. i \in 1 .. Len(stream \o <<e>>)
        BY <1>3, <1>4, <3>2
      <4>3. \/ i \in 1 .. Len(stream) /\ (stream \o <<e>>)[i] = stream[i]
            \/ i - Len(stream) \in 1 .. Len(<<e>>) /\ (stream \o <<e>>)[i] = <<e>>[i - Len(stream)]
        BY <4>1, <4>2, EitherList
      <4>4. \A k \in 1 .. Len(<<e>>) : <<e>>[k].type # "result"
        BY <1>1, <4>1
      <4>5. i \in 1 .. Len(stream) /\ (stream \o <<e>>)[i] = stream[i]
        <5>1. ASSUME i - Len(stream) \in 1 .. Len(<<e>>) /\ (stream \o <<e>>)[i] = <<e>>[i - Len(stream)] PROVE FALSE
          BY <5>1, <4>4, <3>2, <1>4, Zenon
        <5> QED BY <4>3, <5>1
      <4> QED BY <4>5, <3>2, <1>3
    <3> QED BY <3>1, <3>2 DEF e
  <2>2. stream[i].about.files = outputs /\ Announced(stream, i) /\ KeyTold(stream[i].about)
    BY <1>4, <2>1, TruthIs
  <2>3. Announced(s, i)
    <3>1. CASE stream' = stream
      BY <2>2, <3>1
    <3>2. CASE stream' = stream \o <<e>>
      <4>0. Len(stream) \in Nat
        BY ListDomain
      <4>3. i \in 1 .. Len(stream)
        BY <2>1, <1>3
      <4>1. i \in 1 .. Len(stream) + 1
        BY <4>0, <4>3
      <4>2. Announced(stream \o <<e>>, i)
        BY <4>1, <2>2, <1>1, AnnouncedStill
      <4> QED BY <3>2, <4>2
    <3> QED BY <3>1, <3>2 DEF e
  <2>4. KeyTold(r)
    BY <2>1, <2>2
  <2> HIDE DEF s, r
  <2>5. s = stream' /\ r = stream'[i].about
    BY DEF s, r
  <2>6. Announced(stream, i)' /\ KeyTold(stream[i].about)'
    BY <2>3, <2>4, <2>5, SaidStill
  <2> QED BY <2>1, <2>2, <2>6
<1> QED BY <1>2, <1>4, TruthIsNext

\* The result after the files, and true, is the truth.
LEMMA TruthTold ==
  ASSUME NEW s, List(s), List(outputs), Announced(s, Len(s) + 1), NoResult(s), NEW r, r.files = outputs, KeyTold(r),
         stream' = s \o <<Result(r)>>, outputs' = outputs, ask' = ask
  PROVE  List(stream') /\ ResultTellsTheTruth'
<1> DEFINE e == Result(r)
           t == <<e>>
           n == Len(s)
<1>1. e.type = "result" /\ e.about = r
  BY PlainEvents
<1>2. List(t)
  BY ListOfOne
<1>a. Len(t) = 1 /\ t[1] = e
  BY ListOfOne
<1> HIDE DEF t
<1>b. /\ List(s \o t) /\ Len(s \o t) = n + Len(t) /\ DOMAIN (s \o t) = 1 .. n + Len(t)
      /\ \A i \in 1 .. n : (s \o t)[i] = s[i]
      /\ \A i \in 1 .. Len(t) : (s \o t)[n + i] = t[i]
  BY <1>2, ListsJoin
<1>3. /\ List(s \o t) /\ Len(s \o t) = n + 1 /\ DOMAIN (s \o t) = 1 .. n + 1
      /\ \A i \in 1 .. n : (s \o t)[i] = s[i]
      /\ \A i \in 1 .. 1 : (s \o t)[n + i] = t[i]
      /\ n \in Nat
  BY <1>a, <1>b, ListDomain
<1>4. (s \o t)[n + 1] = e
  BY <1>a, <1>3
<1>5. stream' = s \o t
  BY DEF t
<1>6. \A i \in 1 .. n : s[i].type # "result"
  BY DEF NoResult
<1>7. Announced(s \o <<e>>, n + 1)
  <2>1. n + 1 \in 1 .. Len(s) + 1 /\ Announced(s, n + 1)
    BY <1>3
  <2> HIDE DEF e
  <2> QED BY <2>1, <1>1, AnnouncedStill
<1> HIDE DEF n, e
<1>8. ASSUME NEW i \in DOMAIN stream', stream'[i].type = "result"
      PROVE  stream'[i].about.files = outputs' /\ Announced(stream, i)' /\ KeyTold(stream[i].about)'
  <2>1. i \in 1 .. n + 1
    BY <1>3, <1>5, <1>8
  <2>2. i = n + 1
    <3>1. CASE i \in 1 .. n
      BY <3>1, <1>3, <1>5, <1>6, <1>8
    <3>2. CASE i \notin 1 .. n
      BY <3>2, <2>1, <1>3
    <3> QED BY <3>1, <3>2
  <2>3. stream'[i] = e
    BY <2>2, <1>4, <1>5
  <2> DEFINE x == stream'
             q == stream'[i].about
  <2>4. q = r
    BY <2>3, <1>1
  <2>5. Announced(x, i)
    BY <2>2, <1>5, <1>7 DEF t
  <2>6. KeyTold(q)
    BY <2>4
  <2> HIDE DEF x, q
  <2>7. x = stream' /\ q = stream'[i].about
    BY DEF x, q
  <2>8. Announced(stream, i)' /\ KeyTold(stream[i].about)'
    BY <2>5, <2>6, <2>7, SaidStill
  <2> QED BY <2>4, <2>7, <2>8
<1> QED BY <1>3, <1>5, <1>8, TruthIsNext

\* A step that announces no file and no result.
Quietly == \E t : List(t) /\ Plain(t) /\ stream' = stream \o t

\* A list with nothing added is the list.
LEMMA NoneAdded == ASSUME NEW s, List(s) PROVE s \o <<>> = s
<1> DEFINE n == Len(s)
<1>1. s = [i \in 1 .. n |-> s[i]] /\ n \in Nat
  BY DEF List
<1>2. <<>> = [i \in 1 .. 0 |-> <<>>[i]]
  OBVIOUS
<1>3. s \o <<>> = [i \in 1 .. (n + 0) |-> IF i <= n THEN s[i] ELSE <<>>[i - n]]
  BY <1>1, <1>2, Joined
<1> HIDE DEF n
<1> QED BY <1>1, <1>3

\* Such a step says nothing, one event or two.
LEMMA QuietSteps ==
  ASSUME List(stream)
  PROVE  /\ stream' = stream => Quietly
         /\ \A e : e.type \notin {"artifact", "result"} /\ stream' = stream \o <<e>> => Quietly
         /\ \A a, b : {a.type, b.type} \cap {"artifact", "result"} = {} /\ stream' = stream \o <<a, b>> => Quietly
         /\ \A code : Api /\ Raises(code) => Quietly
<1> HIDE DEF Api, Raises, Exits, Go
<1>1. stream' = stream => Quietly
  <2> HAVE stream' = stream
  <2>1. List(<<>>) /\ Plain(<<>>)
    BY DEF List, Plain
  <2>2. stream \o <<>> = stream
    BY NoneAdded
  <2> QED BY <2>1, <2>2 DEF Quietly
<1>2. \A e : e.type \notin {"artifact", "result"} /\ stream' = stream \o <<e>> => Quietly
  BY PlainOne, Zenon DEF Quietly
<1>3. \A a, b : {a.type, b.type} \cap {"artifact", "result"} = {} /\ stream' = stream \o <<a, b>> => Quietly
  <2> TAKE a, b
  <2> HAVE {a.type, b.type} \cap {"artifact", "result"} = {} /\ stream' = stream \o <<a, b>>
  <2>1. a.type \notin {"artifact", "result"} /\ b.type \notin {"artifact", "result"}
    OBVIOUS
  <2> QED BY <2>1, PlainTwo, Zenon DEF Quietly
<1>4. \A code : Api /\ Raises(code) => Quietly
  <2> TAKE code
  <2>1. Api /\ Raises(code) => stream' = stream \o <<ErrorEvent(code)>>
    BY DEF Emit, Raises
  <2>2. ErrorEvent(code).type \notin {"artifact", "result"}
    BY PlainEvents
  <2> QED BY <2>1, <2>2, <1>2
<1> QED BY <1>1, <1>2, <1>3, <1>4

\* A quiet step before any file is announced leaves nothing to be told.
LEMMA QuietKeeps ==
  ASSUME Reported, at \notin {"result", "return", "done"}, Quietly, at' # "result", review' = review, ask' = ask
  PROVE  Reported'
<1>1. List(stream) /\ Plain(stream)
  BY DEF Reported
<1>2. PICK t : List(t) /\ Plain(t) /\ stream' = stream \o t
  BY DEF Quietly
<1>3. List(stream') /\ Plain(stream')
  BY <1>1, <1>2, ListsJoin, PlainJoin
<1>4. NoResult(stream')
  BY <1>3 DEF Plain, NoResult
<1>5. ResultTellsTheTruth'
  <2>1. (List(stream) /\ NoResult(stream) => ResultTellsTheTruth)'
    BY NothingClaimed, PTL
  <2> QED BY <2>1, <1>3, <1>4 DEF NoResult, List
<1> QED BY <1>3, <1>5 DEF Reported, List, Plain

\* The start is quiet,
LEMMA BootIsQuiet ==
  ASSUME Path, Api, List(stream), Bootstrap
  PROVE  Quietly /\ at' # "result" /\ at \notin {"result", "return", "done"} /\ review' = review
<1>1. at \notin {"result", "return", "done"} /\ review' = review
  BY BootKeeps DEF Boot
<1>2. at' # "result"
  <2>1. at' \in Boot \cup {"done", ask.command}
    BY BootGoes
  <2>2. ask.command # "result"
    BY CommandOf DEF Commands
  <2> QED BY <2>1, <2>2 DEF Boot
<1>3. stream' = stream \/ \E code : Raises(code)
  <2>1. CASE Main
    BY <2>1, Zenon DEF Main
  <2>2. CASE Startup \/ Onboarding
    BY <2>2 DEF Startup, Onboarding, Path, Careful
  <2>3. CASE DefaultsPath
    BY <2>3, Zenon DEF DefaultsPath
  <2>4. CASE LoadDefaults
    BY <2>4, Zenon DEF LoadDefaults
  <2>5. CASE Dispatch
    BY <2>5, Zenon DEF Dispatch
  <2> QED BY <2>1, <2>2, <2>3, <2>4, <2>5 DEF Bootstrap
<1>4. Quietly
  BY <1>3, QuietSteps, Zenon
<1> QED BY <1>1, <1>2, <1>4

\* a backup until it has published its documents,
LEMMA BackupIsQuiet ==
  ASSUME Path, Api, Narrated, List(stream), BackupNext, ~ReportBackup, ~BackupResult
  PROVE  Quietly /\ at' # "result" /\ at \notin {"result", "return", "done"} /\ review' = review
<1>a. \A e : e.type \notin {"artifact", "result"} /\ stream' = stream \o <<e>> => Quietly
  BY QuietSteps, Zenon
<1>b. \A a, b : {a.type, b.type} \cap {"artifact", "result"} = {} /\ stream' = stream \o <<a, b>> => Quietly
  BY QuietSteps, Zenon
<1>c. stream' = stream => Quietly
  BY QuietSteps, Zenon
<1>d. ASSUME NEW code, Raises(code) PROVE Quietly
  BY <1>d, QuietSteps, Zenon
<1>1. CASE StartBackup
  <2>1. at = "backup" /\ at' # "result" /\ review' = review
    BY <1>1 DEF StartBackup
  <2>2. \/ stream' = stream
        \/ Raises("INVALID_INPUT")
    BY <1>1 DEF StartBackup, Emit
  <2>3. Quietly
    BY <2>2, <1>c, <1>d, Zenon
  <2> QED BY <2>1, <2>3
<1>2. CASE CheckInput
  <2>1. at = "backup_input" /\ at' # "result" /\ review' = review
    BY <1>2 DEF CheckInput, NeedsWizard
  <2>2. \/ Raises("INPUT_REQUIRED")
        \/ stream' = stream \o <<Started>>
    BY <1>2 DEF CheckInput, Emit, NeedsWizard
  <2>3. Started.type \notin {"artifact", "result"}
    BY PlainEvents
  <2>4. Quietly
    BY <2>2, <1>d, <1>a, <2>3, Zenon
  <2> QED BY <2>1, <2>4
<1>3. CASE BackupBrowsers
  <2>1. at = "backup_browsers" /\ at' # "result" /\ review' = review
    BY <1>3 DEF BackupBrowsers
  <2>2. stream' = stream \o <<Phase("plan")>>
    BY <1>3 DEF BackupBrowsers, Emit
  <2>3. Phase("plan").type \notin {"artifact", "result"}
    BY PlainEvents
  <2>4. Quietly
    BY <2>2, <1>a, <2>3, Zenon
  <2> QED BY <2>1, <2>4
<1>4. CASE ResolvePlan
  <2>1. at = "backup_plan" /\ at' # "result" /\ review' = review
    BY <1>4 DEF ResolvePlan
  <2> DEFINE a == Warning("SIGNING_KEY_SHARDING_DISABLED")
             b == Phase("input")
  <2>2. \/ Raises("INVALID_INPUT")
        \/ stream' = stream \o (<<a>> \o <<b>>)
        \/ stream' = stream \o (<<>> \o <<b>>)
    BY <1>4 DEF ResolvePlan, Emit
  <2>3. a.type = "warning" /\ b.type = "phase"
    BY PlainEvents
  <2>4. <<a>> \o <<b>> = <<a, b>>
    BY PairOf
  <2>5. <<>> \o <<b>> = <<b>>
    OBVIOUS
  <2> HIDE DEF a, b
  <2>6. {a.type, b.type} \cap {"artifact", "result"} = {} /\ b.type \notin {"artifact", "result"}
    BY <2>3
  <2>7. \/ Raises("INVALID_INPUT") \/ stream' = stream \o <<a, b>> \/ stream' = stream \o <<b>>
    BY <2>2, <2>4, <2>5
  <2>8. Quietly
    BY <2>6, <2>7, <1>a, <1>b, <1>d, Zenon
  <2> QED BY <2>1, <2>8
<1>5. CASE LoadInputs
  <2>1. at = "backup_inputs" /\ at' # "result" /\ review' = review
    BY <1>5 DEF LoadInputs
  <2>2. stream' = stream \o <<Progress("input", 1, 1), Phase("backup")>>
    BY <1>5 DEF LoadInputs, Emit
  <2>3. {Progress("input", 1, 1).type, Phase("backup").type} \cap {"artifact", "result"} = {}
    BY PlainEvents
  <2>4. Quietly
    BY <2>2, <1>b, <2>3, Zenon
  <2> QED BY <2>1, <2>4
<1>6. CASE PreparePayload
  <2>1. at = "prepare" /\ at' # "result" /\ review' = review
    BY <1>6 DEF PreparePayload
  <2>2. stream' = stream \o <<Phase("prepare")>>
    BY <1>6 DEF PreparePayload, Emit
  <2>3. Phase("prepare").type \notin {"artifact", "result"}
    BY PlainEvents
  <2>4. Quietly
    BY <2>2, <1>a, <2>3, Zenon
  <2> QED BY <2>1, <2>4
<1>7. CASE PrepareEnvelope
  <2>1. at = "envelope" /\ at' # "result" /\ review' = review
    BY <1>7 DEF PrepareEnvelope
  <2>2. stream' = stream \o <<Progress("prepare", 1, 1), Phase("encrypt")>>
    BY <1>7 DEF PrepareEnvelope, Emit
  <2>3. {Progress("prepare", 1, 1).type, Phase("encrypt").type} \cap {"artifact", "result"} = {}
    BY PlainEvents
  <2>4. Quietly
    BY <2>2, <1>b, <2>3, Zenon
  <2> QED BY <2>1, <2>4
<1>8. CASE EncryptPayload
  <2>1. at = "encrypt" /\ at' # "result" /\ review' = review
    BY <1>8 DEF EncryptPayload
  <2>2. stream' = stream \o <<Progress("encrypt", 1, 1), Phase("shard")>>
    BY <1>8 DEF EncryptPayload, Emit
  <2>3. {Progress("encrypt", 1, 1).type, Phase("shard").type} \cap {"artifact", "result"} = {}
    BY PlainEvents
  <2>4. Quietly
    BY <2>2, <1>b, <2>3, Zenon
  <2> QED BY <2>1, <2>4
<1>9. CASE CreateShards
  <2>1. at = "split" /\ at' # "result" /\ review' = review
    BY <1>9 DEF CreateShards
  <2>2. stream' = stream \o <<Progress("shard", ShardTotal, ShardTotal)>>
    BY <1>9 DEF CreateShards, Emit
  <2>3. Progress("shard", ShardTotal, ShardTotal).type \notin {"artifact", "result"}
    BY PlainEvents
  <2>4. Quietly
    BY <2>2, <1>a, <2>3, Zenon
  <2> QED BY <2>1, <2>4
<1>10. CASE ChunkAndStage
  <2>1. at = "chunk" /\ at' # "result" /\ review' = review
    BY <1>10 DEF ChunkAndStage
  <2>2. stream' = stream \o <<>> \/ stream' = stream \o <<Warning("BACKUP_QR_CHUNK_SIZE_REDUCED")>>
    BY <1>10 DEF ChunkAndStage, Emit
  <2>3. Warning("BACKUP_QR_CHUNK_SIZE_REDUCED").type \notin {"artifact", "result"}
    BY PlainEvents
  <2>4. stream \o <<>> = stream
    BY NoneAdded
  <2>5. ASSUME stream' = stream \o <<>> PROVE Quietly
    <3>1. stream' = stream
      BY <2>4, <2>5, Zenon
    <3> QED BY <3>1, <1>c, Zenon
  <2>6. Quietly
    BY <2>2, <2>3, <2>5, <1>a, Zenon
  <2> QED BY <2>1, <2>6
<1>11. CASE PrepareRender
  <2>1. at = "inputs" /\ at' # "result" /\ review' = review
    BY <1>11 DEF PrepareRender
  <2>2. stream' = stream \o <<Phase("render")>>
    BY <1>11 DEF PrepareRender, Emit
  <2>3. Phase("render").type \notin {"artifact", "result"}
    BY PlainEvents
  <2>4. Quietly
    BY <2>2, <1>a, <2>3, Zenon
  <2> QED BY <2>1, <2>4
<1>12. CASE RenderDocument
  <2>1. at = "render" /\ at' # "result" /\ review' = review
    BY <1>12 DEF RenderDocument
  <2>2. \/ stream' = stream \o <<Progress("render", Len(papers) + 1, Len(Documents(plan)))>>
        \/ stream' = stream
    BY <1>12 DEF RenderDocument, Emit
  <2>3. Progress("render", Len(papers) + 1, Len(Documents(plan))).type \notin {"artifact", "result"}
    BY PlainEvents
  <2>4. Quietly
    BY <2>2, <1>a, <1>c, <2>3, Zenon
  <2> QED BY <2>1, <2>4
<1>13. CASE Commit
  <2>1. at = "commit" /\ at' # "result" /\ review' = review
    BY <1>13 DEF Commit
  <2>2. stream' = stream
    BY <1>13 DEF Commit, Emit
  <2>3. Quietly
    BY <2>2, <1>c, Zenon
  <2> QED BY <2>1, <2>3
<1>14. CASE WizardStarts \/ PromptEncryption \/ PromptRecovery \/ PromptLayout \/ PromptInputs \/ ShowReview \/ Proceed
  BY <1>14 DEF WizardStarts, PromptEncryption, PromptRecovery, PromptLayout, PromptInputs, ShowReview, Proceed,
    Narrated, Prompts, Wizard
<1> QED BY <1>1, <1>2, <1>3, <1>4, <1>5, <1>6, <1>7, <1>8, <1>9, <1>10, <1>11, <1>12, <1>13, <1>14 DEF BackupNext

\* a mint
LEMMA MintIsQuiet ==
  ASSUME Path, Api, Narrated, List(stream), MintNext, ~ReportMint
  PROVE  Quietly /\ at' # "result" /\ at \notin {"result", "return", "done"} /\ review' = review
<1>a. \A e : e.type \notin {"artifact", "result"} /\ stream' = stream \o <<e>> => Quietly
  BY QuietSteps, Zenon
<1>b. \A a, b : {a.type, b.type} \cap {"artifact", "result"} = {} /\ stream' = stream \o <<a, b>> => Quietly
  BY QuietSteps, Zenon
<1>c. stream' = stream => Quietly
  BY QuietSteps, Zenon
<1>d. ASSUME NEW code, Raises(code) PROVE Quietly
  BY <1>d, QuietSteps, Zenon
<1>1. CASE StartMint
  <2>1. at = "mint" /\ at' # "result" /\ review' = review
    BY <1>1 DEF StartMint, MintWizard
  <2>2. \/ Raises("INVALID_INPUT")
        \/ stream' = stream \o <<Started>>
    BY <1>1 DEF StartMint, Emit, MintWizard
  <2>3. Started.type \notin {"artifact", "result"}
    BY PlainEvents
  <2>4. Quietly
    BY <2>2, <1>d, <1>a, <2>3, Zenon
  <2> QED BY <2>1, <2>4
<1>2. CASE MintBrowsers
  <2>1. at = "mint_browsers" /\ at' # "result" /\ review' = review
    BY <1>2 DEF MintBrowsers
  <2>2. stream' = stream \o <<Phase("plan")>>
    BY <1>2 DEF MintBrowsers, Emit
  <2>3. Phase("plan").type \notin {"artifact", "result"}
    BY PlainEvents
  <2>4. Quietly
    BY <2>2, <1>a, <2>3, Zenon
  <2> QED BY <2>1, <2>4
<1>3. CASE LoadMint
  <2>1. at = "mint_plan" /\ at' # "result" /\ review' = review
    BY <1>3 DEF LoadMint
  <2>2. \/ Raises("INVALID_INPUT")
        \/ stream' = stream \o <<Progress("plan", 1, 1), Phase("mint")>>
    BY <1>3 DEF LoadMint, Emit
  <2>3. {Progress("plan", 1, 1).type, Phase("mint").type} \cap {"artifact", "result"} = {}
    BY PlainEvents
  <2>4. Quietly
    BY <2>2, <1>d, <1>b, <2>3, Zenon
  <2> QED BY <2>1, <2>4
<1>4. CASE MintFromPlan
  <2>1. at = "mint_shards" /\ at' # "result" /\ review' = review
    BY <1>4 DEF MintFromPlan
  <2>2. \/ Raises("INVALID_INPUT")
        \/ stream' = stream \o <<Progress("mint", 1, 1), Phase("render")>>
    BY <1>4 DEF MintFromPlan, Emit
  <2>3. {Progress("mint", 1, 1).type, Phase("render").type} \cap {"artifact", "result"} = {}
    BY PlainEvents
  <2>4. Quietly
    BY <2>2, <1>d, <1>b, <2>3, Zenon
  <2> QED BY <2>1, <2>4
<1>5. CASE RenderMinted
  <2>1. at = "mint_render" /\ at' # "result" /\ review' = review
    BY <1>5 DEF RenderMinted
  <2>2. \/ stream' = stream \o <<Progress("render", Len(papers) + 1, Len(MintedDocuments(plan)))>>
        \/ stream' = stream
    BY <1>5 DEF RenderMinted, Emit
  <2>3. Progress("render", Len(papers) + 1, Len(MintedDocuments(plan))).type \notin {"artifact", "result"}
    BY PlainEvents
  <2>4. Quietly
    BY <2>2, <1>a, <1>c, <2>3, Zenon
  <2> QED BY <2>1, <2>4
<1>6. CASE StartMintWizard \/ PromptKeys \/ ReadKeys \/ PromptAuthority \/ PromptOutputs
  <2>1. at \in Prompts
    BY <1>6 DEF StartMintWizard, PromptKeys, ReadKeys, PromptAuthority, PromptOutputs, Prompts
  <2> QED BY <2>1 DEF Narrated
<1> QED BY <1>1, <1>2, <1>3, <1>4, <1>5, <1>6 DEF MintNext

\* and the others.
LEMMA ScriptsAreQuiet ==
  ASSUME Path, Api, Narrated, List(stream), Scripts, ~ReportRecovery, ~InspectRecovery, ~InspectMint, ~ReadSettings, ~ReportSettings
  PROVE  Quietly /\ at' # "result" /\ at \notin {"result", "return", "done"} /\ review' = review
<1>a. \A e : e.type \notin {"artifact", "result"} /\ stream' = stream \o <<e>> => Quietly
  BY QuietSteps, Zenon
<1>b. \A a, b : {a.type, b.type} \cap {"artifact", "result"} = {} /\ stream' = stream \o <<a, b>> => Quietly
  BY QuietSteps, Zenon
<1>c. stream' = stream => Quietly
  BY QuietSteps, Zenon
<1>d. ASSUME NEW code, Raises(code) PROVE Quietly
  BY <1>d, QuietSteps, Zenon
<1>1. CASE StartRecover
  <2>1. at = "recover" /\ at' # "result" /\ review' = review
    BY <1>1 DEF StartRecover
  <2>2. \/ Raises("OUTPUT_REQUIRED")
        \/ stream' = stream \o <<Started, Phase("plan")>>
    BY <1>1 DEF StartRecover, Emit
  <2>3. {Started.type, Phase("plan").type} \cap {"artifact", "result"} = {}
    BY PlainEvents
  <2>4. Quietly
    BY <2>2, <1>d, <1>b, <2>3, Zenon
  <2> QED BY <2>1, <2>4
<1>2. CASE PlanRecovery
  <2>1. at = "recover_plan" /\ at' # "result" /\ review' = review
    BY <1>2 DEF PlanRecovery
  <2>2. stream' = stream \o <<Progress("plan", 1, 1), Phase("decrypt")>>
    BY <1>2 DEF PlanRecovery, Emit
  <2>3. {Progress("plan", 1, 1).type, Phase("decrypt").type} \cap {"artifact", "result"} = {}
    BY PlainEvents
  <2>4. Quietly
    BY <2>2, <1>b, <2>3, Zenon
  <2> QED BY <2>1, <2>4
<1>3. CASE DecryptAndExtract
  <2>1. at = "decrypt" /\ at' # "result" /\ review' = review
    BY <1>3 DEF DecryptAndExtract
  <2>2. stream' = stream \o <<Progress("decrypt", 1, 1), Phase("write")>>
    BY <1>3 DEF DecryptAndExtract, Emit
  <2>3. {Progress("decrypt", 1, 1).type, Phase("write").type} \cap {"artifact", "result"} = {}
    BY PlainEvents
  <2>4. Quietly
    BY <2>2, <1>b, <2>3, Zenon
  <2> QED BY <2>1, <2>4
<1>4. CASE WriteRecovered
  <2>1. at = "write" /\ at' # "result" /\ review' = review
    BY <1>4 DEF WriteRecovered
  <2>2. \/ Raises("INVALID_INPUT")
        \/ stream' = stream
    BY <1>4 DEF WriteRecovered, Emit
  <2>3. Quietly
    BY <2>2, <1>d, <1>c, Zenon
  <2> QED BY <2>1, <2>3
<1>5. CASE StartRecoverInspection
  <2>1. at = "inspect_recover" /\ at' # "result" /\ review' = review
    BY <1>5 DEF StartRecoverInspection
  <2>2. stream' = stream \o <<Started, Phase("plan")>>
    BY <1>5 DEF StartRecoverInspection, Emit
  <2>3. {Started.type, Phase("plan").type} \cap {"artifact", "result"} = {}
    BY PlainEvents
  <2>4. Quietly
    BY <2>2, <1>b, <2>3, Zenon
  <2> QED BY <2>1, <2>4
<1>6. CASE StartMintInspection
  <2>1. at = "inspect_mint" /\ at' # "result" /\ review' = review
    BY <1>6 DEF StartMintInspection
  <2>2. stream' = stream \o <<Started, Phase("plan")>>
    BY <1>6 DEF StartMintInspection, Emit
  <2>3. {Started.type, Phase("plan").type} \cap {"artifact", "result"} = {}
    BY PlainEvents
  <2>4. Quietly
    BY <2>2, <1>b, <2>3, Zenon
  <2> QED BY <2>1, <2>4
<1>7. CASE ConfigGet
  <2>1. at = "config_get" /\ at' # "result" /\ review' = review
    BY <1>7 DEF ConfigGet
  <2>2. stream' = stream \o <<Started, Phase("load")>>
    BY <1>7 DEF ConfigGet, Emit
  <2>3. {Started.type, Phase("load").type} \cap {"artifact", "result"} = {}
    BY PlainEvents
  <2>4. Quietly
    BY <2>2, <1>b, <2>3, Zenon
  <2> QED BY <2>1, <2>4
<1>8. CASE ConfigSet
  <2>1. at = "config_set" /\ at' # "result" /\ review' = review
    BY <1>8 DEF ConfigSet
  <2>2. \/ Raises("CONFIG_INPUT_REQUIRED")
        \/ stream' = stream \o <<Started, Phase("validate")>>
    BY <1>8 DEF ConfigSet, Emit
  <2>3. {Started.type, Phase("validate").type} \cap {"artifact", "result"} = {}
    BY PlainEvents
  <2>4. Quietly
    BY <2>2, <1>d, <1>b, <2>3, Zenon
  <2> QED BY <2>1, <2>4
<1>9. CASE ApplyPatch
  <2>1. at = "config_apply" /\ at' # "result" /\ review' = review
    BY <1>9 DEF ApplyPatch
  <2>2. stream' = stream \o <<Phase("write")>>
    BY <1>9 DEF ApplyPatch, Emit
  <2>3. Phase("write").type \notin {"artifact", "result"}
    BY PlainEvents
  <2>4. Quietly
    BY <2>2, <1>a, <2>3, Zenon
  <2> QED BY <2>1, <2>4
<1>10. CASE RenderKit
  BY <1>10 DEF RenderKit, Narrated, Prompts
<1> QED BY <1>1, <1>2, <1>3, <1>4, <1>5, <1>6, <1>7, <1>8, <1>9, <1>10 DEF Scripts

\* What BackupSummary says of the signing key is what its shards are.
LEMMA SummaryIsTrue ==
  ASSUME Path, BackupMade, Api, review = Unset, at = "result", ask.command = "backup"
  PROVE  BackupSummary(plan).files = outputs /\ KeyTold(BackupSummary(plan))
<1> DEFINE r == BackupSummary(plan)
           b == KeyShards(plan)
<1>1. outputs = Documents(plan) /\ Settled(plan)
  BY DEF BackupMade, Planned, Rendered
<1>2. plan.mode = "sharded" => plan.sharding # Unset
  <2>1. plan = OptionsPlan /\ BackupArgs \in BackupArgsType /\ ~BackupInvalid(BackupArgs)
    <3>1. \/ review = Unset /\ plan = OptionsPlan /\ BackupArgs \in BackupArgsType /\ ~BackupInvalid(BackupArgs)
          \/ review = ReviewRows(plan)
      BY DEF BackupMade, Planned
    <3>2. ReviewRows(plan) # Unset
      BY <1>1, ReviewIsSomething DEF Path
    <3> QED BY <3>1, <3>2
  <2> DEFINE a == BackupArgs
  <2> HIDE DEF a
  <2>2. a.t \in Count /\ a.n \in Count /\ a.st \in Count /\ a.sn \in Count /\ ~BackupInvalid(a)
    BY <2>1 DEF a, BackupArgsType
  <2>3. a.mode = "sharded" => Quorum(a.t, a.n) # Unset
    BY <2>2, ValidOptions
  <2>4. a.mode # Unset => Merged(a.mode, "embedded") = a.mode
    BY DEF Merged
  <2>5. plan.mode = Merged(a.mode, "embedded") /\ plan.sharding = Quorum(a.t, a.n)
    BY <2>1 DEF a, OptionsPlan, Placed, PlanFromArgs, DocumentPlan
  <2>6. plan.mode = "sharded" => a.mode = "sharded"
    BY <2>5 DEF Merged
  <2> QED BY <2>3, <2>5, <2>6
<1>3. /\ r.files = outputs /\ r.sharding = plan.sharding /\ r.mode = EffectiveMode(plan)
      /\ r.seed = IF SigningKeySharded(plan) THEN plan.seed ELSE Unset
  BY DEF BackupSummary
<1> HIDE DEF r
<1>4. /\ Len(SigningKeyShards(plan)) = b /\ b \in Nat /\ (b > 0 <=> SigningKeySharded(plan))
  <2>1. b \in Nat /\ (SigningKeySharded(plan) => b > 0) /\ (~SigningKeySharded(plan) => b = 0)
    BY <1>1, CountsOfPlan DEF KeyShards
  <2> DEFINE s == SigningKeyShards(plan)
  <2>2. s = [i \in 1 .. b |-> Document("signing_key_shard", i, KeyQuorum(plan), {"share_of_signing_key"})]
    BY <1>1, ShardDocumentsAre
  <2> HIDE DEF s, b
  <2>3. s = [i \in 1 .. b |-> s[i]]
    BY <2>2
  <2>4. Len(s) = b
    BY <2>1, <2>3, LenOf
  <2> QED BY <2>1, <2>4 DEF s
<1>5. OutputsOf("signing_key_shard") # {} <=> SigningKeySharded(plan)
  <2> DEFINE m == 2 + Indexes + Shards(plan)
  <2>1. OutputsOf("signing_key_shard") = 3 + Indexes + Shards(plan) .. 2 + Indexes + Shards(plan) + b
    BY <1>1, PublishedKinds
  <2>2. Indexes \in Nat /\ Shards(plan) \in Nat
    BY <1>1, CountsOfPlan
  <2> HIDE DEF b
  <2>3. b = 0 => OutputsOf("signing_key_shard") = {}
    BY <2>1, <2>2
  <2>4. b > 0 => 3 + Indexes + Shards(plan) \in OutputsOf("signing_key_shard")
    BY <2>1, <2>2, <1>4
  <2> QED BY <2>3, <2>4, <1>4
<1>6. EffectiveMode(plan) = "sharded" <=> SigningKeySharded(plan)
  BY <1>2, <1>4 DEF EffectiveMode, SigningKeySharded
<1>7. \A j \in OutputsOf("signing_key_shard") : outputs[j].quorum = Merged(r.seed, r.sharding)
  <2> TAKE j \in OutputsOf("signing_key_shard")
  <2>1. outputs[j].quorum = KeyQuorum(plan)
    BY <1>1, PublishedFields
  <2>2. r.seed = plan.seed /\ r.sharding = plan.sharding
    BY <1>3, <1>5
  <2> QED BY <2>1, <2>2 DEF KeyQuorum
<1>8. (r.mode = "sharded") = (OutputsOf("signing_key_shard") # {})
  BY <1>3, <1>5, <1>6
<1>9. r.seed # Unset => r.mode = "sharded"
  BY <1>3, <1>6
<1> QED BY <1>3, <1>7, <1>8, <1>9 DEF KeyTold, r

\* The progress of writing announces no file and no result.
LEMMA WritingIsPlain == ASSUME List(outputs) PROVE List(WrittenEvents) /\ Plain(WrittenEvents)
<1> DEFINE n == Len(outputs)
           v == WrittenEvents
<1>1. List(v) /\ Len(v) = n
  BY Writing DEF Within
<1>2. DOMAIN outputs = 1 .. n
  BY ListDomain
<1>3. v = [i \in 1 .. n |-> Progress("write", i, n)]
  BY <1>2, Zenon DEF WrittenEvents
<1> HIDE DEF n, v
<1>4. \A i \in 1 .. n : v[i].type = "progress"
  <2>1. \A i \in 1 .. n : v[i] = Progress("write", i, n)
    BY <1>3
  <2> QED BY <2>1, PlainEvents
<1> QED BY <1>1, <1>4 DEF Plain, v

\* A result with no files, where none were published.
LEMMA NothingMade ==
  ASSUME Path, Reported, Listed, outputs = <<>>, outputs' = outputs, ask' = ask, review' = review,
         at \notin {"result", "return", "done"}, ask.command # "backup", at' = "return",
         NEW t, List(t), Plain(t), NEW r, r.files = <<>>,
         stream' = (stream \o t) \o <<Result(r)>>
  PROVE  Reported'
<1>1. List(stream) /\ Plain(stream)
  BY DEF Reported
<1>2. List(stream \o t) /\ Plain(stream \o t)
  BY <1>1, ListsJoin, PlainJoin
<1>3. Announced(stream \o t, Len(stream \o t) + 1) /\ NoResult(stream \o t)
  BY <1>2, NothingAnnounced
<1>4. KeyTold(r)
  BY DEF KeyTold
<1>5. List(stream') /\ ResultTellsTheTruth'
  BY <1>2, <1>3, <1>4, TruthTold DEF Listed
<1> QED BY <1>5 DEF Reported, List

\* What is announced and told stays true at every step.
LEMMA ReportedStep ==
  ASSUME Path, BackupMade, LeavesNoTrace, Listed, Narrated, Narrated', Reported, [Next]_vars
  PROVE  Reported'
<1>1. CASE UNCHANGED vars
  <2>1. ResultTellsTheTruth'
    BY <1>1 DEF ResultTellsTheTruth, OutputsOf, Reported, vars
  <2>2. Announced(stream, Len(stream) + 1)' <=> Announced(stream, Len(stream) + 1)
    BY <1>1 DEF Announced, vars
  <2> QED BY <1>1, <2>1, <2>2 DEF Reported, vars
<1>2. CASE Next /\ ~Api
  <2>1. ask' = ask /\ stream' = stream /\ stream = <<>>
    BY <1>2, AskKept, Mute DEF Narrated
  <2>2. List(stream') /\ Plain(stream')
    BY <2>1, PlainNone
  <2>3. ResultTellsTheTruth'
    <3>1. NoResult(stream')
      BY <2>2 DEF Plain, NoResult
    <3>2. (List(stream) /\ NoResult(stream) => ResultTellsTheTruth)'
      BY NothingClaimed, PTL
    <3> QED BY <2>2, <3>1, <3>2 DEF NoResult, List
  <2> QED BY <1>2, <2>1, <2>2, <2>3 DEF Reported, List, Plain
<1>3. CASE Next /\ Api
  <2>1. ask' = ask /\ List(stream) /\ List(outputs) /\ review = Unset
    BY <1>3, AskKept DEF Reported, Listed
  <2>2. ASSUME Quietly /\ at' # "result" /\ at \notin {"result", "return", "done"} /\ review' = review PROVE Reported'
    BY <2>1, <2>2, QuietKeeps
  <2>3. CASE Bootstrap
    BY <1>3, <2>1, <2>2, <2>3, BootIsQuiet
  <2>4. CASE BackupNext /\ ~ReportBackup /\ ~BackupResult
    BY <1>3, <2>1, <2>2, <2>4, BackupIsQuiet
  <2>5. CASE MintNext /\ ~ReportMint
    BY <1>3, <2>1, <2>2, <2>5, MintIsQuiet
  <2>6. CASE Scripts /\ ~ReportRecovery /\ ~InspectRecovery /\ ~InspectMint /\ ~ReadSettings /\ ~ReportSettings
    BY <1>3, <2>1, <2>2, <2>6, ScriptsAreQuiet
  <2>7. CASE ReportBackup
    <3> DEFINE t == [i \in DOMAIN outputs |-> Artifact(outputs[i])]
               s == stream \o t
    <3>1. at = "report" /\ at' = "result" /\ stream' = s /\ outputs' = outputs /\ review' = review
      BY <1>3, <2>7 DEF ReportBackup, Emit
    <3>2. Plain(stream)
      BY <1>3, <3>1 DEF Reported
    <3>3. List(s) /\ Announced(s, Len(s) + 1) /\ NoResult(s)
      BY <2>1, <3>2, AnnouncedBy
    <3> HIDE DEF s
    <3>4. Announced(stream, Len(stream) + 1)'
      BY <3>1, <3>3 DEF Announced
    <3>5. (List(stream) /\ NoResult(stream) => ResultTellsTheTruth)'
      BY NothingClaimed, PTL
    <3>6. List(stream)' /\ NoResult(stream)'
      BY <3>1, <3>3 DEF List, NoResult
    <3> QED BY <2>1, <3>1, <3>4, <3>5, <3>6 DEF Reported
  <2>8. CASE BackupResult
    <3> DEFINE r == BackupSummary(plan)
    <3>1. /\ at = "result" /\ at' = "return" /\ stream' = stream \o <<Result(r)>>
          /\ outputs' = outputs /\ review' = review /\ ask.command = "backup"
      BY <1>3, <2>8 DEF BackupResult, Emit
    <3>2. Announced(stream, Len(stream) + 1) /\ NoResult(stream)
      BY <1>3, <3>1 DEF Reported
    <3>3. r.files = outputs /\ KeyTold(r)
      BY <1>3, <2>1, <3>1, SummaryIsTrue
    <3> HIDE DEF r
    <3>4. List(stream') /\ ResultTellsTheTruth'
      BY <2>1, <3>1, <3>2, <3>3, TruthTold
    <3> QED BY <2>1, <3>1, <3>4 DEF Reported, List
  <2>9. CASE ReportMint
    <3> DEFINE t == [i \in DOMAIN outputs |-> Artifact(outputs[i])]
               s == stream \o t
               r == MintSummary
    <3>1. /\ at = "report" /\ at' = "return" /\ stream' = stream \o (t \o <<Result(r)>>)
          /\ outputs' = outputs /\ review' = review /\ ask.command = "mint"
      BY <1>3, <2>9 DEF ReportMint, Emit
    <3>2. Plain(stream)
      BY <1>3, <3>1 DEF Reported
    <3>3. List(s) /\ Announced(s, Len(s) + 1) /\ NoResult(s)
      BY <2>1, <3>2, AnnouncedBy
    <3>4. r.files = outputs
      BY DEF MintSummary
    <3>5. KeyTold(r)
      BY <3>1 DEF KeyTold
    <3>6. List(t)
      BY <2>1, Announcing DEF Within
    <3> HIDE DEF r, t
    <3>7. stream' = s \o <<Result(r)>>
      BY <2>1, <3>1, <3>6, ListOfOne, JoinedAgain
    <3> HIDE DEF s
    <3>8. List(stream') /\ ResultTellsTheTruth'
      BY <2>1, <3>1, <3>3, <3>4, <3>5, <3>7, TruthTold
    <3> QED BY <2>1, <3>1, <3>8 DEF Reported, List
  <2>10. CASE ReportRecovery
    <3> DEFINE v == WrittenEvents
               t == [i \in DOMAIN outputs |-> Artifact(outputs[i])]
               x == stream \o v
               s == x \o t
               r == [files |-> outputs, dir |-> plan.dir]
    <3>1. /\ at = "report" /\ at' = "return" /\ stream' = stream \o (v \o t \o <<Result(r)>>)
          /\ outputs' = outputs /\ review' = review /\ ask.command = "recover"
      BY <1>3, <2>10 DEF ReportRecovery, Emit
    <3>2. Plain(stream)
      BY <1>3, <3>1 DEF Reported
    <3>3. List(v) /\ Plain(v)
      BY <2>1, WritingIsPlain
    <3>4. List(x) /\ Plain(x)
      BY <2>1, <3>2, <3>3, ListsJoin, PlainJoin
    <3> HIDE DEF x, v
    <3>5. List(s) /\ Announced(s, Len(s) + 1) /\ NoResult(s)
      BY <2>1, <3>4, AnnouncedBy
    <3>6. r.files = outputs
      OBVIOUS
    <3>7. KeyTold(r)
      BY <3>1 DEF KeyTold
    <3>8. List(t)
      BY <2>1, Announcing DEF Within
    <3> DEFINE e == <<Result(r)>>
    <3>9. List(e)
      BY ListOfOne
    <3> HIDE DEF t, e, r
    <3>10. stream' = s \o e
      <4>1. List(v \o t)
        BY <3>3, <3>8, ListsJoin
      <4>2. stream \o ((v \o t) \o e) = (stream \o (v \o t)) \o e
        BY <2>1, <3>9, <4>1, JoinedAgain
      <4>3. stream \o (v \o t) = (stream \o v) \o t
        BY <2>1, <3>3, <3>8, JoinedAgain
      <4> QED BY <3>1, <4>2, <4>3 DEF e, x
    <3> HIDE DEF s
    <3>11. List(stream') /\ ResultTellsTheTruth'
      BY <2>1, <3>1, <3>5, <3>6, <3>7, <3>10, TruthTold DEF e
    <3> QED BY <2>1, <3>1, <3>11 DEF Reported, List
  <2>11. CASE InspectRecovery
    <3> DEFINE no == [files |-> <<>>, ready |-> FALSE]
               yes == [files |-> <<>>, ready |-> TRUE]
               e == Progress("plan", 1, 1)
               d == Phase("decrypt")
               f == Progress("decrypt", 1, 1)
    <3>1. /\ at = "inspect" /\ at' = "return" /\ ask.command = "inspect_recover"
          /\ outputs' = outputs /\ review' = review
          /\ \/ stream' = stream \o <<e, Result(no)>>
             \/ stream' = stream \o <<e, d, Result(no)>>
             \/ stream' = stream \o <<e, d, f, Result(yes)>>
      BY <1>3, <2>11 DEF InspectRecovery, Emit
    <3>2. outputs = <<>>
      BY <3>1 DEF LeavesNoTrace
    <3>3. no.files = <<>> /\ yes.files = <<>>
      OBVIOUS
    <3>4. e.type = "progress" /\ f.type = "progress" /\ d.type = "phase"
      BY PlainEvents
    <3> HIDE DEF no, yes, e, d, f
    <3>5. List(<<e>>) /\ Plain(<<e>>) /\ List(<<f>>) /\ Plain(<<f>>) /\ List(<<e, d>>) /\ Plain(<<e, d>>)
      BY <3>4, PlainOne, PlainTwo
    <3>6. List(<<e, d>> \o <<f>>) /\ Plain(<<e, d>> \o <<f>>)
      BY <3>5, ListsJoin, PlainJoin
    <3> DEFINE y == Result(yes)
               o == Result(no)
    <3> HIDE DEF y, o
    <3>7. stream \o <<e, o>> = (stream \o <<e>>) \o <<o>>
      BY <2>1, OneByOne
    <3>8. stream \o <<e, d, o>> = (stream \o <<e, d>>) \o <<o>>
      <4>1. <<e, d, o>> = <<e, d>> \o <<o>>
        BY OneAfterTwo
      <4>2. stream \o (<<e, d>> \o <<o>>) = (stream \o <<e, d>>) \o <<o>>
        BY <2>1, <3>5, ListOfOne, JoinedAgain
      <4> QED BY <4>1, <4>2
    <3>9. stream \o <<e, d, f, y>> = (stream \o (<<e, d>> \o <<f>>)) \o <<y>>
      <4>1. <<e, d, f, y>> = <<e, d>> \o <<f, y>>
        BY TwoAfterTwo
      <4>2. <<e, d>> \o <<f, y>> = (<<e, d>> \o <<f>>) \o <<y>>
        BY <3>5, OneByOne
      <4>3. stream \o ((<<e, d>> \o <<f>>) \o <<y>>) = (stream \o (<<e, d>> \o <<f>>)) \o <<y>>
        BY <2>1, <3>6, ListOfOne, JoinedAgain
      <4> QED BY <4>1, <4>2, <4>3
    <3>10. CASE stream' = stream \o <<e, o>>
      <4>1. stream' = (stream \o <<e>>) \o <<Result(no)>>
        BY <3>7, <3>10 DEF o
      <4> QED BY <2>1, <3>1, <3>2, <3>3, <3>5, <4>1, NothingMade
    <3>11. CASE stream' = stream \o <<e, d, o>>
      <4>1. stream' = (stream \o <<e, d>>) \o <<Result(no)>>
        BY <3>8, <3>11 DEF o
      <4> QED BY <2>1, <3>1, <3>2, <3>3, <3>5, <4>1, NothingMade
    <3>12. CASE stream' = stream \o <<e, d, f, y>>
      <4> DEFINE t == <<e, d>> \o <<f>>
      <4>1. stream' = (stream \o t) \o <<Result(yes)>>
        BY <3>9, <3>12 DEF y
      <4>2. List(t) /\ Plain(t)
        BY <3>6
      <4> HIDE DEF t
      <4> QED BY <2>1, <3>1, <3>2, <3>3, <4>1, <4>2, NothingMade
    <3> QED BY <3>1, <3>10, <3>11, <3>12 DEF o, y
  <2>12. CASE InspectMint
    <3> DEFINE e == Progress("plan", 1, 1)
    <3>1. /\ at = "inspect" /\ at' = "return" /\ ask.command = "inspect_mint"
          /\ outputs' = outputs /\ review' = review
      BY <2>12 DEF InspectMint
    <3>2. \E ready \in BOOLEAN : stream' = stream \o <<e, Result([files |-> <<>>, ready |-> ready])>>
      BY <1>3, <2>12, Zenon DEF InspectMint, Emit
    <3>3. PICK ready \in BOOLEAN : stream' = stream \o <<e, Result([files |-> <<>>, ready |-> ready])>>
      BY <3>2
    <3> DEFINE r == [files |-> <<>>, ready |-> ready]
               o == Result(r)
    <3>4. outputs = <<>>
      BY <3>1 DEF LeavesNoTrace
    <3>5. r.files = <<>> /\ e.type = "progress"
      BY PlainEvents
    <3>6. stream' = stream \o <<e, o>>
      BY <3>3
    <3> HIDE DEF e, o, r
    <3>7. List(<<e>>) /\ Plain(<<e>>)
      BY <3>5, PlainOne
    <3>8. stream' = (stream \o <<e>>) \o <<o>>
      BY <2>1, <3>6, OneByOne
    <3>9. stream' = (stream \o <<e>>) \o <<Result(r)>>
      BY <3>8 DEF o
    <3> QED BY <2>1, <3>1, <3>4, <3>5, <3>7, <3>9, NothingMade
  <2>13. CASE ReadSettings \/ ReportSettings
    <3> DEFINE r == [files |-> <<>>]
    <3>1. /\ at \in {"config_read", "config_report"} /\ at' = "return"
          /\ outputs' = outputs /\ review' = review /\ stream' = stream \o <<Result(r)>>
      BY <1>3, <2>13 DEF ReadSettings, ReportSettings, Emit
    <3>2. ask.command \in {"config_get", "config_set"}
      BY <3>1, CommandOf
    <3>3. outputs = <<>>
      BY <3>2 DEF LeavesNoTrace
    <3>4. r.files = <<>>
      OBVIOUS
    <3> HIDE DEF r
    <3>5. Plain(stream)
      BY <1>3, <3>1 DEF Reported
    <3>6. Announced(stream, Len(stream) + 1) /\ NoResult(stream)
      BY <2>1, <3>3, <3>5, NothingAnnounced
    <3>7. KeyTold(r)
      BY <3>2 DEF KeyTold
    <3>8. List(stream') /\ ResultTellsTheTruth'
      BY <2>1, <3>1, <3>3, <3>4, <3>6, <3>7, TruthTold
    <3> QED BY <2>1, <3>1, <3>8 DEF Reported, List
  <2>14. CASE Return \/ Breaks \/ Interrupt
    <3>1. outputs' = outputs /\ review' = review /\ at' = "done"
      BY <2>14, EndMoves
    <3>2. stream' = stream \/ (\E code : stream' = stream \o <<ErrorEvent(code)>>)
      BY <1>3, <2>14, Zenon DEF Return, Breaks, Interrupt, Emit, Raises, Cancels, Returns
    <3>3. ResultTellsTheTruth
      BY DEF Reported
    <3>4. List(stream') /\ ResultTellsTheTruth'
      <4>1. CASE stream' = stream
        <5>1. stream' = stream \/ stream' = stream \o <<ErrorEvent("CANCELLED")>>
          BY <4>1
        <5> QED BY <2>1, <3>1, <3>3, <5>1, TruthKept
      <4>2. ASSUME NEW code, stream' = stream \o <<ErrorEvent(code)>> PROVE List(stream') /\ ResultTellsTheTruth'
        BY <2>1, <3>1, <3>3, <4>2, TruthKept
      <4> QED BY <3>2, <4>1, <4>2
    <3> QED BY <2>1, <3>1, <3>4 DEF Reported, List
  <2> QED BY <1>3, <2>3, <2>4, <2>5, <2>6, <2>7, <2>8, <2>9, <2>10, <2>11, <2>12, <2>13, <2>14 DEF Next
<1> QED BY <1>1, <1>2, <1>3

\* A result is true whenever there is one: what it names was published, announced file by file,
\* and a backup's says how the signing key is really kept.
THEOREM ResultsAlwaysTellTheTruth == Spec => []ResultTellsTheTruth
<1> DEFINE Inv == Path /\ BackupMade /\ LeavesNoTrace /\ Listed /\ Narrated /\ Reported
<1>1. Init => Inv
  <2>1. Init => LeavesNoTrace
    BY DEF Init, LeavesNoTrace
  <2>2. Init => Reported
    BY DEF Init, Reported, List, Plain, ResultTellsTheTruth
  <2> QED BY <2>1, <2>2, PathInit, BackupInit, NarratedInit
<1>2. Inv /\ [Next]_vars => Inv'
  <2> SUFFICES ASSUME Inv, [Next]_vars PROVE Inv'
    OBVIOUS
  <2>1. Path'
    BY PathStep
  <2>2. BackupMade'
    BY BackupStep
  <2>3. LeavesNoTrace'
    BY <2>1, TraceStep
  <2>4. Listed'
    BY ListedStep
  <2>5. Narrated'
    BY NarratedStep
  <2>6. Reported'
    BY <2>5, ReportedStep
  <2> QED BY <2>1, <2>2, <2>3, <2>4, <2>5, <2>6
<1>3. Inv => ResultTellsTheTruth
  BY DEF Reported
<1> QED
  BY <1>1, <1>2, <1>3, PTL DEF Spec
=============================================================================
