--------------------------- MODULE EngineProofs ---------------------------
(***************************************************************************)
(* Proofs about start-up and plugin registration, for every set of command *)
(* names and every number of directory entries.                            *)
(***************************************************************************)
EXTENDS Engine, TLAPS

\* Every step keeps the types.
LEMMA EngineTypeStep ==
    ASSUME TypeOK, [Next]_vars
    PROVE  TypeOK'
<1> USE EngineAssumption
<1>1. CASE LoadConfig
  BY <1>1 DEF LoadConfig, TypeOK, Phases
<1>2. CASE StatPluginDir
  BY <1>2 DEF StatPluginDir, TypeOK, Phases
<1>3. CASE WalkFails
  BY <1>3 DEF WalkFails, TypeOK, Phases
<1>4. CASE SkipEntry
  BY <1>4 DEF SkipEntry, TypeOK, Positions
<1>5. CASE RegisterPlugin
  BY <1>5 DEF RegisterPlugin, TypeOK, Positions
<1>6. CASE WalkDone
  BY <1>6 DEF WalkDone, TypeOK, Phases
<1>7. CASE AddCommands
  BY <1>7 DEF AddCommands, TypeOK, Phases
<1>8. CASE UNCHANGED vars
  BY <1>8 DEF vars, TypeOK
<1>. QED
  BY <1>1, <1>2, <1>3, <1>4, <1>5, <1>6, <1>7, <1>8 DEF Next

\* Start-up keeps its variables in their types.
THEOREM EngineTypeCorrect == Spec => []TypeOK
<1>1. Init => TypeOK
  BY EngineAssumption DEF Init, TypeOK, Positions, Phases
<1>. QED
  BY <1>1, EngineTypeStep, PTL DEF Spec

\* Registering the plugin at pos extends the providers of every name it
\* offers by pos, and leaves the others' alone.
LEMMA ProvidersStep ==
    ASSUME TypeOK, NEW n \in Names, pos <= MaxEntries, entries' = entries,
           pos' = pos + 1
    PROVE  Providers(n, pos)' =
              IF entries[pos].kind = "so" /\ entries[pos].load = "ok"
                 /\ n \in entries[pos].cmds
              THEN Providers(n, pos) \cup {pos}
              ELSE Providers(n, pos)
BY EngineAssumption DEF TypeOK, Providers, Positions

\* The first-registration invariant is inductive together with the types.
LEMMA FirstWinsStep ==
    ASSUME TypeOK, FirstRegistrationWins, [Next]_vars
    PROVE  FirstRegistrationWins'
<1> USE EngineAssumption
<1>1. CASE RegisterPlugin
  <2> SUFFICES ASSUME NEW n \in Names
               PROVE  FirstRegistrationWins!(n)'
    BY DEF FirstRegistrationWins
  <2>1. pos <= MaxEntries /\ entries' = entries /\ pos' = pos + 1
    BY <1>1 DEF RegisterPlugin
  <2>2. Providers(n, pos)' =
           IF n \in entries[pos].cmds THEN Providers(n, pos) \cup {pos}
           ELSE Providers(n, pos)
    BY <1>1, <2>1, ProvidersStep DEF RegisterPlugin
  <2>3. registry'[n] = IF n \in entries[pos].cmds /\ registry[n] = 0
                       THEN pos ELSE registry[n]
    BY <1>1 DEF RegisterPlugin, TypeOK
  <2>4. \A j \in Providers(n, pos) : j < pos
    BY DEF Providers, TypeOK, Positions
  <2>5. registry[n] = 0 <=> Providers(n, pos) = {}
    BY <2>4 DEF FirstRegistrationWins, Providers, TypeOK, Positions
  <2>6. FirstRegistrationWins!(n)
    BY DEF FirstRegistrationWins
  <2>7. registry[n] \in Nat /\ pos \in Nat
    BY DEF TypeOK, Positions
  <2>8. CASE n \notin entries[pos].cmds
    BY <2>2, <2>3, <2>6, <2>8
  <2>9. CASE n \in entries[pos].cmds /\ registry[n] = 0
    <3>1. Providers(n, pos)' = {pos} /\ registry'[n] = pos
      BY <2>2, <2>3, <2>5, <2>9
    <3>. QED
      BY <3>1, <2>7
  <2>10. CASE n \in entries[pos].cmds /\ registry[n] # 0
    <3>1. Providers(n, pos) # {}
      BY <2>5, <2>10
    <3>2. registry[n] \in Providers(n, pos)
          /\ \A j \in Providers(n, pos) : registry[n] <= j
      BY <2>6, <3>1
    <3>3. registry[n] < pos
      BY <2>4, <3>2
    <3>4. Providers(n, pos)' = Providers(n, pos) \cup {pos}
          /\ registry'[n] = registry[n]
      BY <2>2, <2>3, <2>10
    <3>. QED
      BY <3>2, <3>3, <3>4, <2>7
  <2>. QED
    BY <2>8, <2>9, <2>10
<1>2. CASE SkipEntry
  <2> SUFFICES ASSUME NEW n \in Names
               PROVE  FirstRegistrationWins!(n)'
    BY DEF FirstRegistrationWins
  <2>1. Providers(n, pos)' = Providers(n, pos)
    BY <1>2, ProvidersStep DEF SkipEntry
  <2>2. registry' = registry
    BY <1>2 DEF SkipEntry
  <2>. QED
    BY <2>1, <2>2 DEF FirstRegistrationWins
<1>3. CASE LoadConfig \/ StatPluginDir \/ WalkFails \/ WalkDone
             \/ AddCommands \/ UNCHANGED vars
  BY <1>3 DEF LoadConfig, StatPluginDir, WalkFails, WalkDone, AddCommands,
              vars, FirstRegistrationWins, Providers
<1>. QED
  BY <1>1, <1>2, <1>3 DEF Next

\* First registration wins, in every state of start-up.
THEOREM FirstRegistrationWinsHolds == Spec => []FirstRegistrationWins
<1>1. Init => FirstRegistrationWins
  <2> SUFFICES ASSUME Init, NEW n \in Names
               PROVE  FirstRegistrationWins!(n)
    BY DEF FirstRegistrationWins
  <2>1. Providers(n, pos) = {}
    BY DEF Init, Providers
  <2>2. registry[n] = 0
    BY DEF Init
  <2>. QED
    BY <2>1, <2>2
<1>2. TypeOK /\ FirstRegistrationWins /\ [Next]_vars
        => FirstRegistrationWins'
  BY FirstWinsStep
<1>. QED
  BY <1>1, <1>2, EngineTypeCorrect, PTL DEF Spec
====
