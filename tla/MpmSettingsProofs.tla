------------------------- MODULE MpmSettingsProofs -------------------------
(***************************************************************************)
(* The settings that check_settings leaves are good for every number in    *)
(* the configuration file: the inductive invariant also says what the      *)
(* directives have left before the check.                                  *)
(***************************************************************************)
EXTENDS MpmSettings, TLAPS

\* Before the check the settings are in the compile-time range, but need not
\* fit one another.
InRange ==
    /\ limit \in 1 .. MaxThreadLimit
    /\ start \in 1 .. MaxThreadLimit
    /\ min \in Int
    /\ max \in Int
    /\ requests \in Nat
    /\ php \in BOOLEAN
    /\ stage = "config" => min >= 1 /\ max >= 1

IInv == InRange /\ CheckedSettings

LEMMA InitGood == Init => IInv
  BY LimitAssumption DEF Init, IInv, InRange, CheckedSettings, DefaultThreadLimit

\* A directive leaves every setting in range.
LEMMA DirectiveGood == IInv /\ Directive => IInv'
<1> SUFFICES ASSUME IInv, Directive PROVE IInv'
  OBVIOUS
<1>1. PICK arg \in Args :
         \/ SetThreadsToStart(arg) \/ SetMinSpareThreads(arg)
         \/ SetMaxSpareThreads(arg) \/ SetThreadLimit(arg) \/ SetMaxRequests(arg)
  BY DEF Directive
<1>2. arg \in Int /\ stage = "config" /\ stage' = stage /\ php' = php
  BY LimitAssumption DEF Directive
<1> USE LimitAssumption, <1>2
    DEF IInv, InRange, CheckedSettings, DefaultThreadLimit, Clamp
<1>3. CASE SetThreadsToStart(arg)
  BY <1>3 DEF SetThreadsToStart
<1>4. CASE SetMinSpareThreads(arg)
  BY <1>4 DEF SetMinSpareThreads
<1>5. CASE SetMaxSpareThreads(arg)
  BY <1>5 DEF SetMaxSpareThreads
<1>6. CASE SetThreadLimit(arg)
  BY <1>6 DEF SetThreadLimit
<1>7. CASE SetMaxRequests(arg)
  BY <1>7 DEF SetMaxRequests
<1>8. QED  BY <1>1, <1>3, <1>4, <1>5, <1>6, <1>7

\* The check makes them fit one another.
LEMMA CheckGood == IInv /\ CheckSettings => IInv'
<1> SUFFICES ASSUME IInv, CheckSettings PROVE IInv'
  OBVIOUS
<1> USE LimitAssumption DEF IInv, InRange, CheckedSettings, CheckSettings
<1>1. stage = "config" /\ stage' = "checked" /\ php' = php /\ requests' = requests
  OBVIOUS
<1>2. CASE php /\ limit > 1
  BY <1>1, <1>2
<1>3. CASE ~(php /\ limit > 1)
  <2>1. limit' = limit /\ start' \in 1 .. limit
    BY <1>3 DEF AtMost
  <2>2. max' \in 0 .. limit - 1 /\ min' \in 0 .. max'
    BY <1>1, <1>3 DEF AtMost
  <2>3. php => limit' = 1
    BY <1>3, <2>1
  <2>4. limit' > 1 => min' > 0
    BY <1>1, <1>3 DEF AtMost
  <2>5. QED  BY <1>1, <2>1, <2>2, <2>3, <2>4
<1>4. QED  BY <1>2, <1>3

\* For all arguments of all directives, in any order, over any number of
\* generations: what ap_mpm_run uses after check_settings is sound.
THEOREM SettingsSound == Spec => []CheckedSettings
<1>1. IInv /\ [Next]_vars => IInv'
  <2> SUFFICES ASSUME IInv, [Next]_vars PROVE IInv'
    OBVIOUS
  <2>1. CASE Directive
    BY <2>1, DirectiveGood
  <2>2. CASE CheckSettings
    BY <2>2, CheckGood
  <2>3. CASE PreConfig
    BY <2>3, LimitAssumption
       DEF PreConfig, IInv, InRange, CheckedSettings, DefaultThreadLimit
  <2>4. CASE UNCHANGED vars
    BY <2>4 DEF vars, IInv, InRange, CheckedSettings
  <2>5. QED  BY <2>1, <2>2, <2>3, <2>4 DEF Next
<1>2. IInv => CheckedSettings
  BY DEF IInv
<1>3. QED  BY InitGood, <1>1, <1>2, PTL DEF Spec
=============================================================================
