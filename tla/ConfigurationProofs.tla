------------------------- MODULE ConfigurationProofs -------------------------
(***************************************************************************)
(* The configuration's invariants, for any agents and any set of files and   *)
(* of command lines.                                                        *)
(***************************************************************************)
EXTENDS Configuration, TLAPS

(* What from_serve_args makes of a file that can be read is a list of paths. *)
LEMMA MergedIsList ==
    ASSUME NEW a \in CommandLines, NEW f \in Files
    PROVE  Merged(a, f) \in Seq(Agents)
<1>1. a \in Seq(Agents) \/ a = Unset
  BY ConfigAssumption DEF Optional
<1>2. f.agents \in Seq(Agents) \/ f.agents = Unset
  BY ConfigAssumption DEF FileTexts, Optional
<1> QED
  BY <1>1, <1>2 DEF Merged, Given

LEMMA HeldAreLists ==
    ASSUME NEW f \in Files
    PROVE  Held(f) \subseteq Seq(Agents)
  BY ConfigAssumption DEF Held, Lists, FileTexts, Optional

-----------------------------------------------------------------------------
LEMMA InitTypes == ConfigInit => ConfigTypeOK
<1> SUFFICES ASSUME ConfigInit PROVE ConfigTypeOK
  OBVIOUS
<1>1. configured \in Seq(Agents) /\ offered \subseteq Seq(Agents)
  <2>1. <<>> \in Seq(Agents)
    OBVIOUS
  <2> QED
    BY <2>1 DEF ConfigInit
<1>2. file \in Files /\ args \in CommandLines /\ phase \in {"down", "up", "failed"}
  BY ConfigAssumption DEF ConfigInit
<1> QED
  BY <1>1, <1>2 DEF ConfigTypeOK

LEMMA StepTypes == ConfigTypeOK /\ [ConfigNext]_configVars => ConfigTypeOK'
<1> SUFFICES ASSUME ConfigTypeOK, [ConfigNext]_configVars PROVE ConfigTypeOK'
  OBVIOUS
<1> USE DEF ConfigTypeOK
<1>1. ASSUME NEW f \in Files, Edit(f) PROVE ConfigTypeOK'
  BY <1>1, HeldAreLists DEF Edit
<1>2. ASSUME NEW a \in CommandLines, Start(a) PROVE ConfigTypeOK'
  <2>1. configured' \in Seq(Agents)
    BY <1>2, MergedIsList DEF Start
  <2> QED
    BY <1>2, <2>1, HeldAreLists DEF Start
<1>3. ASSUME NEW a \in CommandLines, StartFails(a) PROVE ConfigTypeOK'
  BY <1>3 DEF StartFails
<1>4. ASSUME Stop PROVE ConfigTypeOK'
  BY <1>4 DEF Stop
<1>5. ASSUME Hangup PROVE ConfigTypeOK'
  BY <1>5, HeldAreLists DEF Hangup, Held
<1>6. CASE UNCHANGED configVars
  BY <1>6 DEF configVars
<1> QED
  BY <1>1, <1>2, <1>3, <1>4, <1>5, <1>6 DEF ConfigNext

(* The state keeps its types: above all, no SIGHUP puts anything in the      *)
(* configured list but paths.                                                *)
THEOREM ConfigTypes == ConfigSpec => []ConfigTypeOK
<1>1. ConfigInit => ConfigTypeOK
  BY InitTypes
<1>2. ConfigTypeOK /\ [ConfigNext]_configVars => ConfigTypeOK'
  BY StepTypes
<1> QED
  BY <1>1, <1>2, PTL DEF ConfigSpec

-----------------------------------------------------------------------------
(* What AgentsSurviveBadFiles rests on: a list that a SIGHUP could find now  *)
(* has been offered.                                                         *)
Heard == phase = "up" => configured \in offered /\ Held(file) \subseteq offered

(* The list in force is the one the daemon started with or one the file has  *)
(* held since, whatever a SIGHUP found in its place.                         *)
THEOREM AgentsSurvive == ConfigSpec => []AgentsSurviveBadFiles
<1>1. ConfigInit => Heard
  BY DEF ConfigInit, Heard
<1>2. Heard /\ [ConfigNext]_configVars => Heard'
  <2> SUFFICES ASSUME Heard, [ConfigNext]_configVars PROVE Heard'
    OBVIOUS
  <2> USE DEF Heard
  <2>1. ASSUME NEW f \in Files, Edit(f) PROVE Heard'
    BY <2>1 DEF Edit
  <2>2. ASSUME NEW a \in CommandLines, Start(a) PROVE Heard'
    BY <2>2 DEF Start
  <2>3. ASSUME NEW a \in CommandLines, StartFails(a) PROVE Heard'
    BY <2>3 DEF StartFails
  <2>4. ASSUME Stop PROVE Heard'
    BY <2>4 DEF Stop
  <2>5. ASSUME Hangup PROVE Heard'
    BY <2>5 DEF Hangup, Held
  <2>6. CASE UNCHANGED configVars
    BY <2>6 DEF configVars
  <2> QED
    BY <2>1, <2>2, <2>3, <2>4, <2>5, <2>6 DEF ConfigNext
<1>3. Heard => AgentsSurviveBadFiles
  BY DEF Heard, AgentsSurviveBadFiles
<1> QED
  BY <1>1, <1>2, <1>3, PTL DEF ConfigSpec

=============================================================================
