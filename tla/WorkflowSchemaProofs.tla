------------------------ MODULE WorkflowSchemaProofs ------------------------
(***************************************************************************)
(* What the comparison of schemas promises, for every definition, snapshot *)
(* and catalogue: a workflow that is not called incompatible would be      *)
(* accepted as it is.                                                      *)
(***************************************************************************)
EXTENDS WorkflowSchema, TLAPS

(* What is said of a required field is yes or no. *)
Plain(schema) ==
    /\ \A i \in DOMAIN schema.inputs : schema.inputs[i].required \in BOOLEAN
    /\ \A o \in DOMAIN schema.outputs : schema.outputs[o].required \in BOOLEAN

(* A report that is not "incompatible" has no incompatible difference.     *)
LEMMA NoneIncompatible ==
    ASSUME NEW def, NEW saved, NEW catalogue,
           Report(def, saved, catalogue) # "incompatible"
    PROVE  \A d \in Diffs(def, saved, catalogue) : ~d.incompatible
BY DEF Report

(* Every job of the definition is then still advertised, and none of the   *)
(* differences of its inputs and outputs is incompatible.                  *)
LEMMA JobCompared ==
    ASSUME NEW def, NEW saved, NEW catalogue, DOMAIN saved = DOMAIN def,
           Report(def, saved, catalogue) # "incompatible",
           NEW j \in DOMAIN def
    PROVE  /\ Advertises(catalogue, def[j])
           /\ LET current == catalogue[def[j].runner][def[j].name]
              IN /\ \A d \in InputDiffs(j, saved[j], current, BoundInputs(def, j)) : ~d.incompatible
                 /\ \A d \in OutputDiffs(j, saved[j], current, ReferencedOutputs(def, j)) : ~d.incompatible
<1>1. \A d \in JobDiffs(def, saved, catalogue, j) : ~d.incompatible
  BY NoneIncompatible DEF Diffs
<1>2. Advertises(catalogue, def[j])
  <2>1. SUFFICES ASSUME ~Advertises(catalogue, def[j]) PROVE FALSE
    OBVIOUS
  <2>2. JobRemoved(j) \in JobDiffs(def, saved, catalogue, j)
    BY <2>1 DEF JobDiffs
  <2>3. JobRemoved(j).incompatible
    BY DEF JobRemoved, Diff
  <2> QED BY <1>1, <2>2, <2>3
<1> QED BY <1>1, <1>2 DEF JobDiffs

(* An input that the definition binds is still there and of its kind, and  *)
(* an input that is required now was required before.                      *)
LEMMA InputsKept ==
    ASSUME NEW j, NEW saved, NEW current, NEW bound, Plain(saved), Plain(current),
           \A d \in InputDiffs(j, saved, current, bound) : ~d.incompatible
    PROVE  /\ \A i \in DOMAIN saved.inputs \cap bound :
                 /\ i \in DOMAIN current.inputs
                 /\ current.inputs[i].kind = saved.inputs[i].kind
           /\ \A i \in DOMAIN current.inputs : current.inputs[i].required =>
                 i \in DOMAIN saved.inputs /\ saved.inputs[i].required
<1> DEFINE was == saved.inputs
           now == current.inputs
           needed(i) == was[i].required \/ i \in bound
<1>1. ASSUME NEW i \in DOMAIN now \ DOMAIN was
      PROVE  Diff("input_added", j, i, now[i].required) \in InputDiffs(j, saved, current, bound)
  BY DEF InputDiffs
<1>2. ASSUME NEW i \in DOMAIN was \ DOMAIN now
      PROVE  Diff("input_removed", j, i, needed(i)) \in InputDiffs(j, saved, current, bound)
  BY DEF InputDiffs
<1>3. ASSUME NEW i \in DOMAIN was \cap DOMAIN now, was[i].kind # now[i].kind
      PROVE  Diff("input_type_changed", j, i, needed(i)) \in InputDiffs(j, saved, current, bound)
  BY <1>3 DEF InputDiffs
<1>4. ASSUME NEW i \in DOMAIN was \cap DOMAIN now, was[i].required # now[i].required
      PROVE  Diff("input_requiredness_changed", j, i, now[i].required /\ ~was[i].required)
                \in InputDiffs(j, saved, current, bound)
  BY <1>4 DEF InputDiffs
<1>5. ASSUME NEW kind, NEW i, NEW b, Diff(kind, j, i, b) \in InputDiffs(j, saved, current, bound)
      PROVE  ~b
  BY <1>5 DEF Diff
<1>6. ASSUME NEW i \in DOMAIN was \cap bound
      PROVE  i \in DOMAIN now /\ now[i].kind = was[i].kind
  <2>1. needed(i)
    OBVIOUS
  <2> QED BY <1>2, <1>3, <1>5, <2>1
<1>7. ASSUME NEW i \in DOMAIN now, now[i].required
      PROVE  i \in DOMAIN was /\ was[i].required
  <2>1. i \in DOMAIN was
    BY <1>1, <1>5, <1>7
  <2>2. CASE ~was[i].required
    BY <1>4, <1>5, <1>7, <2>1, <2>2
  <2> QED BY <2>1, <2>2
<1> QED BY <1>6, <1>7

(* An output that another job reads is still there and of its kind.        *)
LEMMA OutputsKept ==
    ASSUME NEW j, NEW saved, NEW current, NEW referenced,
           \A d \in OutputDiffs(j, saved, current, referenced) : ~d.incompatible
    PROVE  \A o \in DOMAIN saved.outputs \cap referenced :
               /\ o \in DOMAIN current.outputs
               /\ current.outputs[o].kind = saved.outputs[o].kind
<1> DEFINE was == saved.outputs
           now == current.outputs
           needed(o) == was[o].required \/ o \in referenced
<1>1. ASSUME NEW o \in DOMAIN was \ DOMAIN now
      PROVE  Diff("output_removed", j, o, needed(o)) \in OutputDiffs(j, saved, current, referenced)
  BY DEF OutputDiffs
<1>2. ASSUME NEW o \in DOMAIN was \cap DOMAIN now, was[o].kind # now[o].kind
      PROVE  Diff("output_type_changed", j, o, needed(o)) \in OutputDiffs(j, saved, current, referenced)
  BY <1>2 DEF OutputDiffs
<1>3. ASSUME NEW kind, NEW o, NEW b, Diff(kind, j, o, b) \in OutputDiffs(j, saved, current, referenced)
      PROVE  ~b
  BY <1>3 DEF Diff
<1> QED BY <1>1, <1>2, <1>3

(* The report is sound: a definition that was accepted against its         *)
(* snapshot and is not called incompatible is accepted against what is     *)
(* advertised now.                                                         *)
THEOREM ReportSound ==
    ASSUME NEW def, NEW saved, NEW catalogue,
           Accepted(def, saved),
           Report(def, saved, catalogue) # "incompatible",
           \A j \in DOMAIN def : Plain(saved[j]) /\ Plain(Now(def, catalogue)[j])
    PROVE  Accepted(def, Now(def, catalogue))
<1> DEFINE now == Now(def, catalogue)
<1>1. DOMAIN saved = DOMAIN def /\ DOMAIN now = DOMAIN def
  BY DEF Accepted, Now
<1>2. ASSUME NEW j \in DOMAIN def
      PROVE  /\ \A d \in InputDiffs(j, saved[j], now[j], DOMAIN def[j].inputs) : ~d.incompatible
             /\ \A d \in OutputDiffs(j, saved[j], now[j], ReferencedOutputs(def, j)) : ~d.incompatible
  BY <1>1, JobCompared DEF Now, BoundInputs
<1>3. ASSUME NEW j \in DOMAIN def
      PROVE  /\ \A i \in DOMAIN saved[j].inputs \cap DOMAIN def[j].inputs :
                   i \in DOMAIN now[j].inputs /\ now[j].inputs[i].kind = saved[j].inputs[i].kind
             /\ \A i \in DOMAIN now[j].inputs : now[j].inputs[i].required =>
                   i \in DOMAIN saved[j].inputs /\ saved[j].inputs[i].required
             /\ \A o \in DOMAIN saved[j].outputs \cap ReferencedOutputs(def, j) :
                   o \in DOMAIN now[j].outputs /\ now[j].outputs[o].kind = saved[j].outputs[o].kind
  <2> HIDE DEF now
  <2>1. Plain(saved[j]) /\ Plain(now[j])
    BY DEF now
  <2> QED BY <1>2, <2>1, InputsKept, OutputsKept
<1>4. BindingsAccepted(def, now)
  <2> SUFFICES ASSUME NEW j \in DOMAIN def, NEW i \in DOMAIN def[j].inputs
               PROVE  /\ i \in DOMAIN now[j].inputs
                      /\ BindingAccepted(now, j, def[j].inputs[i], now[j].inputs[i].kind)
    BY DEF BindingsAccepted
  <2> HIDE DEF now
  <2> DEFINE b == def[j].inputs[i]
             kind == saved[j].inputs[i].kind
  <2>1. i \in DOMAIN saved[j].inputs /\ BindingAccepted(saved, j, b, kind)
    BY DEF Accepted, BindingsAccepted
  <2>2. i \in DOMAIN now[j].inputs /\ now[j].inputs[i].kind = kind
    BY <1>3, <2>1
  <2>3. CASE /\ b.type = "job_output" /\ b.output # ""
             /\ b.job \in 1..(j - 1) /\ b.job \in DOMAIN saved
             /\ b.output \in DOMAIN saved[b.job].outputs
             /\ saved[b.job].outputs[b.output].kind = kind
    <3>1. b.output \in ReferencedOutputs(def, b.job)
      <4>1. b.output \in OutputsReadBy(def, j, b.job)
        BY <2>3 DEF OutputsReadBy
      <4> QED BY <4>1 DEF ReferencedOutputs
    <3>2. b.job \in DOMAIN def /\ b.job \in DOMAIN now
      BY <1>1, <2>3
    <3>3. /\ b.output \in DOMAIN saved[b.job].outputs \cap ReferencedOutputs(def, b.job)
          /\ saved[b.job].outputs[b.output].kind = kind
      BY <2>3, <3>1
    <3>4. b.output \in DOMAIN now[b.job].outputs /\ now[b.job].outputs[b.output].kind = kind
      BY <1>3, <3>2, <3>3
    <3>5. BindingAccepted(now, j, b, kind)
      BY <2>3, <3>2, <3>4 DEF BindingAccepted
    <3> QED BY <2>2, <3>5
  <2>4. CASE ~(/\ b.type = "job_output" /\ b.output # ""
               /\ b.job \in 1..(j - 1) /\ b.job \in DOMAIN saved
               /\ b.output \in DOMAIN saved[b.job].outputs
               /\ saved[b.job].outputs[b.output].kind = kind)
    BY <2>1, <2>2, <2>4 DEF BindingAccepted
  <2> QED BY <2>3, <2>4
<1>5. RequiredBound(def, now)
  <2> SUFFICES ASSUME NEW j \in DOMAIN def, NEW i \in DOMAIN now[j].inputs, now[j].inputs[i].required
               PROVE  i \in DOMAIN def[j].inputs /\ ~BindingIsEmpty(def[j].inputs[i])
    BY DEF RequiredBound
  <2> HIDE DEF now
  <2> QED BY <1>3 DEF Accepted, RequiredBound
<1> QED BY <1>1, <1>4, <1>5 DEF Accepted
=============================================================================
