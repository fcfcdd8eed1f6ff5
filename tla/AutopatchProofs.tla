--------------------------- MODULE AutopatchProofs --------------------------
(***************************************************************************)
(* Proofs about the planner and the services: what a maintenance plan      *)
(* promises (PlannerProperties) holds for every pair of documents and      *)
(* every repository, and what Services says of audits, orders and verdicts *)
(* for every repository, workflow and replay.                              *)
(***************************************************************************)
EXTENDS PlannerProperties, Services, SequenceTheorems, FiniteFolds

-----------------------------------------------------------------------------
\* What the stages leave in the variables: each is what the engines compute from
\* the documents and the repository, none of which changes.

Compared == stage \in {"scan", "correlate", "contracts", "report", "done"}

ThePlan == PlanOf(Impacts(SpecIndex(DOMAIN NewSpec)))

Computed ==
    /\ repo \in Repositories
    /\ callsites \in {{}, Locate(repo, Config).callsites}
    /\ old \in Documents /\ new \in Documents
    /\ Compared => old # Unparsable /\ new # Unparsable /\ diff = DiffSpecs(OldSpec, NewSpec)
    /\ Planned => plan = ThePlan \/ (plan = CleanPlan /\ diff.breaking = 0 /\ diff.warning = 0)
    /\ stage = "done" => report.trust = TrustReport(plan)

\* The plan depends on the documents, their difference and the callsites only.
LEMMA PlanStays ==
  /\ UNCHANGED <<old, new>> => OldSpec' = OldSpec /\ NewSpec' = NewSpec
  /\ UNCHANGED <<old, new, diff, callsites>> => ThePlan' = ThePlan
<1>1. UNCHANGED <<old, new>> => OldSpec' = OldSpec /\ NewSpec' = NewSpec
  BY DEF OldSpec, NewSpec
<1>2. ASSUME UNCHANGED <<old, new, diff, callsites>>
      PROVE  ThePlan' = ThePlan
  <2>1. NewSpec' = NewSpec
    BY <1>1, <1>2
  <2> DEFINE index == SpecIndex(DOMAIN NewSpec)
             impacts == Impacts(index)
  <2>2. index' = index
    BY <2>1
  <2>3. impacts' = impacts
    <3>1. \A ec : Impact(ec, index)' = Impact(ec, index)
      BY <1>2, <2>2 DEF Impact
    <3> HIDE DEF index
    <3> QED BY <1>2, <2>2, <3>1 DEF Impacts
  <2>4. PlanOf(impacts)' = PlanOf(impacts)
    <3> HIDE DEF impacts
    <3> QED BY <1>2, <2>3 DEF PlanOf, MapThenSumSet, MapThenFoldSet
  <2> QED BY <2>4 DEF ThePlan
<1> QED BY <1>1, <1>2

\* The invariant holds at the start and is kept by every stage.
LEMMA ComputedHolds == Spec => []Computed
<1>1. Init => Computed
  BY DEF Init, Computed, Compared, Planned
<1>2. Computed /\ [Next]_vars => Computed'
  <2> SUFFICES ASSUME Computed, [Next]_vars PROVE Computed'
    OBVIOUS
  <2>1. CASE RefuseDocument
    BY <2>1 DEF RefuseDocument, Computed, Compared, Planned
  <2>2. CASE CompareDocuments
    BY <2>2, PlanStays DEF CompareDocuments, Computed, Compared, Planned, OldSpec, NewSpec
  <2>3. CASE ScanRepository
    BY <2>3, PlanStays DEF ScanRepository, Computed, Compared, Planned
  <2>4. CASE Correlate
    <3>1. plan' = ThePlan'
      BY <2>4, PlanStays DEF Correlate, ThePlan, NewSpec
    <3> QED BY <2>4, <3>1, PlanStays DEF Correlate, Computed, Compared, Planned
  <2>5. CASE SynthesizeContracts
    BY <2>5, PlanStays DEF SynthesizeContracts, Computed, Compared, Planned
  <2>6. CASE RenderReport
    <3>1. report'.trust = TrustReport(plan)
      BY <2>6 DEF RenderReport
    <3> QED BY <2>6, <3>1, PlanStays DEF RenderReport, Computed, Compared, Planned
  <2>7. CASE UNCHANGED vars
    BY <2>7, PlanStays DEF vars, Computed, Compared, Planned
  <2> QED BY <2>1, <2>2, <2>3, <2>4, <2>5, <2>6, <2>7 DEF Next
<1> QED BY <1>1, <1>2, PTL DEF Spec

-----------------------------------------------------------------------------
\* What is compared is finite: operations, their parts and their changes.

Readable == Documents \ {Unparsable}

LEMMA MethodsFinite == IsFiniteSet(Methods)
<1> DEFINE s == <<"get", "post", "put", "patch", "delete", "head", "options">>
<1>1. s \in [1..7 -> Methods]
  BY DEF Methods
<1>2. s \in Surjection(1..7, Methods)
  <2>1. /\ s[1] = "get" /\ s[2] = "post" /\ s[3] = "put" /\ s[4] = "patch"
        /\ s[5] = "delete" /\ s[6] = "head" /\ s[7] = "options"
    OBVIOUS
  <2> HIDE DEF s
  <2>2. \A m \in Methods : \E n \in 1..7 : s[n] = m
    BY <2>1 DEF Methods
  <2> QED BY <1>1, <2>2 DEF Surjection
<1> QED BY <1>2, FS_NatSurjection DEF ExistsSurjection

FiniteOperation(operation) ==
    /\ IsFiniteSet(DOMAIN operation.parameters)
    /\ IsFiniteSet(DOMAIN operation.response_fields)
    /\ IsFiniteSet(operation.response_statuses)

LEMMA SpecsFinite ==
  ASSUME NEW doc \in Readable
  PROVE  /\ IsFiniteSet(DOMAIN ParseSpec(doc))
         /\ \A k \in DOMAIN ParseSpec(doc) :
               FiniteOperation(ParseSpec(doc)[k]) /\ Rank[k] \in Int
<1>1. IsFiniteSet(DOMAIN doc)
  BY DocumentsAssumption DEF Readable
<1>2. /\ DOMAIN ParseSpec(doc) \subseteq Methods \X DOMAIN doc
      /\ \A k \in DOMAIN ParseSpec(doc) :
            /\ k[1] \in DOMAIN doc[k[2]] \cap Methods /\ k[2] \in DOMAIN doc
            /\ k = <<k[1], k[2]>>
            /\ ParseSpec(doc)[k].parameters = ParseParameters(doc[k[2]][k[1]].parameters)
            /\ ParseSpec(doc)[k].response_fields = ParseFields(doc[k[2]][k[1]].responses)
            /\ ParseSpec(doc)[k].response_statuses = DOMAIN doc[k[2]][k[1]].responses
  BY DEF ParseSpec, OperationsOf
<1>3. IsFiniteSet(DOMAIN ParseSpec(doc))
  BY <1>1, <1>2, MethodsFinite, FS_Product, FS_Subset
<1>4. ASSUME NEW k \in DOMAIN ParseSpec(doc)
      PROVE  FiniteOperation(ParseSpec(doc)[k]) /\ Rank[k] \in Int
  <2> DEFINE op == doc[k[2]][k[1]]
  <2>1. /\ IsFiniteSet(DOMAIN op.parameters)
        /\ IsFiniteSet(DOMAIN op.responses)
        /\ \A s \in DOMAIN op.responses : IsFiniteSet(DOMAIN op.responses[s])
        /\ Rank[k] \in Int
    <3>1. \E n \in Nat : DOMAIN op.parameters = 1..n
      BY <1>2, DocumentsAssumption DEF Readable
    <3>2. IsFiniteSet(DOMAIN op.parameters)
      BY <3>1, FS_Interval
    <3> QED BY <1>2, <3>2, DocumentsAssumption DEF Readable
  <2> HIDE DEF op
  <2>2. IsFiniteSet(DOMAIN ParseParameters(op.parameters))
    <3> DEFINE names == [i \in DOMAIN op.parameters |-> op.parameters[i].name]
               all == {names[i] : i \in DOMAIN op.parameters}
    <3>1. IsFiniteSet(all)
      <4> HIDE DEF names
      <4> QED BY <2>1, Image
    <3>2. DOMAIN ParseParameters(op.parameters) \subseteq all
      BY DEF ParseParameters
    <3> QED BY <3>1, <3>2, FS_Subset
  <2>3. IsFiniteSet(DOMAIN ParseFields(op.responses))
    <3> DEFINE fields == [s \in DOMAIN op.responses |-> FieldsOf(op.responses[s])]
               all == {fields[s] : s \in DOMAIN op.responses}
    <3>1. IsFiniteSet(all)
      <4> HIDE DEF fields
      <4> QED BY <2>1, Image
    <3>2. \A r \in all : IsFiniteSet(r)
      <4>1. ASSUME NEW s \in DOMAIN op.responses
            PROVE  IsFiniteSet(FieldsOf(op.responses[s]))
        <5> DEFINE schema == op.responses[s]
                   name == [f \in Reached(schema) |-> NameOf(schema, f)]
        <5>1. IsFiniteSet(Reached(schema))
          BY <2>1, FS_Subset DEF Reached
        <5>2. FieldsOf(schema) = {name[f] : f \in Reached(schema)}
          BY DEF FieldsOf
        <5> HIDE DEF schema, name
        <5>3. IsFiniteSet({name[f] : f \in Reached(schema)})
          BY <5>1, Image
        <5> QED BY <5>2, <5>3 DEF schema
      <4> QED BY <4>1
    <3>3. IsFiniteSet(UNION all)
      <4> HIDE DEF all
      <4> QED BY <3>1, <3>2, FS_UNION
    <3>4. DOMAIN ParseFields(op.responses) = UNION all
      BY DEF ParseFields
    <3> QED BY <3>3, <3>4
  <2> QED BY <1>2, <2>1, <2>2, <2>3 DEF FiniteOperation, op
<1> QED BY <1>3, <1>4

Severities == {"Breaking", "Warning", "Info"}
Kinds == {"ParameterRemoved", "ParameterAdded", "ParameterTypeChanged",
          "ParameterRequiredChanged", "ResponseFieldRemoved", "ResponseFieldAdded",
          "ResponseFieldTypeChanged", "ResponseStatusRemoved", "ResponseStatusAdded"}

LEMMA KindsFinite == IsFiniteSet(Kinds \X Severities)
<1>1. /\ Kinds = {"ParameterRemoved", "ParameterAdded", "ParameterTypeChanged"}
               \cup ({"ParameterRequiredChanged", "ResponseFieldRemoved", "ResponseFieldAdded"}
               \cup {"ResponseFieldTypeChanged", "ResponseStatusRemoved", "ResponseStatusAdded"})
      /\ \A a, b, c : {a, b, c} = ({a} \cup {b}) \cup {c}
  BY DEF Kinds
<1>2. \A a, b, c : IsFiniteSet({a, b, c})
  <2> TAKE a, b, c
  <2>1. IsFiniteSet({a})
    BY FS_Singleton
  <2>2. IsFiniteSet({a} \cup {b})
    BY <2>1, FS_AddElement
  <2>3. IsFiniteSet(({a} \cup {b}) \cup {c})
    BY <2>2, FS_AddElement
  <2> QED BY <1>1, <2>3
<1>3. IsFiniteSet(Kinds) /\ IsFiniteSet(Severities)
  BY <1>1, <1>2, FS_Union DEF Severities
<1> QED BY <1>3, FS_Product

\* The changes of an operation are finitely many, and each has one of three severities.
LEMMA ChangesFinite ==
  ASSUME NEW a, NEW b, FiniteOperation(a), FiniteOperation(b)
  PROVE  /\ IsFiniteSet(DiffEndpoint(a, b))
         /\ \A c \in DiffEndpoint(a, b) : c.severity \in Severities
<1> DEFINE names == DOMAIN a.parameters \cup DOMAIN b.parameters
           fields == DOMAIN a.response_fields \cup DOMAIN b.response_fields
           statuses == a.response_statuses \cup b.response_statuses
           of1 == [x \in names \X (Kinds \X Severities) |->
                      Change(<<"parameters", x[1]>>, x[2][1], x[2][2])]
           of2 == [x \in fields \X (Kinds \X Severities) |->
                      Change(<<"response", x[1]>>, x[2][1], x[2][2])]
           of3 == [x \in statuses \X (Kinds \X Severities) |->
                      Change(<<"responses", x[1]>>, x[2][1], x[2][2])]
           all1 == {of1[x] : x \in names \X (Kinds \X Severities)}
           all2 == {of2[x] : x \in fields \X (Kinds \X Severities)}
           all3 == {of3[x] : x \in statuses \X (Kinds \X Severities)}
<1>1. /\ IsFiniteSet(names) /\ IsFiniteSet(fields) /\ IsFiniteSet(statuses)
  BY FS_Union DEF FiniteOperation
<1>2. IsFiniteSet(all1) /\ IsFiniteSet(all2) /\ IsFiniteSet(all3)
  <2>1. /\ IsFiniteSet(names \X (Kinds \X Severities))
        /\ IsFiniteSet(fields \X (Kinds \X Severities))
        /\ IsFiniteSet(statuses \X (Kinds \X Severities))
    <3> HIDE DEF names, fields, statuses
    <3> QED BY <1>1, KindsFinite, FS_Product
  <2> DEFINE S1 == names \X (Kinds \X Severities)
             S2 == fields \X (Kinds \X Severities)
             S3 == statuses \X (Kinds \X Severities)
  <2>2. /\ all1 = {of1[x] : x \in S1} /\ all2 = {of2[x] : x \in S2}
        /\ all3 = {of3[x] : x \in S3} /\ IsFiniteSet(S1) /\ IsFiniteSet(S2) /\ IsFiniteSet(S3)
    BY <2>1
  <2> HIDE DEF of1, of2, of3, S1, S2, S3, all1, all2, all3
  <2> QED BY <2>2, Image
<1>3. DiffParameters(a.parameters, b.parameters) \subseteq all1
  <2>1. ASSUME NEW n \in names, NEW k \in Kinds, NEW s \in Severities
        PROVE  Change(<<"parameters", n>>, k, s) \in all1
    <3>1. <<n, <<k, s>>>> \in names \X (Kinds \X Severities)
      OBVIOUS
    <3>2. of1[<<n, <<k, s>>>>] = Change(<<"parameters", n>>, k, s)
      BY <3>1
    <3> HIDE DEF of1, names
    <3> QED BY <3>1, <3>2
  <2> HIDE DEF all1
  <2> QED BY <2>1 DEF DiffParameters, Kinds, Severities
<1>4. DiffResponses(a, b) \subseteq all2 \cup all3
  <2>1. ASSUME NEW n \in fields, NEW k \in Kinds, NEW s \in Severities
        PROVE  Change(<<"response", n>>, k, s) \in all2
    <3>1. <<n, <<k, s>>>> \in fields \X (Kinds \X Severities)
      OBVIOUS
    <3>2. of2[<<n, <<k, s>>>>] = Change(<<"response", n>>, k, s)
      BY <3>1
    <3> HIDE DEF of2, fields
    <3> QED BY <3>1, <3>2
  <2>2. ASSUME NEW n \in statuses, NEW k \in Kinds, NEW s \in Severities
        PROVE  Change(<<"responses", n>>, k, s) \in all3
    <3>1. <<n, <<k, s>>>> \in statuses \X (Kinds \X Severities)
      OBVIOUS
    <3>2. of3[<<n, <<k, s>>>>] = Change(<<"responses", n>>, k, s)
      BY <3>1
    <3> HIDE DEF of3, statuses
    <3> QED BY <3>1, <3>2
  <2> HIDE DEF all2, all3
  <2> QED BY <2>1, <2>2 DEF DiffResponses, Kinds, Severities
<1>5. IsFiniteSet(DiffEndpoint(a, b))
  <2> HIDE DEF all1, all2, all3
  <2>1. IsFiniteSet(all1 \cup (all2 \cup all3))
    BY <1>2, FS_Union
  <2>2. DiffEndpoint(a, b) \subseteq all1 \cup (all2 \cup all3)
    BY <1>3, <1>4 DEF DiffEndpoint
  <2> QED BY <2>1, <2>2, FS_Subset
<1>6. \A c \in DiffEndpoint(a, b) : c.severity \in Severities
  BY DEF DiffEndpoint, DiffParameters, DiffResponses, Change, Severities
<1> QED BY <1>5, <1>6

\* The difference of two documents has finitely many changed operations, each with
\* changes, and with finitely many.
LEMMA DiffFinite ==
  ASSUME NEW a, NEW b,
         IsFiniteSet(DOMAIN a), IsFiniteSet(DOMAIN b),
         \A k \in DOMAIN a : FiniteOperation(a[k]), \A k \in DOMAIN b : FiniteOperation(b[k])
  PROVE  /\ IsFiniteSet(EndpointChanges(a, b))
         /\ \A ec \in EndpointChanges(a, b) :
               /\ IsFiniteSet(ec.changes) /\ ec.changes # {}
               /\ \A c \in ec.changes : c.severity \in Severities
<1> DEFINE Both == DOMAIN a \cup DOMAIN b
           of == [k \in Both |->
                    IF k \notin DOMAIN b
                    THEN [key |-> k, changes |-> {Change(NoField, "EndpointRemoved", "Breaking")}]
                    ELSE IF k \notin DOMAIN a
                    THEN [key |-> k, changes |-> {Change(NoField, "EndpointAdded", "Info")}]
                    ELSE [key |-> k, changes |-> DiffEndpoint(a[k], b[k])]]
           all == {of[k] : k \in Both}
<1>1. IsFiniteSet(all)
  <2>1. IsFiniteSet(Both)
    BY FS_Union
  <2> HIDE DEF of, Both
  <2> QED BY <2>1, Image
<1>2. EndpointChanges(a, b) \subseteq all
  BY DEF EndpointChanges
<1>3. IsFiniteSet(EndpointChanges(a, b))
  <2> HIDE DEF all
  <2> QED BY <1>1, <1>2, FS_Subset
<1>4. ASSUME NEW ec \in EndpointChanges(a, b)
      PROVE  /\ IsFiniteSet(ec.changes) /\ ec.changes # {}
             /\ \A c \in ec.changes : c.severity \in Severities
  <2>1. CASE \E c : c.severity \in Severities /\ ec.changes = {c}
    BY <2>1, FS_Singleton
  <2>2. CASE \E k \in DOMAIN a \cap DOMAIN b :
                ec.changes = DiffEndpoint(a[k], b[k]) /\ ec.changes # {}
    BY <2>2, ChangesFinite
  <2>3. /\ Change(NoField, "EndpointRemoved", "Breaking").severity \in Severities
        /\ Change(NoField, "EndpointAdded", "Info").severity \in Severities
    BY DEF Change, Severities
  <2>4. \/ ec.changes = {Change(NoField, "EndpointRemoved", "Breaking")}
        \/ ec.changes = {Change(NoField, "EndpointAdded", "Info")}
        \/ \E k \in DOMAIN a \cap DOMAIN b :
               ec.changes = DiffEndpoint(a[k], b[k]) /\ ec.changes # {}
    BY DEF EndpointChanges
  <2> QED BY <2>1, <2>2, <2>3, <2>4
<1> QED BY <1>3, <1>4

-----------------------------------------------------------------------------
\* The counts of a difference.

FiniteChanges(E) == IsFiniteSet(E) /\ \A ec \in E : IsFiniteSet(ec.changes)

OfSeverity(E, severity) ==
    [ec \in E |-> Cardinality({c \in ec.changes : c.severity = severity})]

\* What CountOf counts is a sum over the changed operations.
LEMMA CountSums ==
  ASSUME NEW E, IsFiniteSet(E), NEW severity
  PROVE  \E g : SumsUp(g, OfSeverity(E, severity), E) /\ CountOf(E, severity) = g[E]
<1> DEFINE Of(x) == Cardinality({c \in x.changes : c.severity = severity})
           sum == CHOOSE g : g = [s \in SUBSET E |-> IF s = {} THEN 0
                                                   ELSE Of(First(s)) + g[s \ {First(s)}]]
<1>1. CountOf(E, severity) = sum[E]
  BY DEF CountOf, MapThenSumSet, MapThenFoldSet, First
<1>2. \A s \in SUBSET E : s # {} => OfSeverity(E, severity)[First(s)] = Of(First(s))
  BY FirstIn DEF OfSeverity
<1>3. PICK g : SumsUp(g, OfSeverity(E, severity), E)
  BY SumExists
<1>4. g = [s \in SUBSET E |-> IF s = {} THEN 0 ELSE Of(First(s)) + g[s \ {First(s)}]]
  BY <1>2, <1>3 DEF SumsUp
<1>5. sum = [s \in SUBSET E |-> IF s = {} THEN 0 ELSE Of(First(s)) + sum[s \ {First(s)}]]
  BY <1>4
<1>6. SumsUp(sum, OfSeverity(E, severity), E)
  BY <1>2, <1>5 DEF SumsUp
<1> QED BY <1>1, <1>6

\* A severity is counted zero times only where no change has it.
LEMMA CountZero ==
  ASSUME NEW E, FiniteChanges(E), NEW severity, CountOf(E, severity) = 0
  PROVE  \A ec \in E : \A c \in ec.changes : c.severity # severity
<1> DEFINE w == OfSeverity(E, severity)
<1>1. PICK g : SumsUp(g, w, E) /\ g[E] = 0
  BY CountSums DEF FiniteChanges
<1>2. \A ec \in E : /\ IsFiniteSet({c \in ec.changes : c.severity = severity})
                    /\ w[ec] = Cardinality({c \in ec.changes : c.severity = severity})
                    /\ w[ec] \in Nat
  BY FS_Subset, FS_CardinalityType DEF FiniteChanges, OfSeverity
<1>3. \A ec \in E : w[ec] <= 0
  <2>1. IsFiniteSet(E) /\ \A ec \in E : w[ec] \in Nat
    BY <1>2 DEF FiniteChanges
  <2> HIDE DEF w
  <2> QED BY <1>1, <2>1, SumIsNat
<1>4. \A ec \in E : Cardinality({c \in ec.changes : c.severity = severity}) = 0
  <2> HIDE DEF w
  <2> QED BY <1>2, <1>3
<1>5. \A ec \in E : {c \in ec.changes : c.severity = severity} = {}
  BY <1>2, <1>4, FS_EmptySet
<1> QED BY <1>5

\* The documents a plan is made of, and their difference, are finite.
LEMMA ComparedIsFinite ==
  ASSUME Computed, Compared
  PROVE  /\ IsFiniteSet(DOMAIN OldSpec) /\ IsFiniteSet(DOMAIN NewSpec)
         /\ \A k \in DOMAIN NewSpec : Rank[k] \in Int
         /\ diff = DiffSpecs(OldSpec, NewSpec)
         /\ FiniteChanges(diff.endpoint_changes)
         /\ \A ec \in diff.endpoint_changes :
               ec.changes # {} /\ \A c \in ec.changes : c.severity \in Severities
<1>1. /\ IsFiniteSet(DOMAIN OldSpec) /\ IsFiniteSet(DOMAIN NewSpec)
      /\ \A k \in DOMAIN OldSpec : FiniteOperation(OldSpec[k])
      /\ \A k \in DOMAIN NewSpec : FiniteOperation(NewSpec[k]) /\ Rank[k] \in Int
  BY SpecsFinite DEF Computed, Readable, OldSpec, NewSpec
<1>2. diff = DiffSpecs(OldSpec, NewSpec)
  BY DEF Computed
<1>3. diff.endpoint_changes = EndpointChanges(OldSpec, NewSpec)
  BY <1>2 DEF DiffSpecs
<1> QED BY <1>1, <1>2, <1>3, DiffFinite DEF FiniteChanges

\* PlanOf never says Clean.
LEMMA CleanIsEmpty ==
  ASSUME Computed, Planned, plan.status = "Clean"
  PROVE  plan = CleanPlan /\ diff.breaking = 0 /\ diff.warning = 0
<1>1. ThePlan.status # "Clean"
  BY DEF ThePlan, PlanOf
<1> QED BY <1>1 DEF Computed

\* What parse_spec reads of an operation.
LEMMA OperationRead ==
  ASSUME NEW doc \in Readable, NEW k \in OperationsOf(doc)
  PROVE  LET op == doc[k[2]][k[1]]
         IN  /\ ParseSpec(doc)[k].parameters = ParseParameters(op.parameters)
             /\ ParseSpec(doc)[k].response_fields = ParseFields(op.responses)
             /\ ParseSpec(doc)[k].response_statuses = DOMAIN op.responses
             /\ DOMAIN op.parameters \subseteq Int
             /\ DOMAIN op.responses \subseteq Int
<1> DEFINE op == doc[k[2]][k[1]]
<1>1. /\ ParseSpec(doc)[k].parameters = ParseParameters(op.parameters)
      /\ ParseSpec(doc)[k].response_fields = ParseFields(op.responses)
      /\ ParseSpec(doc)[k].response_statuses = DOMAIN op.responses
  BY DEF ParseSpec
<1>2. k[2] \in DOMAIN doc /\ k[1] \in DOMAIN doc[k[2]] \cap Methods
  BY DEF OperationsOf
<1>3. /\ \E n \in Nat : DOMAIN op.parameters = 1..n
      /\ DOMAIN op.responses \subseteq Nat
  BY <1>2, DocumentsAssumption DEF Readable
<1> HIDE DEF op
<1>4. DOMAIN op.parameters \subseteq Int /\ DOMAIN op.responses \subseteq Int
  BY <1>3
<1> QED BY <1>1, <1>4 DEF op

LEMMA MaxOfOne == ASSUME NEW i \in Int PROVE Max({i}) = i
BY DEF Max

\* Parameters with names of their own are all read.
LEMMA ParametersRead ==
  ASSUME NEW params, DOMAIN params \subseteq Int,
         \A i, j \in DOMAIN params : /\ params[i].name # NoName
                                     /\ params[i].name = params[j].name => i = j
  PROVE  LET read == ParseParameters(params)
         IN  /\ \A n \in DOMAIN read : \E i \in DOMAIN params : params[i].name = n
             /\ \A i \in DOMAIN params :
                   /\ params[i].name \in DOMAIN read
                   /\ read[params[i].name].type = params[i].type
                   /\ read[params[i].name].required = params[i].required
<1> DEFINE read == ParseParameters(params)
           at(n) == {i \in DOMAIN params : params[i].name = n}
<1>1. /\ DOMAIN read = {params[i].name : i \in DOMAIN params} \ {NoName}
      /\ \A n \in DOMAIN read : /\ read[n].type = params[Max(at(n))].type
                                /\ read[n].required = params[Max(at(n))].required
  BY DEF ParseParameters
<1>2. ASSUME NEW i \in DOMAIN params
      PROVE  params[i].name \in DOMAIN read /\ Max(at(params[i].name)) = i
  <2>1. at(params[i].name) = {i}
    OBVIOUS
  <2> HIDE DEF at
  <2> QED BY <1>1, <2>1, MaxOfOne
<1> HIDE DEF at, read
<1>3. \A n \in DOMAIN read : \E i \in DOMAIN params : params[i].name = n
  BY <1>1
<1> QED BY <1>1, <1>2, <1>3 DEF read

\* A field that comes with one status only is read as it is there.
LEMMA FieldsRead ==
  ASSUME NEW responses, DOMAIN responses \subseteq Int, NEW s \in DOMAIN responses, NEW f,
         \A t \in DOMAIN responses \ {s} : f \notin FieldsOf(responses[t])
  PROVE  LET read == ParseFields(responses)
         IN  /\ f \in DOMAIN read <=> f \in FieldsOf(responses[s])
             /\ f \in DOMAIN read => read[f] = TypeOf(responses[s], f)
<1> DEFINE read == ParseFields(responses)
           having == {t \in DOMAIN responses : f \in FieldsOf(responses[t])}
<1>1. /\ DOMAIN read = UNION {FieldsOf(responses[t]) : t \in DOMAIN responses}
      /\ f \in DOMAIN read => read[f] = TypeOf(responses[Max(having)], f)
  BY DEF ParseFields
<1>2. f \in DOMAIN read <=> f \in FieldsOf(responses[s])
  BY <1>1
<1>3. f \in DOMAIN read => Max(having) = s
  <2>1. f \in DOMAIN read => having = {s}
    BY <1>2
  <2> HIDE DEF having, read
  <2> QED BY <2>1, MaxOfOne
<1> HIDE DEF having, read
<1> QED BY <1>1, <1>2, <1>3 DEF read

\* A plan that says Clean loses no operation and no status; every request that was
\* accepted is accepted, where the parser can tell; every field that comes with one
\* status still does.
THEOREM CleanIsCompatible == Spec => []CleanMeansCompatible
<1>1. Computed => CleanMeansCompatible
  <2> SUFFICES ASSUME Computed, Planned, plan.status = "Clean",
                      NEW k \in OperationsOf(old)
               PROVE  /\ k \in OperationsOf(new)
                      /\ LET was == old[k[2]][k[1]]
                             is  == new[k[2]][k[1]]
                         IN  /\ RequestsAreRead(was, is) =>
                                   \A r \in RequestsTo(was) : Accepts(was, r) => Accepts(is, r)
                             /\ DOMAIN was.responses \subseteq DOMAIN is.responses
                             /\ \A s \in DOMAIN was.responses : \A f \in FieldsOf(was.responses[s]) :
                                   AnsweredOnlyWith(was, f, s) /\ AnsweredOnlyWith(is, f, s) =>
                                      /\ f \in FieldsOf(is.responses[s])
                                      /\ TypeOf(is.responses[s], f) = TypeOf(was.responses[s], f)
    BY DEF CleanMeansCompatible
  <2>0. /\ old \in Readable /\ new \in Readable
        /\ DOMAIN OldSpec = OperationsOf(old) /\ DOMAIN NewSpec = OperationsOf(new)
    BY DEF Computed, Compared, Planned, Readable, OldSpec, NewSpec, ParseSpec
  <2>1. /\ diff = DiffSpecs(OldSpec, NewSpec) /\ FiniteChanges(diff.endpoint_changes)
        /\ diff.breaking = 0 /\ diff.warning = 0
    BY ComparedIsFinite, CleanIsEmpty DEF Compared, Planned
  <2> DEFINE ecs == EndpointChanges(OldSpec, NewSpec)
  <2>2. FiniteChanges(ecs) /\ CountOf(ecs, "Breaking") = 0 /\ CountOf(ecs, "Warning") = 0
    BY <2>1 DEF DiffSpecs
  <2>3. \A ec \in ecs : \A c \in ec.changes : c.severity \notin {"Breaking", "Warning"}
    <3> HIDE DEF ecs
    <3> QED BY <2>2, CountZero
  <2>4. k \in DOMAIN NewSpec
    <3> DEFINE removed == [key |-> k, changes |-> {Change(NoField, "EndpointRemoved", "Breaking")}]
    <3>1. k \notin DOMAIN NewSpec => removed \in ecs
      BY <2>0 DEF EndpointChanges
    <3>2. \E c \in removed.changes : c.severity = "Breaking"
      BY DEF Change
    <3> HIDE DEF removed, ecs
    <3> QED BY <2>3, <3>1, <3>2
  <2> DEFINE a == OldSpec[k]
             b == NewSpec[k]
  <2>5. \A c \in DiffEndpoint(a, b) : c.severity \notin {"Breaking", "Warning"}
    <3> DEFINE changed == [key |-> k, changes |-> DiffEndpoint(a, b)]
    <3>1. DiffEndpoint(a, b) # {} => changed \in ecs
      BY <2>0, <2>4 DEF EndpointChanges
    <3>2. changed.changes = DiffEndpoint(a, b)
      OBVIOUS
    <3> HIDE DEF changed, ecs
    <3> QED BY <2>3, <3>1, <3>2
  <2> HIDE DEF a, b, ecs
  <2>6. /\ DOMAIN a.parameters \subseteq DOMAIN b.parameters
        /\ \A n \in DOMAIN b.parameters \ DOMAIN a.parameters : ~b.parameters[n].required
        /\ \A n \in DOMAIN a.parameters : /\ b.parameters[n].type = a.parameters[n].type
                                          /\ b.parameters[n].required => a.parameters[n].required
    <3> DEFINE of == a.parameters
               pf == b.parameters
               ifRequired(n) == IF pf[n].required THEN "Breaking" ELSE "Info"
    <3>1. \A c \in DiffParameters(of, pf) : c.severity \notin {"Breaking", "Warning"}
      BY <2>5 DEF DiffEndpoint
    <3> HIDE DEF of, pf
    <3>2. ASSUME NEW n \in DOMAIN of \ DOMAIN pf
          PROVE  FALSE
      <4>1. Change(<<"parameters", n>>, "ParameterRemoved", "Breaking") \in DiffParameters(of, pf)
        BY DEF DiffParameters
      <4> QED BY <3>1, <4>1 DEF Change
    <3>3. ASSUME NEW n \in DOMAIN pf \ DOMAIN of
          PROVE  ~pf[n].required
      <4>1. Change(<<"parameters", n>>, "ParameterAdded", ifRequired(n)) \in DiffParameters(of, pf)
        BY DEF DiffParameters
      <4>2. ifRequired(n) # "Breaking"
        BY <3>1, <4>1 DEF Change
      <4> QED BY <4>2
    <3>4. ASSUME NEW n \in DOMAIN of \cap DOMAIN pf, pf[n].type # of[n].type
          PROVE  FALSE
      <4>1. Change(<<"parameters", n>>, "ParameterTypeChanged", "Breaking") \in DiffParameters(of, pf)
        BY <3>4 DEF DiffParameters
      <4> QED BY <3>1, <4>1 DEF Change
    <3>5. ASSUME NEW n \in DOMAIN of \cap DOMAIN pf, pf[n].required
          PROVE  of[n].required
      <4>1. SUFFICES ASSUME of[n].required # pf[n].required PROVE FALSE
        BY <3>5
      <4>2. Change(<<"parameters", n>>, "ParameterRequiredChanged", ifRequired(n))
              \in DiffParameters(of, pf)
        BY <4>1 DEF DiffParameters
      <4> QED BY <3>1, <3>5, <4>2 DEF Change
    <3> QED BY <3>2, <3>3, <3>4, <3>5 DEF of, pf
  <2>7. /\ a.response_statuses \subseteq b.response_statuses
        /\ DOMAIN a.response_fields \subseteq DOMAIN b.response_fields
        /\ \A f \in DOMAIN a.response_fields : b.response_fields[f] = a.response_fields[f]
    <3>1. \A c \in DiffResponses(a, b) : c.severity \notin {"Breaking", "Warning"}
      BY <2>5 DEF DiffEndpoint
    <3>2. ASSUME NEW f \in DOMAIN a.response_fields \ DOMAIN b.response_fields
          PROVE  FALSE
      <4>1. Change(<<"response", f>>, "ResponseFieldRemoved", "Warning") \in DiffResponses(a, b)
        BY DEF DiffResponses
      <4> QED BY <3>1, <4>1 DEF Change
    <3>3. ASSUME NEW f \in DOMAIN a.response_fields \cap DOMAIN b.response_fields,
                 b.response_fields[f] # a.response_fields[f]
          PROVE  FALSE
      <4>1. Change(<<"response", f>>, "ResponseFieldTypeChanged", "Breaking") \in DiffResponses(a, b)
        BY <3>3 DEF DiffResponses
      <4> QED BY <3>1, <4>1 DEF Change
    <3>4. ASSUME NEW s \in a.response_statuses \ b.response_statuses
          PROVE  FALSE
      <4>1. Change(<<"responses", s>>, "ResponseStatusRemoved", "Warning") \in DiffResponses(a, b)
        BY DEF DiffResponses
      <4> QED BY <3>1, <4>1 DEF Change
    <3> QED BY <3>2, <3>3, <3>4
  <2> DEFINE was == old[k[2]][k[1]]
             is  == new[k[2]][k[1]]
  <2>8. /\ a.parameters = ParseParameters(was.parameters)
        /\ b.parameters = ParseParameters(is.parameters)
        /\ a.response_fields = ParseFields(was.responses)
        /\ b.response_fields = ParseFields(is.responses)
        /\ a.response_statuses = DOMAIN was.responses /\ b.response_statuses = DOMAIN is.responses
        /\ DOMAIN was.parameters \subseteq Int /\ DOMAIN is.parameters \subseteq Int
        /\ DOMAIN was.responses \subseteq Int /\ DOMAIN is.responses \subseteq Int
    BY <2>0, <2>4, OperationRead DEF a, b, OldSpec, NewSpec
  <2> HIDE DEF was, is
  <2>9. ASSUME RequestsAreRead(was, is), NEW r, Accepts(was, r)
        PROVE  Accepts(is, r)
    <3> DEFINE P == was.parameters
               Q == is.parameters
    <3>1. /\ \A n \in DOMAIN a.parameters : \E i \in DOMAIN P : P[i].name = n
          /\ \A i \in DOMAIN P : /\ P[i].name \in DOMAIN a.parameters
                                  /\ a.parameters[P[i].name].type = P[i].type
                                  /\ a.parameters[P[i].name].required = P[i].required
      BY <2>8, <2>9, ParametersRead DEF RequestsAreRead
    <3>2. /\ \A n \in DOMAIN b.parameters : \E i \in DOMAIN Q : Q[i].name = n
          /\ \A i \in DOMAIN Q : /\ Q[i].name \in DOMAIN b.parameters
                                  /\ b.parameters[Q[i].name].type = Q[i].type
                                  /\ b.parameters[Q[i].name].required = Q[i].required
      BY <2>8, <2>9, ParametersRead DEF RequestsAreRead
    <3>3. \A i \in DOMAIN P, j \in DOMAIN Q :
             P[i].name = Q[j].name => P[i].location = Q[j].location
      BY <2>9 DEF RequestsAreRead
    <3>4. /\ \A i \in DOMAIN P : P[i].required => <<P[i].name, P[i].location>> \in DOMAIN r
          /\ \A place \in DOMAIN r : \E i \in DOMAIN P :
                place = <<P[i].name, P[i].location>> /\ r[place] = P[i].type
      BY <2>9 DEF Accepts
    <3> HIDE DEF P, Q
    <3>5. ASSUME NEW j \in DOMAIN Q, Q[j].required
          PROVE  <<Q[j].name, Q[j].location>> \in DOMAIN r
      <4>1. Q[j].name \in DOMAIN b.parameters /\ b.parameters[Q[j].name].required
        BY <3>2, <3>5
      <4>2. Q[j].name \in DOMAIN a.parameters /\ a.parameters[Q[j].name].required
        BY <2>6, <4>1
      <4>3. PICK i \in DOMAIN P : P[i].name = Q[j].name
        BY <3>1, <4>2
      <4>4. P[i].required /\ P[i].location = Q[j].location
        BY <3>1, <3>3, <4>2, <4>3
      <4> QED BY <3>4, <4>3, <4>4
    <3>6. ASSUME NEW place \in DOMAIN r
          PROVE  \E j \in DOMAIN Q : place = <<Q[j].name, Q[j].location>> /\ r[place] = Q[j].type
      <4>1. PICK i \in DOMAIN P : place = <<P[i].name, P[i].location>> /\ r[place] = P[i].type
        BY <3>4
      <4>2. /\ P[i].name \in DOMAIN b.parameters
            /\ b.parameters[P[i].name].type = P[i].type
        BY <2>6, <3>1
      <4>3. PICK j \in DOMAIN Q : Q[j].name = P[i].name
        BY <3>2, <4>2
      <4>4. Q[j].location = P[i].location /\ Q[j].type = P[i].type
        BY <3>2, <3>3, <4>2, <4>3
      <4> QED BY <4>1, <4>3, <4>4
    <3> QED BY <3>5, <3>6 DEF Accepts, Q
  <2>10. ASSUME NEW s \in DOMAIN was.responses, NEW f \in FieldsOf(was.responses[s]),
                AnsweredOnlyWith(was, f, s), AnsweredOnlyWith(is, f, s)
         PROVE  /\ f \in FieldsOf(is.responses[s])
                /\ TypeOf(is.responses[s], f) = TypeOf(was.responses[s], f)
    <3>1. f \in DOMAIN a.response_fields /\ a.response_fields[f] = TypeOf(was.responses[s], f)
      BY <2>8, <2>10, FieldsRead DEF AnsweredOnlyWith
    <3>2. f \in DOMAIN b.response_fields /\ b.response_fields[f] = a.response_fields[f]
      BY <2>7, <3>1
    <3>3. s \in DOMAIN is.responses
      BY <2>7, <2>8
    <3>4. f \in FieldsOf(is.responses[s]) /\ b.response_fields[f] = TypeOf(is.responses[s], f)
      BY <2>8, <2>10, <3>2, <3>3, FieldsRead DEF AnsweredOnlyWith
    <3> QED BY <3>1, <3>2, <3>4
  <2> QED BY <2>0, <2>4, <2>7, <2>8, <2>9, <2>10 DEF was, is
<1> QED BY <1>1, ComputedHolds, PTL

-----------------------------------------------------------------------------
\* Where calls lead.

\* A chain that one operation of both documents claims leads to that operation.
LEMMA ClaimedChainsResolve ==
  ASSUME Computed, Compared, NEW pattern, NEW k \in DOMAIN NewSpec,
         Claimants(Strip(pattern)) = {k}
  PROVE  Resolve(SpecIndex(DOMAIN NewSpec), pattern) = {k}
<1> DEFINE keys == DOMAIN NewSpec
           chain == Strip(pattern)
           claiming == {j \in keys : chain \in ChainsOf(j[1], j[2])}
<1>1. claiming = {k}
  BY DEF Claimants
<1>2. Rank[k] \in Int
  BY ComparedIsFinite
<1>3. chain \in UNION {ChainsOf(j[1], j[2]) : j \in keys}
  <2>1. chain \in ChainsOf(k[1], k[2])
    BY <1>1
  <2> HIDE DEF chain
  <2> QED BY <2>1
<1>4. (CHOOSE j \in claiming : \A i \in claiming : Rank[i] <= Rank[j]) = k
  <2> HIDE DEF claiming
  <2> QED BY <1>1, <1>2
<1>5. /\ chain \in DOMAIN SpecIndex(keys)
      /\ SpecIndex(keys)[chain] = k
  <2> HIDE DEF chain, keys
  <2> QED BY <1>3, <1>4 DEF SpecIndex, claiming
<1> QED BY <1>5 DEF Resolve

\* A call through a chain that one operation of the two documents can be filed
\* under is confirmed for that operation's changes and rejected for every other's.
THEOREM UnambiguousCallsHold == Spec => []UnambiguousCallsAreClassified
<1>1. Computed => UnambiguousCallsAreClassified
  <2> SUFFICES ASSUME Computed, Planned, NEW cs \in callsites, cs.kind = "MethodCall",
                      Cardinality(Claimants(Strip(cs.pattern))) = 1,
                      Claimants(Strip(cs.pattern)) \subseteq DOMAIN NewSpec,
                      NEW i \in plan.impacted_endpoints
               PROVE  IF i.key \in Claimants(Strip(cs.pattern)) THEN cs \in i.affected_callsites
                      ELSE cs \in i.provably_unaffected
    BY DEF UnambiguousCallsAreClassified
  <2> DEFINE index == SpecIndex(DOMAIN NewSpec)
  <2>1. PICK k : Claimants(Strip(cs.pattern)) = {k} /\ k \in DOMAIN NewSpec
    <3>1. IsFiniteSet(DOMAIN OldSpec \cup DOMAIN NewSpec)
      BY ComparedIsFinite, FS_Union DEF Planned, Compared
    <3>2. Claimants(Strip(cs.pattern)) \subseteq DOMAIN OldSpec \cup DOMAIN NewSpec
      BY DEF Claimants
    <3>3. IsFiniteSet(Claimants(Strip(cs.pattern)))
      BY <3>1, <3>2, FS_Subset
    <3> QED BY <3>3, FS_Singleton
  <2>2. Resolve(index, cs.pattern) = {k}
    BY <2>1, ClaimedChainsResolve DEF Planned, Compared
  <2>3. PICK ec \in diff.endpoint_changes : i = Impact(ec, index)
    <3>1. CleanPlan.impacted_endpoints = {}
      BY DEF CleanPlan
    <3>2. plan = ThePlan
      BY <3>1 DEF Computed
    <3>3. ThePlan.impacted_endpoints = Impacts(index)
      BY DEF ThePlan, PlanOf
    <3>4. i \in Impacts(index)
      BY <3>2, <3>3
    <3> HIDE DEF index
    <3> QED BY <3>4 DEF Impacts
  <2> HIDE DEF index
  <2>4. Assess(index, cs, ec.key) = IF ec.key = k THEN "Confirmed" ELSE "FalsePositive"
    BY <2>2 DEF Assess
  <2>5. /\ i.key = ec.key
        /\ i.affected_callsites = {c \in callsites : Assess(index, c, ec.key) = "Confirmed"}
        /\ i.provably_unaffected = {c \in callsites : Assess(index, c, ec.key) = "FalsePositive"}
    BY <2>3 DEF Impact
  <2> QED BY <2>1, <2>4, <2>5
<1> QED BY <1>1, ComputedHolds, PTL

-----------------------------------------------------------------------------
\* The callsites of a repository are finitely many.

Searchable(config) ==
    IsFiniteSet(config.sdks) /\ IsFiniteSet(config.methods) /\ IsFiniteSet(config.urls)

LEMMA HitsFinite ==
  ASSUME NEW source, IsFiniteSet(DOMAIN source), NEW config, Searchable(config)
  PROVE  IsFiniteSet(LocateInSource(source, config))
<1> DEFINE at(i) == LET l == source[i] IN
              {HitAt(source, i, "Import", <<s>>) : s \in ImportsOf(l, config)}
              \cup {HitAt(source, i, "MethodCall", m) : m \in MethodsOf(l, config)}
              \cup {HitAt(source, i, "UrlReference", u) : u \in l.urls \cap config.urls}
              \cup {HitAt(source, i, "TypeReference", <<s>>) :
                       s \in IF l.comment THEN {} ELSE (l.types \cap config.sdks) \ l.imports}
              \cup AliasHit(source, i, config)
           hits == [i \in DOMAIN source |-> at(i)]
           all == {hits[i] : i \in DOMAIN source}
<1>1. ASSUME NEW i \in DOMAIN source
      PROVE  IsFiniteSet(at(i))
  <2> DEFINE l == source[i]
             types == IF l.comment THEN {} ELSE (l.types \cap config.sdks) \ l.imports
             importHit == [s \in config.sdks |-> HitAt(source, i, "Import", <<s>>)]
             methodHit == [m \in config.methods |-> HitAt(source, i, "MethodCall", m)]
             urlHit == [u \in config.urls |-> HitAt(source, i, "UrlReference", u)]
             typeHit == [s \in config.sdks |-> HitAt(source, i, "TypeReference", <<s>>)]
             imports1 == {importHit[s] : s \in config.sdks}
             methods1 == {methodHit[m] : m \in config.methods}
             urls1 == {urlHit[u] : u \in config.urls}
             types1 == {typeHit[s] : s \in config.sdks}
  <2>1. IsFiniteSet(imports1) /\ IsFiniteSet(methods1) /\ IsFiniteSet(urls1) /\ IsFiniteSet(types1)
    <3> HIDE DEF importHit, methodHit, urlHit, typeHit
    <3>0. IsFiniteSet(config.sdks) /\ IsFiniteSet(config.methods) /\ IsFiniteSet(config.urls)
      BY DEF Searchable
    <3>1. IsFiniteSet(imports1)
      BY <3>0, Image
    <3>2. IsFiniteSet(methods1)
      BY <3>0, Image
    <3>3. IsFiniteSet(urls1)
      BY <3>0, Image
    <3>4. IsFiniteSet(types1)
      BY <3>0, Image
    <3> QED BY <3>1, <3>2, <3>3, <3>4
  <2>2. IsFiniteSet(AliasHit(source, i, config))
    <3>1. AliasHit(source, i, config) = {} \/ \E h : AliasHit(source, i, config) = {h}
      BY DEF AliasHit
    <3> QED BY <3>1, FS_EmptySet, FS_Singleton
  <2>3. {HitAt(source, i, "Import", <<s>>) : s \in ImportsOf(l, config)} \subseteq imports1
    BY DEF ImportsOf
  <2>4. {HitAt(source, i, "MethodCall", m) : m \in MethodsOf(l, config)} \subseteq methods1
    BY DEF MethodsOf
  <2>5. {HitAt(source, i, "UrlReference", u) : u \in l.urls \cap config.urls} \subseteq urls1
    OBVIOUS
  <2>6. {HitAt(source, i, "TypeReference", <<s>>) : s \in types} \subseteq types1
    <3>1. types \subseteq config.sdks
      OBVIOUS
    <3> HIDE DEF types
    <3> QED BY <3>1
  <2>7. at(i) \subseteq ((imports1 \cup methods1) \cup (urls1 \cup types1))
                      \cup AliasHit(source, i, config)
    <3> HIDE DEF imports1, methods1, urls1, types1
    <3> QED BY <2>3, <2>4, <2>5, <2>6
  <2>8. IsFiniteSet(((imports1 \cup methods1) \cup (urls1 \cup types1))
                      \cup AliasHit(source, i, config))
    <3> HIDE DEF imports1, methods1, urls1, types1
    <3>1. IsFiniteSet(imports1 \cup methods1) /\ IsFiniteSet(urls1 \cup types1)
      BY <2>1, FS_Union
    <3>2. IsFiniteSet((imports1 \cup methods1) \cup (urls1 \cup types1))
      BY <3>1, FS_Union
    <3> QED BY <2>2, <3>2, FS_Union
  <2> HIDE DEF at, imports1, methods1, urls1, types1
  <2> QED BY <2>7, <2>8, FS_Subset
<1>2. IsFiniteSet(all)
  <2> HIDE DEF hits
  <2> QED BY Image
<1>3. \A h \in all : IsFiniteSet(h)
  <2> HIDE DEF at
  <2> QED BY <1>1
<1>4. LocateInSource(source, config) = UNION all
  BY DEF LocateInSource
<1>5. IsFiniteSet(UNION all)
  <2> HIDE DEF all
  <2> QED BY <1>2, <1>3, FS_UNION
<1> QED BY <1>4, <1>5

LEMMA SitesFinite ==
  ASSUME NEW r, IsFiniteSet(DOMAIN r), \A f \in DOMAIN r : IsFiniteSet(DOMAIN r[f].lines),
         NEW config, Searchable(config)
  PROVE  IsFiniteSet(Locate(r, config).callsites)
<1> DEFINE in(f) == LocateInSource(r[f].lines, config)
           site(f) == [h \in in(f) |-> [file |-> f, line |-> h.line, column |-> h.column,
                                         kind |-> h.kind, pattern |-> h.pattern]]
           sites == [f \in Scanned(r) |-> {site(f)[h] : h \in in(f)}]
           all == {sites[f] : f \in Scanned(r)}
<1>1. IsFiniteSet(Scanned(r)) /\ Scanned(r) \subseteq DOMAIN r
  BY FS_Subset DEF Scanned
<1>2. \A f \in Scanned(r) : IsFiniteSet(in(f))
  BY <1>1, HitsFinite
<1>3. \A f \in Scanned(r) : IsFiniteSet({site(f)[h] : h \in in(f)})
  <2> HIDE DEF site, in
  <2> QED BY <1>2, Image
<1>4. IsFiniteSet(all)
  <2> HIDE DEF sites
  <2> QED BY <1>1, Image
<1>5. \A t \in all : IsFiniteSet(t)
  <2> HIDE DEF site, in
  <2> QED BY <1>3
<1>6. IsFiniteSet(UNION all)
  <2> HIDE DEF all
  <2> QED BY <1>4, <1>5, FS_UNION
<1>7. Locate(r, config).callsites = UNION all
  <2>1. \A f \in Scanned(r) :
           sites[f] = {[file |-> f, line |-> h.line, column |-> h.column, kind |-> h.kind,
                        pattern |-> h.pattern] : h \in in(f)}
    OBVIOUS
  <2> HIDE DEF sites
  <2> QED BY <2>1 DEF Locate
<1> QED BY <1>6, <1>7

LEMMA CallsitesFinite == Computed => IsFiniteSet(callsites)
<1> SUFFICES ASSUME Computed PROVE IsFiniteSet(Locate(repo, Config).callsites)
  BY FS_EmptySet DEF Computed
<1>1. Searchable(Config)
  BY RepositoriesAssumption DEF Searchable
<1>2. IsFiniteSet(DOMAIN repo) /\ \A f \in DOMAIN repo : IsFiniteSet(DOMAIN repo[f].lines)
  BY RepositoriesAssumption DEF Computed
<1> QED BY <1>1, <1>2, SitesFinite

-----------------------------------------------------------------------------
\* The impacts of a plan.

TheIndex == SpecIndex(DOMAIN NewSpec)
TheImpacts == Impacts(TheIndex)

\* A plan is clean and reports nothing, or it reports the impacts.
LEMMA PlanIsOne ==
  ASSUME Computed, Planned
  PROVE  \/ /\ plan = CleanPlan /\ plan.impacted_endpoints = {} /\ plan.status = "Clean"
            /\ plan.patch_targets = {} /\ plan.verification_specs = {}
            /\ plan.total_affected_callsites = 0
         \/ /\ plan = PlanOf(TheImpacts) /\ plan.status # "Clean"
            /\ plan.impacted_endpoints = TheImpacts
            /\ plan.patch_targets = UNION {TargetsOf(i) : i \in TheImpacts}
            /\ plan.verification_specs = VerificationSpecs(TheImpacts)
<1>1. plan = ThePlan \/ plan = CleanPlan
  BY DEF Computed
<1>2. CASE plan = CleanPlan
  BY <1>2 DEF CleanPlan
<1>3. CASE plan = ThePlan
  <2>1. plan = PlanOf(TheImpacts)
    BY <1>3 DEF ThePlan, TheImpacts, TheIndex
  <2> QED BY <2>1 DEF PlanOf
<1> QED BY <1>1, <1>2, <1>3

\* The impacts are finitely many, each of a changed operation, and each parts the
\* callsites in three.
LEMMA ImpactsAre ==
  ASSUME Computed, Compared
  PROVE  /\ IsFiniteSet(TheImpacts)
         /\ \A i \in TheImpacts :
               /\ i.changes # {}
               /\ i.affected_callsites \subseteq callsites
               /\ i.provably_unaffected \subseteq callsites
               /\ IsFiniteSet(i.affected_callsites) /\ IsFiniteSet(i.provably_unaffected)
               /\ IsFiniteSet(i.unresolved)
               /\ Cardinality(i.affected_callsites) + Cardinality(i.provably_unaffected)
                    + Cardinality(i.unresolved) = i.total_sdk_references
<1>1. IsFiniteSet(callsites)
  BY CallsitesFinite
<1>2. IsFiniteSet(TheImpacts)
  <2> DEFINE of == [ec \in diff.endpoint_changes |-> Impact(ec, TheIndex)]
             all == {of[ec] : ec \in diff.endpoint_changes}
  <2>1. IsFiniteSet(all)
    <3>1. IsFiniteSet(diff.endpoint_changes)
      BY ComparedIsFinite DEF FiniteChanges
    <3> HIDE DEF of
    <3> QED BY <3>1, Image
  <2>2. TheImpacts \subseteq all
    BY DEF TheImpacts, Impacts
  <2> HIDE DEF all
  <2> QED BY <2>1, <2>2, FS_Subset
<1>3. ASSUME NEW i \in TheImpacts
      PROVE  /\ i.changes # {}
             /\ i.affected_callsites \subseteq callsites
             /\ i.provably_unaffected \subseteq callsites
             /\ IsFiniteSet(i.affected_callsites) /\ IsFiniteSet(i.provably_unaffected)
             /\ IsFiniteSet(i.unresolved)
             /\ Cardinality(i.affected_callsites) + Cardinality(i.provably_unaffected)
                  + Cardinality(i.unresolved) = i.total_sdk_references
  <2>1. PICK ec \in diff.endpoint_changes : i = Impact(ec, TheIndex)
    BY DEF TheImpacts, Impacts
  <2> DEFINE verdict(cs) == Assess(TheIndex, cs, ec.key)
             yes == {cs \in callsites : verdict(cs) = "Confirmed"}
             no == {cs \in callsites : verdict(cs) = "FalsePositive"}
             open == {cs \in callsites : IsUnresolved(verdict(cs))}
             noted == [cs \in open |-> [callsite |-> cs, reason |-> verdict(cs)]]
             notes == {noted[cs] : cs \in open}
  <2>2. /\ i.affected_callsites = yes /\ i.provably_unaffected = no /\ i.changes = ec.changes
        /\ i.unresolved = notes /\ i.total_sdk_references = Cardinality(callsites)
    BY <2>1 DEF Impact
  <2>3. yes \cap no = {} /\ (yes \cup no) \cap open = {} /\ (yes \cup no) \cup open = callsites
    BY DEF IsUnresolved
  <2>4. \A c, d \in open : noted[c] = noted[d] => c = d
    OBVIOUS
  <2>5. ec.changes # {}
    BY ComparedIsFinite
  <2> HIDE DEF noted, yes, no, open
  <2>6. IsFiniteSet(yes) /\ IsFiniteSet(no) /\ IsFiniteSet(open) /\ IsFiniteSet(yes \cup no)
    BY <1>1, <2>3, FS_Subset
  <2>7. IsFiniteSet(notes) /\ Cardinality(notes) = Cardinality(open)
    BY <2>4, <2>6, Image
  <2>8. Cardinality(yes \cup no) = Cardinality(yes) + Cardinality(no) - Cardinality(yes \cap no)
    BY <2>6, FS_Union
  <2>9. Cardinality((yes \cup no) \cup open)
          = Cardinality(yes \cup no) + Cardinality(open) - Cardinality((yes \cup no) \cap open)
    BY <2>6, FS_Union
  <2>10. Cardinality({}) = 0 /\ Cardinality(yes) \in Nat /\ Cardinality(no) \in Nat
         /\ Cardinality(open) \in Nat
    BY <2>6, FS_EmptySet, FS_CardinalityType
  <2>11. Cardinality(yes) + Cardinality(no) + Cardinality(notes) = Cardinality(callsites)
    <3>1. Cardinality(callsites) = Cardinality(yes \cup no) + Cardinality(open) - Cardinality({})
      BY <2>3, <2>9
    <3>2. Cardinality(yes \cup no) = Cardinality(yes) + Cardinality(no) - Cardinality({})
      BY <2>3, <2>8
    <3> HIDE DEF notes
    <3> QED BY <2>7, <2>10, <3>1, <3>2
  <2>12. yes \subseteq callsites /\ no \subseteq callsites
    BY <2>3
  <2> HIDE DEF notes
  <2> QED BY <2>2, <2>5, <2>6, <2>7, <2>11, <2>12
<1> QED BY <1>2, <1>3

Total(I) == MapThenSumSet(LAMBDA i : Cardinality(i.affected_callsites), I)

\* The total of the confirmed callsites is a sum over the impacts, and is zero
\* exactly where none of them is confirmed.
LEMMA TotalZero ==
  ASSUME NEW I, IsFiniteSet(I), \A i \in I : IsFiniteSet(i.affected_callsites)
  PROVE  Total(I) = 0 <=> \A i \in I : i.affected_callsites = {}
<1> DEFINE Of(i) == Cardinality(i.affected_callsites)
           w == [i \in I |-> Of(i)]
           sum == CHOOSE g : g = [s \in SUBSET I |-> IF s = {} THEN 0
                                                   ELSE Of(First(s)) + g[s \ {First(s)}]]
<1>1. Total(I) = sum[I]
  BY DEF Total, MapThenSumSet, MapThenFoldSet, First
<1>2. \A s \in SUBSET I : s # {} => w[First(s)] = Of(First(s))
  BY FirstIn
<1>3. PICK g : SumsUp(g, w, I)
  <2> HIDE DEF w
  <2> QED BY SumExists
<1>4. g = [s \in SUBSET I |-> IF s = {} THEN 0 ELSE Of(First(s)) + g[s \ {First(s)}]]
  BY <1>2, <1>3 DEF SumsUp
<1>5. sum = [s \in SUBSET I |-> IF s = {} THEN 0 ELSE Of(First(s)) + sum[s \ {First(s)}]]
  BY <1>4
<1>6. SumsUp(sum, w, I)
  BY <1>2, <1>5 DEF SumsUp
<1>7. \A i \in I : w[i] \in Nat /\ (w[i] = 0 <=> i.affected_callsites = {})
  BY FS_CardinalityType, FS_EmptySet
<1> HIDE DEF sum, w
<1>8. (\A i \in I : i.affected_callsites = {}) => sum[I] = 0
  BY <1>6, <1>7, SumOfZeros
<1>9. \A i \in I : w[i] <= sum[I]
  BY <1>6, <1>7, SumIsNat
<1> QED BY <1>1, <1>7, <1>8, <1>9

\* The status, the targets and the verification specs, which the planner computes
\* apart, say the same of every pair of documents and every repository.
THEOREM StatusHolds == Spec => []StatusMatchesTargets
<1>1. Computed => StatusMatchesTargets
  <2> SUFFICES ASSUME Computed, Planned
               PROVE  /\ plan.status = "ActionRequired" <=> plan.patch_targets # {}
                      /\ \A i \in plan.impacted_endpoints : \A cs \in i.affected_callsites :
                            \E t \in plan.patch_targets :
                              t.key = i.key /\ t.file = cs.file /\ cs.line \in t.lines
                      /\ {s.key : s \in plan.verification_specs} \subseteq {t.key : t \in plan.patch_targets}
    BY DEF StatusMatchesTargets
  <2>1. CASE /\ plan.impacted_endpoints = {} /\ plan.status = "Clean"
             /\ plan.patch_targets = {} /\ plan.verification_specs = {}
    BY <2>1
  <2>2. CASE /\ plan = PlanOf(TheImpacts)
             /\ plan.impacted_endpoints = TheImpacts
             /\ plan.patch_targets = UNION {TargetsOf(i) : i \in TheImpacts}
             /\ plan.verification_specs = VerificationSpecs(TheImpacts)
    <3>1. \A i \in TheImpacts : i.changes # {} /\ IsFiniteSet(i.affected_callsites)
      BY ImpactsAre DEF Planned, Compared
    <3>2. ASSUME NEW i \in TheImpacts, NEW cs \in i.affected_callsites
          PROVE  \E t \in TargetsOf(i) : t.key = i.key /\ t.file = cs.file /\ cs.line \in t.lines
      <4> DEFINE t == [key |-> i.key, file |-> cs.file, upstream_change |-> i.changes,
                       lines |-> {c.line : c \in {c \in i.affected_callsites : c.file = cs.file}}]
      <4>1. t \in TargetsOf(i)
        BY <3>1 DEF TargetsOf, Eligible
      <4>2. t.key = i.key /\ t.file = cs.file /\ cs.line \in t.lines
        OBVIOUS
      <4> HIDE DEF t
      <4> QED BY <4>1, <4>2
    <3>3. \A i \in TheImpacts : TargetsOf(i) # {} => i.affected_callsites # {}
      BY DEF TargetsOf
    <3>4. Total(TheImpacts) = 0 <=> \A i \in TheImpacts : i.affected_callsites = {}
      BY <3>1, ImpactsAre, TotalZero DEF Planned, Compared
    <3>5. plan.status = IF Total(TheImpacts) = 0 THEN "NoImpact" ELSE "ActionRequired"
      BY <2>2 DEF PlanOf, Total
    <3>6. plan.status = "ActionRequired" <=> plan.patch_targets # {}
      BY <2>2, <3>2, <3>3, <3>4, <3>5
    <3>7. \A v \in plan.verification_specs :
             \E i \in TheImpacts : v.key = i.key /\ i.affected_callsites # {}
      BY <2>2 DEF VerificationSpecs
    <3> QED BY <2>2, <3>2, <3>6, <3>7
  <2> QED BY <2>1, <2>2, PlanIsOne
<1> QED BY <1>1, ComputedHolds, PTL

-----------------------------------------------------------------------------
\* The difference of two documents.

AllChanges(E) == MapThenSumSet(LAMBDA ec : Cardinality(ec.changes), E)

\* The three counts add up to the changes, if each has one of the three severities.
LEMMA CountsAddUp ==
  ASSUME NEW E, FiniteChanges(E), \A ec \in E : \A c \in ec.changes : c.severity \in Severities
  PROVE  CountOf(E, "Breaking") + CountOf(E, "Warning") + CountOf(E, "Info") = AllChanges(E)
<1> DEFINE Of(ec) == Cardinality(ec.changes)
           w == [ec \in E |-> Of(ec)]
           two == [ec \in E |-> OfSeverity(E, "Breaking")[ec] + OfSeverity(E, "Warning")[ec]]
           sum == CHOOSE g : g = [s \in SUBSET E |-> IF s = {} THEN 0
                                                   ELSE Of(First(s)) + g[s \ {First(s)}]]
<1>0. IsFiniteSet(E)
  BY DEF FiniteChanges
<1>1. AllChanges(E) = sum[E]
  BY DEF AllChanges, MapThenSumSet, MapThenFoldSet, First
<1>2. SumsUp(sum, w, E)
  <2>1. \A s \in SUBSET E : s # {} => w[First(s)] = Of(First(s))
    BY FirstIn
  <2>2. PICK g : SumsUp(g, w, E)
    <3> HIDE DEF w
    <3> QED BY <1>0, SumExists
  <2>3. g = [s \in SUBSET E |-> IF s = {} THEN 0 ELSE Of(First(s)) + g[s \ {First(s)}]]
    BY <2>1, <2>2 DEF SumsUp
  <2>4. sum = [s \in SUBSET E |-> IF s = {} THEN 0 ELSE Of(First(s)) + sum[s \ {First(s)}]]
    BY <2>3
  <2> QED BY <2>1, <2>4 DEF SumsUp
<1>3. PICK b : SumsUp(b, OfSeverity(E, "Breaking"), E) /\ CountOf(E, "Breaking") = b[E]
  BY <1>0, CountSums
<1>4. PICK d : SumsUp(d, OfSeverity(E, "Warning"), E) /\ CountOf(E, "Warning") = d[E]
  BY <1>0, CountSums
<1>5. PICK i : SumsUp(i, OfSeverity(E, "Info"), E) /\ CountOf(E, "Info") = i[E]
  BY <1>0, CountSums
<1>6. PICK t : SumsUp(t, two, E)
  <2> HIDE DEF two
  <2> QED BY <1>0, SumExists
<1>7. ASSUME NEW ec \in E
      PROVE  /\ OfSeverity(E, "Breaking")[ec] \in Nat /\ OfSeverity(E, "Warning")[ec] \in Nat
             /\ OfSeverity(E, "Info")[ec] \in Nat /\ two[ec] \in Nat
             /\ two[ec] = OfSeverity(E, "Breaking")[ec] + OfSeverity(E, "Warning")[ec]
             /\ w[ec] = two[ec] + OfSeverity(E, "Info")[ec]
  <2> DEFINE part(s) == {c \in ec.changes : c.severity = s}
  <2>1. IsFiniteSet(ec.changes)
    BY DEF FiniteChanges
  <2>2. /\ OfSeverity(E, "Breaking")[ec] = Cardinality(part("Breaking"))
        /\ OfSeverity(E, "Warning")[ec] = Cardinality(part("Warning"))
        /\ OfSeverity(E, "Info")[ec] = Cardinality(part("Info"))
        /\ two[ec] = OfSeverity(E, "Breaking")[ec] + OfSeverity(E, "Warning")[ec]
        /\ w[ec] = Cardinality(ec.changes)
    BY DEF OfSeverity
  <2> HIDE DEF two, w
  <2>3. /\ IsFiniteSet(part("Breaking")) /\ IsFiniteSet(part("Warning")) /\ IsFiniteSet(part("Info"))
        /\ IsFiniteSet(part("Breaking") \cup part("Warning"))
    BY <2>1, FS_Subset
  <2>4. /\ part("Breaking") \cap part("Warning") = {}
        /\ (part("Breaking") \cup part("Warning")) \cap part("Info") = {}
        /\ (part("Breaking") \cup part("Warning")) \cup part("Info") = ec.changes
    BY DEF Severities
  <2> HIDE DEF part
  <2>5. /\ Cardinality(part("Breaking")) \in Nat /\ Cardinality(part("Warning")) \in Nat
        /\ Cardinality(part("Info")) \in Nat /\ Cardinality({}) = 0
    BY <2>3, FS_CardinalityType, FS_EmptySet
  <2>6. Cardinality(part("Breaking") \cup part("Warning"))
          = Cardinality(part("Breaking")) + Cardinality(part("Warning")) - Cardinality({})
    BY <2>3, <2>4, FS_Union
  <2>7. Cardinality(ec.changes)
          = Cardinality(part("Breaking") \cup part("Warning")) + Cardinality(part("Info"))
            - Cardinality({})
    BY <2>3, <2>4, FS_Union
  <2> QED BY <2>2, <2>5, <2>6, <2>7
<1> HIDE DEF two, w, sum
<1>8. t[E] = b[E] + d[E]
  BY ONLY <1>0, <1>3, <1>4, <1>6, <1>7, SumsAdd
<1>9. sum[E] = t[E] + i[E]
  BY ONLY <1>0, <1>2, <1>5, <1>6, <1>7, SumsAdd
<1> QED BY <1>1, <1>3, <1>4, <1>5, <1>8, <1>9

\* What parse_spec makes of parameters and responses are functions.
LEMMA PartsAreFunctions ==
  ASSUME NEW doc, NEW k \in DOMAIN ParseSpec(doc)
  PROVE  LET e == ParseSpec(doc)[k]
         IN  /\ e.parameters = [n \in DOMAIN e.parameters |-> e.parameters[n]]
             /\ e.response_fields = [f \in DOMAIN e.response_fields |-> e.response_fields[f]]
  BY DEF ParseSpec, ParseParameters, ParseFields

\* No change is found in an operation exactly if its callers see the same contract.
LEMMA SameContract ==
  ASSUME NEW a, NEW b,
         a.response_fields = [f \in DOMAIN a.response_fields |-> a.response_fields[f]],
         b.response_fields = [f \in DOMAIN b.response_fields |-> b.response_fields[f]]
  PROVE  DiffEndpoint(a, b) = {} <=> Contract(a) = Contract(b)
<1> DEFINE ap == a.parameters
           bp == b.parameters
           af == a.response_fields
           bf == b.response_fields
<1>1. Contract(a) = Contract(b) <=>
         /\ DOMAIN ap = DOMAIN bp
         /\ \A n \in DOMAIN ap : ap[n].type = bp[n].type /\ ap[n].required = bp[n].required
         /\ af = bf
         /\ a.response_statuses = b.response_statuses
  <2> DEFINE pa == [n \in DOMAIN ap |-> <<ap[n].type, ap[n].required>>]
             pb == [n \in DOMAIN bp |-> <<bp[n].type, bp[n].required>>]
  <2>1. pa = pb <=> /\ DOMAIN ap = DOMAIN bp
                    /\ \A n \in DOMAIN ap : ap[n].type = bp[n].type /\ ap[n].required = bp[n].required
    <3>1. pa = pb => DOMAIN ap = DOMAIN bp
      <4>1. DOMAIN pa = DOMAIN ap /\ DOMAIN pb = DOMAIN bp
        OBVIOUS
      <4> QED BY <4>1
    <3>2. ASSUME pa = pb, NEW n \in DOMAIN ap
          PROVE  ap[n].type = bp[n].type /\ ap[n].required = bp[n].required
      <4>1. pa[n] = <<ap[n].type, ap[n].required>>
        OBVIOUS
      <4>2. pb[n] = <<bp[n].type, bp[n].required>>
        BY <3>1, <3>2
      <4> QED BY <3>2, <4>1, <4>2
    <3>3. DOMAIN ap = DOMAIN bp
             /\ (\A n \in DOMAIN ap : ap[n].type = bp[n].type /\ ap[n].required = bp[n].required)
          => pa = pb
      OBVIOUS
    <3> QED BY <3>1, <3>2, <3>3
  <2>2. Contract(a) = Contract(b) <=> pa = pb /\ af = bf /\ a.response_statuses = b.response_statuses
    BY DEF Contract
  <2> QED BY <2>1, <2>2
<1>2. af = bf <=> DOMAIN af = DOMAIN bf /\ \A f \in DOMAIN af : af[f] = bf[f]
  OBVIOUS
<1>3. DiffParameters(ap, bp) = {} <=>
         /\ DOMAIN ap = DOMAIN bp
         /\ \A n \in DOMAIN ap : ap[n].type = bp[n].type /\ ap[n].required = bp[n].required
  <2> HIDE DEF ap, bp
  <2> DEFINE ifRequired(n) == IF bp[n].required THEN "Breaking" ELSE "Info"
             removed == {Change(<<"parameters", n>>, "ParameterRemoved", "Breaking") :
                            n \in DOMAIN ap \ DOMAIN bp}
             added == {Change(<<"parameters", n>>, "ParameterAdded", ifRequired(n)) :
                          n \in DOMAIN bp \ DOMAIN ap}
             retyped == {Change(<<"parameters", n>>, "ParameterTypeChanged", "Breaking") :
                            n \in {n \in DOMAIN ap \cap DOMAIN bp : ap[n].type # bp[n].type}}
             obliged == {Change(<<"parameters", n>>, "ParameterRequiredChanged", ifRequired(n)) :
                            n \in {n \in DOMAIN ap \cap DOMAIN bp : ap[n].required # bp[n].required}}
  <2>1. DiffParameters(ap, bp) = removed \cup added \cup retyped \cup obliged
    BY DEF DiffParameters
  <2>2. /\ removed = {} <=> DOMAIN ap \subseteq DOMAIN bp
        /\ added = {} <=> DOMAIN bp \subseteq DOMAIN ap
        /\ retyped = {} <=> \A n \in DOMAIN ap \cap DOMAIN bp : ap[n].type = bp[n].type
        /\ obliged = {} <=> \A n \in DOMAIN ap \cap DOMAIN bp : ap[n].required = bp[n].required
    <3>1. removed = {} <=> DOMAIN ap \subseteq DOMAIN bp
      OBVIOUS
    <3>2. added = {} <=> DOMAIN bp \subseteq DOMAIN ap
      OBVIOUS
    <3>3. retyped = {} <=> \A n \in DOMAIN ap \cap DOMAIN bp : ap[n].type = bp[n].type
      <4> DEFINE those == {n \in DOMAIN ap \cap DOMAIN bp : ap[n].type # bp[n].type}
      <4>1. retyped = {} <=> those = {}
        <5>1. retyped = {Change(<<"parameters", x>>, "ParameterTypeChanged", "Breaking") : x \in those}
          OBVIOUS
        <5> HIDE DEF those, retyped
        <5> QED BY <5>1
      <4>2. those = {} <=> \A n \in DOMAIN ap \cap DOMAIN bp : ap[n].type = bp[n].type
        OBVIOUS
      <4> HIDE DEF those, retyped
      <4> QED BY <4>1, <4>2
    <3>4. obliged = {} <=> \A n \in DOMAIN ap \cap DOMAIN bp : ap[n].required = bp[n].required
      <4> DEFINE those == {n \in DOMAIN ap \cap DOMAIN bp : ap[n].required # bp[n].required}
      <4>1. obliged = {} <=> those = {}
        <5>1. obliged = {Change(<<"parameters", x>>, "ParameterRequiredChanged", ifRequired(x)) : x \in those}
          OBVIOUS
        <5> HIDE DEF those, obliged
        <5> QED BY <5>1
      <4>2. those = {} <=> \A n \in DOMAIN ap \cap DOMAIN bp : ap[n].required = bp[n].required
        OBVIOUS
      <4> HIDE DEF those, obliged
      <4> QED BY <4>1, <4>2
    <3> QED BY <3>1, <3>2, <3>3, <3>4
  <2> HIDE DEF removed, added, retyped, obliged
  <2>3. DiffParameters(ap, bp) = {} <=> removed = {} /\ added = {} /\ retyped = {} /\ obliged = {}
    BY <2>1
  <2> QED BY <2>2, <2>3
<1>4. DiffResponses(a, b) = {} <=>
         /\ DOMAIN af = DOMAIN bf /\ \A f \in DOMAIN af : af[f] = bf[f]
         /\ a.response_statuses = b.response_statuses
  <2> HIDE DEF af, bf
  <2> DEFINE removed == {Change(<<"response", f>>, "ResponseFieldRemoved", "Warning") :
                            f \in DOMAIN af \ DOMAIN bf}
             added == {Change(<<"response", f>>, "ResponseFieldAdded", "Info") :
                          f \in DOMAIN bf \ DOMAIN af}
             retyped == {Change(<<"response", f>>, "ResponseFieldTypeChanged", "Breaking") :
                            f \in {f \in DOMAIN af \cap DOMAIN bf : af[f] # bf[f]}}
             fewer == {Change(<<"responses", s>>, "ResponseStatusRemoved", "Warning") :
                          s \in a.response_statuses \ b.response_statuses}
             more == {Change(<<"responses", s>>, "ResponseStatusAdded", "Info") :
                         s \in b.response_statuses \ a.response_statuses}
  <2>1. DiffResponses(a, b) = removed \cup added \cup retyped \cup fewer \cup more
    BY DEF DiffResponses, af, bf
  <2>2. /\ removed = {} <=> DOMAIN af \subseteq DOMAIN bf
        /\ added = {} <=> DOMAIN bf \subseteq DOMAIN af
        /\ retyped = {} <=> \A f \in DOMAIN af \cap DOMAIN bf : af[f] = bf[f]
        /\ fewer = {} <=> a.response_statuses \subseteq b.response_statuses
        /\ more = {} <=> b.response_statuses \subseteq a.response_statuses
    <3>1. removed = {} <=> DOMAIN af \subseteq DOMAIN bf
      OBVIOUS
    <3>2. added = {} <=> DOMAIN bf \subseteq DOMAIN af
      OBVIOUS
    <3>3. retyped = {} <=> \A f \in DOMAIN af \cap DOMAIN bf : af[f] = bf[f]
      <4> DEFINE those == {f \in DOMAIN af \cap DOMAIN bf : af[f] # bf[f]}
      <4>1. retyped = {} <=> those = {}
        <5>1. retyped = {Change(<<"response", x>>, "ResponseFieldTypeChanged", "Breaking") : x \in those}
          OBVIOUS
        <5> HIDE DEF those, retyped
        <5> QED BY <5>1
      <4>2. those = {} <=> \A f \in DOMAIN af \cap DOMAIN bf : af[f] = bf[f]
        OBVIOUS
      <4> HIDE DEF those, retyped
      <4> QED BY <4>1, <4>2
    <3>4. fewer = {} <=> a.response_statuses \subseteq b.response_statuses
      <4> DEFINE those == a.response_statuses \ b.response_statuses
      <4>1. fewer = {} <=> those = {}
        <5>1. fewer = {Change(<<"responses", x>>, "ResponseStatusRemoved", "Warning") : x \in those}
          OBVIOUS
        <5> HIDE DEF those, fewer
        <5> QED BY <5>1
      <4>2. those = {} <=> a.response_statuses \subseteq b.response_statuses
        OBVIOUS
      <4> HIDE DEF those, fewer
      <4> QED BY <4>1, <4>2
    <3>5. more = {} <=> b.response_statuses \subseteq a.response_statuses
      <4> DEFINE those == b.response_statuses \ a.response_statuses
      <4>1. more = {} <=> those = {}
        <5>1. more = {Change(<<"responses", x>>, "ResponseStatusAdded", "Info") : x \in those}
          OBVIOUS
        <5> HIDE DEF those, more
        <5> QED BY <5>1
      <4>2. those = {} <=> b.response_statuses \subseteq a.response_statuses
        OBVIOUS
      <4> HIDE DEF those, more
      <4> QED BY <4>1, <4>2
    <3> QED BY <3>1, <3>2, <3>3, <3>4, <3>5
  <2> HIDE DEF removed, added, retyped, fewer, more
  <2>3. DiffResponses(a, b) = {} <=>
           removed = {} /\ added = {} /\ retyped = {} /\ fewer = {} /\ more = {}
    BY <2>1
  <2> QED BY <2>2, <2>3
<1>5. DiffEndpoint(a, b) = {} <=> DiffParameters(ap, bp) = {} /\ DiffResponses(a, b) = {}
  BY DEF DiffEndpoint
<1> HIDE DEF ap, bp, af, bf
<1> QED BY <1>1, <1>2, <1>3, <1>4, <1>5

\* The difference of two documents reports each operation whose contract is not the
\* same in both, once, and its three counts add up to the changes reported.
THEOREM DifferenceHolds == Spec => []DiffIsExact
<1>1. Computed => DiffIsExact
  <2> DEFINE differs == {k \in DOMAIN OldSpec \cup DOMAIN NewSpec :
                           ~ /\ k \in DOMAIN OldSpec \cap DOMAIN NewSpec
                             /\ Contract(OldSpec[k]) = Contract(NewSpec[k])}
             ecs == diff.endpoint_changes
  <2> SUFFICES ASSUME Computed, Compared
               PROVE  /\ {ec.key : ec \in ecs} = differs
                      /\ Cardinality(ecs) = Cardinality(differs)
                      /\ diff.breaking + diff.warning + diff.info = AllChanges(ecs)
    BY DEF DiffIsExact, Compared, AllChanges
  <2>1. /\ ecs = EndpointChanges(OldSpec, NewSpec)
        /\ diff.breaking = CountOf(ecs, "Breaking") /\ diff.warning = CountOf(ecs, "Warning")
        /\ diff.info = CountOf(ecs, "Info")
    BY ComparedIsFinite DEF DiffSpecs
  <2>2. diff.breaking + diff.warning + diff.info = AllChanges(ecs)
    <3> HIDE DEF ecs
    <3> QED BY <2>1, ComparedIsFinite, CountsAddUp DEF ecs
  <2>3. \A k \in DOMAIN OldSpec \cap DOMAIN NewSpec :
           DiffEndpoint(OldSpec[k], NewSpec[k]) = {} <=> Contract(OldSpec[k]) = Contract(NewSpec[k])
    <3> TAKE k \in DOMAIN OldSpec \cap DOMAIN NewSpec
    <3> DEFINE a == OldSpec[k]
               b == NewSpec[k]
    <3>1. /\ a.response_fields = [f \in DOMAIN a.response_fields |-> a.response_fields[f]]
          /\ b.response_fields = [f \in DOMAIN b.response_fields |-> b.response_fields[f]]
      BY PartsAreFunctions DEF OldSpec, NewSpec
    <3> HIDE DEF a, b
    <3>2. DiffEndpoint(a, b) = {} <=> Contract(a) = Contract(b)
      BY <3>1, SameContract
    <3> QED BY <3>2 DEF a, b
  <2> DEFINE changes(k) ==
               IF k \notin DOMAIN NewSpec THEN {Change(NoField, "EndpointRemoved", "Breaking")}
               ELSE IF k \notin DOMAIN OldSpec THEN {Change(NoField, "EndpointAdded", "Info")}
               ELSE DiffEndpoint(OldSpec[k], NewSpec[k])
             of == [k \in differs |-> [key |-> k, changes |-> changes(k)]]
  <2>4. ecs = {of[k] : k \in differs}
    <3>1. ASSUME NEW k \in differs
          PROVE  of[k] \in ecs
      <4>1. of[k] = [key |-> k, changes |-> changes(k)]
        OBVIOUS
      <4> HIDE DEF of
      <4> QED BY <2>1, <2>3, <4>1 DEF EndpointChanges
    <3>2. ASSUME NEW ec \in ecs
          PROVE  \E k \in differs : ec = of[k]
      <4>1. PICK k \in DOMAIN OldSpec \cup DOMAIN NewSpec :
               /\ ec = [key |-> k, changes |-> changes(k)]
               /\ k \in DOMAIN OldSpec \cap DOMAIN NewSpec => DiffEndpoint(OldSpec[k], NewSpec[k]) # {}
        BY <2>1 DEF EndpointChanges
      <4>2. k \in differs
        BY <2>3, <4>1
      <4>3. of[k] = [key |-> k, changes |-> changes(k)]
        BY <4>2
      <4> HIDE DEF of
      <4> QED BY <4>1, <4>2, <4>3
    <3> HIDE DEF of, differs, ecs
    <3> QED BY <3>1, <3>2
  <2>5. \A k \in differs : of[k].key = k
    OBVIOUS
  <2>6. IsFiniteSet(differs)
    <3>1. IsFiniteSet(DOMAIN OldSpec \cup DOMAIN NewSpec)
      BY ComparedIsFinite, FS_Union
    <3> QED BY <3>1, FS_Subset
  <2> HIDE DEF of, differs, ecs
  <2>7. {ec.key : ec \in ecs} = differs
    BY <2>4, <2>5
  <2>8. \A j, k \in differs : of[j] = of[k] => j = k
    BY <2>5
  <2>9. Cardinality(ecs) = Cardinality(differs)
    BY <2>4, <2>6, <2>8, Image
  <2> QED BY <2>2, <2>7, <2>9
<1> QED BY <1>1, ComputedHolds, PTL

-----------------------------------------------------------------------------
\* The trust report.

Unresolved(I) == MapThenSumSet(LAMBDA i : Cardinality(i.unresolved), I)
ForReason(I, r) == MapThenSumSet(LAMBDA i : Cardinality({u \in i.unresolved : u.reason = r}), I)
OfReasons(n, R) == MapThenSumSet(LAMBDA r : n[r], R)

LEMMA UnresolvedSums ==
  ASSUME NEW I, IsFiniteSet(I)
  PROVE  \E g : SumsUp(g, [i \in I |-> Cardinality(i.unresolved)], I) /\ Unresolved(I) = g[I]
<1> DEFINE Of(i) == Cardinality(i.unresolved)
           w == [i \in I |-> Of(i)]
           sum == CHOOSE g : g = [s \in SUBSET I |-> IF s = {} THEN 0
                                                   ELSE Of(First(s)) + g[s \ {First(s)}]]
<1>1. Unresolved(I) = sum[I]
  BY DEF Unresolved, MapThenSumSet, MapThenFoldSet, First
<1>2. \A s \in SUBSET I : s # {} => w[First(s)] = Of(First(s))
  BY FirstIn
<1>3. PICK g : SumsUp(g, w, I)
  <2> HIDE DEF w
  <2> QED BY SumExists
<1>4. g = [s \in SUBSET I |-> IF s = {} THEN 0 ELSE Of(First(s)) + g[s \ {First(s)}]]
  BY <1>2, <1>3 DEF SumsUp
<1>5. sum = [s \in SUBSET I |-> IF s = {} THEN 0 ELSE Of(First(s)) + sum[s \ {First(s)}]]
  BY <1>4
<1>6. SumsUp(sum, w, I)
  BY <1>2, <1>5 DEF SumsUp
<1> HIDE DEF sum
<1> QED BY <1>1, <1>6

LEMMA ReasonSums ==
  ASSUME NEW I, IsFiniteSet(I), NEW r
  PROVE  \E g : /\ SumsUp(g, [i \in I |-> Cardinality({u \in i.unresolved : u.reason = r})], I)
               /\ ForReason(I, r) = g[I]
<1> DEFINE Of(i) == Cardinality({u \in i.unresolved : u.reason = r})
           w == [i \in I |-> Of(i)]
           sum == CHOOSE g : g = [s \in SUBSET I |-> IF s = {} THEN 0
                                                   ELSE Of(First(s)) + g[s \ {First(s)}]]
<1>1. ForReason(I, r) = sum[I]
  BY DEF ForReason, MapThenSumSet, MapThenFoldSet, First
<1>2. \A s \in SUBSET I : s # {} => w[First(s)] = Of(First(s))
  BY FirstIn
<1>3. PICK g : SumsUp(g, w, I)
  <2> HIDE DEF w
  <2> QED BY SumExists
<1>4. g = [s \in SUBSET I |-> IF s = {} THEN 0 ELSE Of(First(s)) + g[s \ {First(s)}]]
  BY <1>2, <1>3 DEF SumsUp
<1>5. sum = [s \in SUBSET I |-> IF s = {} THEN 0 ELSE Of(First(s)) + sum[s \ {First(s)}]]
  BY <1>4
<1>6. SumsUp(sum, w, I)
  BY <1>2, <1>5 DEF SumsUp
<1> HIDE DEF sum
<1> QED BY <1>1, <1>6

LEMMA OfReasonsSums ==
  ASSUME NEW R, IsFiniteSet(R), NEW n
  PROVE  \E g : SumsUp(g, n, R) /\ OfReasons(n, R) = g[R]
<1> DEFINE sum == CHOOSE g : g = [s \in SUBSET R |-> IF s = {} THEN 0
                                                   ELSE n[First(s)] + g[s \ {First(s)}]]
<1>1. OfReasons(n, R) = sum[R]
  BY DEF OfReasons, MapThenSumSet, MapThenFoldSet, First
<1>2. PICK g : SumsUp(g, n, R)
  BY SumExists
<1>3. sum = [s \in SUBSET R |-> IF s = {} THEN 0 ELSE n[First(s)] + sum[s \ {First(s)}]]
  BY <1>2 DEF SumsUp
<1>4. SumsUp(sum, n, R)
  BY <1>3 DEF SumsUp
<1> HIDE DEF sum
<1> QED BY <1>1, <1>4

ReasonsOf(I) == UNION {{u.reason : u \in i.unresolved} : i \in I}

\* Every unresolved reference has one reason: the counts of the reasons add up.
LEMMA ReasonsAddUp ==
  ASSUME NEW I, IsFiniteSet(I), \A i \in I : IsFiniteSet(i.unresolved),
         NEW n, \A r \in ReasonsOf(I) : n[r] = ForReason(I, r)
  PROVE  OfReasons(n, ReasonsOf(I)) = Unresolved(I)
<1> DEFINE R == ReasonsOf(I)
           a == [r \in R |-> [i \in I |-> Cardinality({u \in i.unresolved : u.reason = r})]]
           b == [s \in SUBSET R |-> [i \in I |-> Cardinality({u \in i.unresolved : u.reason \in s})]]
           G == [r \in R |-> CHOOSE g : SumsUp(g, a[r], I) /\ ForReason(I, r) = g[I]]
<1>1. IsFiniteSet(R)
  <2> DEFINE of(i) == [u \in i.unresolved |-> u.reason]
             reasons == [i \in I |-> {of(i)[u] : u \in i.unresolved}]
             all == {reasons[i] : i \in I}
  <2>1. \A i \in I : IsFiniteSet({of(i)[u] : u \in i.unresolved})
    <3> HIDE DEF of
    <3> QED BY Image
  <2>2. IsFiniteSet(all)
    <3> HIDE DEF reasons
    <3> QED BY Image
  <2>3. \A t \in all : IsFiniteSet(t)
    <3> HIDE DEF of
    <3> QED BY <2>1
  <2>4. R = UNION all
    <3>1. \A i \in I : reasons[i] = {u.reason : u \in i.unresolved}
      OBVIOUS
    <3> HIDE DEF reasons
    <3> QED BY <3>1 DEF ReasonsOf
  <2> HIDE DEF all, R
  <2> QED BY <2>2, <2>3, <2>4, FS_UNION
<1>2. \A i \in I : \A s : IsFiniteSet({u \in i.unresolved : u.reason \in s})
                       /\ Cardinality({u \in i.unresolved : u.reason \in s}) \in Nat
  BY FS_Subset, FS_CardinalityType
<1>3. \A i \in I : \A r : /\ {u \in i.unresolved : u.reason = r} = {u \in i.unresolved : u.reason \in {r}}
                        /\ IsFiniteSet({u \in i.unresolved : u.reason = r})
                        /\ Cardinality({u \in i.unresolved : u.reason = r}) \in Nat
  BY FS_Subset, FS_CardinalityType
<1>4. /\ \A r \in R : \A i \in I : a[r][i] = Cardinality({u \in i.unresolved : u.reason = r})
      /\ \A s \in SUBSET R : \A i \in I : b[s][i] = Cardinality({u \in i.unresolved : u.reason \in s})
  OBVIOUS
<1>5. \A r \in R : SumsUp(G[r], a[r], I) /\ n[r] = G[r][I]
  <2> TAKE r \in R
  <2>1. a[r] = [i \in I |-> Cardinality({u \in i.unresolved : u.reason = r})]
    OBVIOUS
  <2>2. \E g : SumsUp(g, a[r], I) /\ ForReason(I, r) = g[I]
    BY <2>1, ReasonSums
  <2>3. G[r] = CHOOSE g : SumsUp(g, a[r], I) /\ ForReason(I, r) = g[I]
    OBVIOUS
  <2> HIDE DEF a, G
  <2> QED BY <2>2, <2>3
<1>6. b[R] = [i \in I |-> Cardinality(i.unresolved)]
  <2>1. \A i \in I : {u \in i.unresolved : u.reason \in R} = i.unresolved
    BY DEF ReasonsOf
  <2>2. b[R] = [i \in I |-> Cardinality({u \in i.unresolved : u.reason \in R})]
    OBVIOUS
  <2> HIDE DEF R, b
  <2> QED BY <2>1, <2>2
<1> HIDE DEF a, b, G
<1>7. \A r \in R : \A i \in I : a[r][i] \in Nat
  <2> HIDE DEF R
  <2> TAKE r \in R
  <2> TAKE i \in I
  <2>1. Cardinality({u \in i.unresolved : u.reason = r}) \in Nat
    BY <1>3
  <2>2. a[r][i] = Cardinality({u \in i.unresolved : u.reason = r})
    BY <1>4
  <2> QED BY <2>1, <2>2
<1>8. \A s \in SUBSET R : \A i \in I : b[s][i] \in Nat
  <2> HIDE DEF R
  <2> TAKE s \in SUBSET R
  <2> TAKE i \in I
  <2>1. Cardinality({u \in i.unresolved : u.reason \in s}) \in Nat
    BY <1>2
  <2>2. b[s][i] = Cardinality({u \in i.unresolved : u.reason \in s})
    BY <1>4
  <2> QED BY <2>1, <2>2
<1>9. \A i \in I : b[{}][i] = 0
  <2>1. \A i \in I : {u \in i.unresolved : u.reason \in {}} = {}
    OBVIOUS
  <2>2. \A i \in I : b[{}][i] = Cardinality({u \in i.unresolved : u.reason \in {}})
    BY <1>4
  <2> QED BY <2>1, <2>2, FS_EmptySet
<1>10. \A s \in SUBSET R : s # {} =>
          \A i \in I : b[s][i] = a[First(s)][i] + b[s \ {First(s)}][i]
  <2> SUFFICES ASSUME NEW s \in SUBSET R, s # {}, NEW i \in I
               PROVE  b[s][i] = a[First(s)][i] + b[s \ {First(s)}][i]
    OBVIOUS
  <2> DEFINE r == First(s)
             one == {u \in i.unresolved : u.reason = r}
             rest == {u \in i.unresolved : u.reason \in s \ {r}}
             both == {u \in i.unresolved : u.reason \in s}
  <2>1. r \in s
    BY FirstIn
  <2>2. one \cup rest = both /\ one \cap rest = {}
    <3> HIDE DEF r
    <3> QED BY <2>1
  <2>3. a[r][i] = Cardinality(one) /\ b[s \ {r}][i] = Cardinality(rest) /\ b[s][i] = Cardinality(both)
    BY <1>4, <2>1
  <2>4. /\ IsFiniteSet(one) /\ IsFiniteSet(rest)
        /\ Cardinality(one) \in Nat /\ Cardinality(rest) \in Nat /\ Cardinality({}) = 0
    BY <1>2, <1>3, FS_EmptySet
  <2> HIDE DEF one, rest, both
  <2>5. Cardinality(both) = Cardinality(one) + Cardinality(rest) - Cardinality({})
    BY <2>2, <2>4, FS_Union
  <2> QED BY <2>3, <2>4, <2>5
<1>11. PICK h : SumsUp(h, n, R) /\ OfReasons(n, R) = h[R]
  <2> HIDE DEF R
  <2> QED BY <1>1, OfReasonsSums
<1>12. PICK H : SumsUp(H, b[R], I) /\ Unresolved(I) = H[I]
  BY <1>6, UnresolvedSums
<1> HIDE DEF R
<1>13. Table(a, b, I, R)
  BY <1>1, <1>7, <1>8, <1>9, <1>10 DEF Table
<1>14. RowSums(n, a, I, R)
  BY <1>5 DEF RowSums
<1>15. h[R] = H[I]
  BY ONLY <1>11, <1>12, <1>13, <1>14, SumsExchange
<1> QED BY <1>11, <1>12, <1>15 DEF R

\* An endpoint that breaks is in the plan.
LEMMA BreakingIsPlanned ==
  ASSUME NEW ec \in diff.endpoint_changes, \E c \in ec.changes : c.severity = "Breaking"
  PROVE  \E i \in TheImpacts : i.key = ec.key
<1> DEFINE index == SpecIndex(DOMAIN NewSpec)
           i == Impact(ec, index)
<1>1. i.key = ec.key /\ i.severity = MaxSeverity(ec.changes)
  BY DEF Impact
<1>2. MaxSeverity(ec.changes) = "Breaking"
  <2> DEFINE found == {c.severity : c \in ec.changes}
  <2>1. "Breaking" \in found
    OBVIOUS
  <2> QED BY <2>1 DEF MaxSeverity
<1>3. i \in Impacts(index)
  <2> HIDE DEF index
  <2> QED BY <1>1, <1>2 DEF Impacts
<1> HIDE DEF i
<1> QED BY <1>1, <1>3 DEF TheImpacts, TheIndex

\* The figures of the trust report, by the names they are proved under.
LEMMA TrustFigures ==
  ASSUME NEW p
  PROVE  LET I == p.impacted_endpoints
             t == TrustReport(p)
         IN  /\ t.confirmed = Total(I) /\ t.unresolved = Unresolved(I)
             /\ DOMAIN t.reasons = ReasonsOf(I)
             /\ \A r \in ReasonsOf(I) : t.reasons[r] = ForReason(I, r)
<1> DEFINE I == p.impacted_endpoints
           t == TrustReport(p)
<1>1. t.confirmed = Total(I)
  BY DEF TrustReport, Sum, Total, MapThenSumSet, MapThenFoldSet
<1>2. t.unresolved = Unresolved(I)
  BY DEF TrustReport, Sum, Unresolved, MapThenSumSet, MapThenFoldSet
<1>3. /\ DOMAIN t.reasons = ReasonsOf(I)
      /\ \A r \in ReasonsOf(I) : t.reasons[r] = ForReason(I, r)
  BY DEF TrustReport, Sum, ForReason, ReasonsOf, MapThenSumSet, MapThenFoldSet
<1> QED BY <1>1, <1>2, <1>3

\* An endpoint that breaks is in the plan, its references are split without loss or
\* overlap, and the totals and reasons of the trust report are the plan's.
THEOREM ReferencesHold == Spec => []ReferencesAreAccountedFor
<1>1. ASSUME Computed, stage \in {"contracts", "report", "done"}, plan.status # "Clean"
      PROVE  /\ \A ec \in diff.endpoint_changes :
                   (\E c \in ec.changes : c.severity = "Breaking") =>
                       \E i \in plan.impacted_endpoints : i.key = ec.key
             /\ \A i \in plan.impacted_endpoints :
                   Cardinality(i.affected_callsites) + Cardinality(i.provably_unaffected)
                     + Cardinality(i.unresolved) = i.total_sdk_references
  <2>1. plan.impacted_endpoints = TheImpacts
    BY <1>1, PlanIsOne DEF Planned
  <2> QED BY <1>1, <2>1, BreakingIsPlanned, ImpactsAre DEF Compared
<1>2. ASSUME Computed, stage = "done"
      PROVE  /\ report.trust.confirmed = plan.total_affected_callsites
             /\ MapThenSumSet(LAMBDA r : report.trust.reasons[r], DOMAIN report.trust.reasons)
                   = report.trust.unresolved
  <2> DEFINE I == plan.impacted_endpoints
             n == report.trust.reasons
  <2>1. /\ report.trust.confirmed = Total(I) /\ report.trust.unresolved = Unresolved(I)
        /\ DOMAIN n = ReasonsOf(I)
        /\ \A r \in ReasonsOf(I) : n[r] = ForReason(I, r)
    BY <1>2, TrustFigures DEF Computed
  <2>2. /\ IsFiniteSet(I)
        /\ \A i \in I : IsFiniteSet(i.affected_callsites) /\ IsFiniteSet(i.unresolved)
    <3>1. I = {} \/ I = TheImpacts
      BY <1>2, PlanIsOne DEF Planned
    <3> QED BY <1>2, <3>1, ImpactsAre, FS_EmptySet DEF Compared
  <2>3. plan.total_affected_callsites = Total(I)
    <3>1. CASE plan.total_affected_callsites = 0 /\ I = {}
      BY <2>2, <3>1, TotalZero
    <3>2. CASE plan = PlanOf(TheImpacts) /\ I = TheImpacts
      BY <3>2 DEF PlanOf, Total
    <3> QED BY <1>2, <3>1, <3>2, PlanIsOne DEF Planned
  <2>4. MapThenSumSet(LAMBDA r : n[r], DOMAIN n) = OfReasons(n, ReasonsOf(I))
    BY <2>1 DEF OfReasons
  <2> HIDE DEF I, n
  <2>5. OfReasons(n, ReasonsOf(I)) = Unresolved(I)
    BY <2>1, <2>2, ReasonsAddUp
  <2> QED BY <2>1, <2>3, <2>4, <2>5 DEF n
<1>3. Computed => ReferencesAreAccountedFor
  BY <1>1, <1>2 DEF ReferencesAreAccountedFor
<1> QED BY <1>3, ComputedHolds, PTL

-----------------------------------------------------------------------------
\* What a service answers.

AuditAnswer(a) == [inventory |-> RunInventory(a.repo),
                   audit |-> AuditSummary(BuildGraph(a.repo, a.dir))]
OrderAnswer(w) == [errors |-> ValidateWorkflow(w), order |-> ExecutionOrder(w)]
VerdictAnswer(replay) == [classification |-> ClassifyReplay(EvidenceOf(replay)),
                          mergeable |-> MergeablePr(EvidenceOf(replay))]

Ending == [outcome : Outcomes, logged : BOOLEAN]

Served ==
    /\ input \in [service : {"audit"}, of : Audited]
                 \cup [service : {"workflow"}, of : Workflows]
                 \cup [service : {"replay"}, of : Replays]
    /\ ended \in [Slots -> {<<>>} \cup {<<e>> : e \in Ending}]
    /\ Answered("audit") => result = AuditAnswer(input.of)
    /\ Answered("workflow") => result = OrderAnswer(input.of)
    /\ Answered("replay") => result = VerdictAnswer(input.of)

\* What a service is asked does not change, and its answer is given once.
LEMMA ServedHolds == ServicesSpec => []Served
<1>1. ServicesInit => Served
  BY DEF ServicesInit, Served, Answered
<1>2. Served /\ [ServicesNext]_servicesVars => Served'
  <2> SUFFICES ASSUME Served, [ServicesNext]_servicesVars PROVE Served'
    OBVIOUS
  <2>1. CASE Audit
    <3>1. result' = AuditAnswer(input.of)
      BY <2>1 DEF Audit, AuditAnswer
    <3> QED BY <2>1, <3>1 DEF Audit, Serve, Served, Answered
  <2>2. CASE OrderWorkflow
    <3>1. result' = OrderAnswer(input.of)
      BY <2>2 DEF OrderWorkflow, OrderAnswer
    <3> QED BY <2>2, <3>1 DEF OrderWorkflow, Serve, Served, Answered
  <2>3. ASSUME NEW s \in Slots, NEW outcome \in Outcomes, NEW logged \in BOOLEAN,
               Execute(s, outcome, logged)
        PROVE  Served'
    <3> DEFINE e == [outcome |-> outcome, logged |-> logged]
    <3>1. e \in Ending
      BY DEF Ending
    <3>2. /\ ended' = [ended EXCEPT ![s] = <<e>>]
          /\ input' = input /\ result' = result /\ result = Pending
      BY <2>3 DEF Execute, Serve
    <3> HIDE DEF e
    <3>3. ended' \in [Slots -> {<<>>} \cup {<<x>> : x \in Ending}]
      BY <3>1, <3>2 DEF Served
    <3> QED BY <3>2, <3>3 DEF Served, Answered
  <2>4. CASE Classify
    <3>1. result' = VerdictAnswer(input.of) /\ UNCHANGED <<input, ended>>
      BY <2>4 DEF Classify, VerdictAnswer
    <3>2. VerdictAnswer(input.of)' = VerdictAnswer(input.of)
      BY <3>1 DEF VerdictAnswer, EvidenceOf
    <3> QED BY <2>4, <3>1, <3>2 DEF Classify, Serve, Served, Answered
  <2>5. CASE UNCHANGED servicesVars
    <3>1. UNCHANGED <<input, ended, result>>
      BY <2>5 DEF servicesVars
    <3>2. VerdictAnswer(input.of)' = VerdictAnswer(input.of)
      BY <3>1 DEF VerdictAnswer, EvidenceOf
    <3> QED BY <3>1, <3>2 DEF Served, Answered
  <2> QED BY <2>1, <2>2, <2>3, <2>4, <2>5 DEF ServicesNext
<1> QED BY <1>1, <1>2, PTL DEF ServicesSpec

\* The status of a command says how it ended.
LEMMA ExitCodeTells ==
  \A outcome \in Outcomes : (ExitCode(outcome) = 0) = (outcome = "green")
BY DEF ExitCode, Outcomes

\* The evidence holds what was executed, slot by slot.
LEMMA EvidenceIs ==
  ASSUME Served, NEW replay, NEW s \in Slots
  PROVE  LET e == EvidenceOf(replay)
         IN  /\ (e.executions[s] # <<>>) = (ended[s] # <<>>)
             /\ ended[s] # <<>> =>
                   /\ (e.executions[s][1].exit_code = 0) = (ended[s][1].outcome = "green")
                   /\ e.executions[s][1].logged = ended[s][1].logged
                   /\ ended[s][1].outcome \in Outcomes
             /\ e.placeholder = replay.placeholder
             /\ e.blast_radius_verified = replay.verified
             /\ e.unintended_files_modified = replay.unintended
             /\ e.files_modified = replay.files
<1> DEFINE e == EvidenceOf(replay)
<1>1. e.executions[s] = IF ended[s] = <<>> THEN <<>>
                        ELSE <<[exit_code |-> ExitCode(ended[s][1].outcome),
                                logged |-> ended[s][1].logged]>>
  BY DEF EvidenceOf
<1>2. ended[s] = <<>> \/ \E x \in Ending : ended[s] = <<x>>
  BY DEF Served
<1>3. ended[s] # <<>> => ended[s][1] \in Ending
  BY <1>2
<1>4. ended[s] # <<>> => /\ ended[s][1].outcome \in Outcomes
                         /\ (ExitCode(ended[s][1].outcome) = 0) = (ended[s][1].outcome = "green")
  BY <1>3, ExitCodeTells DEF Ending
<1>5. e.executions[s] # <<>> <=> ended[s] # <<>>
  <2>1. \A x : <<x>> # <<>>
    OBVIOUS
  <2> QED BY <1>1, <2>1
<1>6. ended[s] # <<>> => /\ e.executions[s][1].exit_code = ExitCode(ended[s][1].outcome)
                         /\ e.executions[s][1].logged = ended[s][1].logged
  BY <1>1
<1>7. /\ e.placeholder = replay.placeholder
      /\ e.blast_radius_verified = replay.verified
      /\ e.unintended_files_modified = replay.unintended
      /\ e.files_modified = replay.files
  BY DEF EvidenceOf
<1> HIDE DEF e
<1>8. /\ (e.executions[s] # <<>>) = (ended[s] # <<>>)
      /\ ended[s] # <<>> =>
                   /\ (e.executions[s][1].exit_code = 0) = (ended[s][1].outcome = "green")
                   /\ e.executions[s][1].logged = ended[s][1].logged
                   /\ ended[s][1].outcome \in Outcomes
  BY <1>4, <1>5, <1>6
<1> QED BY <1>7, <1>8 DEF e

\* A replay is called reproducible, and mergeable, only on what its commands did:
\* whichever of them were executed, in whichever way each of them ended.
THEOREM VerdictsAreEarned == ServicesSpec => []VerdictIsEarned
<1>1. Served => VerdictIsEarned
  <2> SUFFICES ASSUME Served, Answered("replay") PROVE VerdictIsEarned
    BY DEF VerdictIsEarned
  <2> DEFINE e == EvidenceOf(input.of)
  <2>1. result.classification = ClassifyReplay(e) /\ result.mergeable = MergeablePr(e)
    BY DEF Served, VerdictAnswer
  <2>2. \A s \in Slots :
           /\ (e.executions[s] # <<>>) = (ended[s] # <<>>)
           /\ ended[s] # <<>> =>
                 /\ (e.executions[s][1].exit_code = 0) = (ended[s][1].outcome = "green")
                 /\ e.executions[s][1].logged = ended[s][1].logged
                 /\ ended[s][1].outcome \in Outcomes
    BY EvidenceIs
  <2>3. /\ e.placeholder = input.of.placeholder
        /\ e.blast_radius_verified = input.of.verified
        /\ e.unintended_files_modified = input.of.unintended
        /\ e.files_modified = input.of.files
    BY EvidenceIs DEF Slots
  <2> HIDE DEF e
  <2>4. ASSUME ClassifyReplay(e) = "Reproducible"
        PROVE  /\ \A s \in Slots \ {"t1"} : e.executions[s] # <<>> /\ e.executions[s][1].logged
               /\ e.executions["baseline"][1].exit_code = 0
               /\ e.executions["drift"][1].exit_code # 0
               /\ e.executions["post_patch"][1].exit_code = 0
               /\ e.executions["t1"] # <<>> => e.executions["t1"][1].exit_code = 0
               /\ ~e.placeholder /\ e.blast_radius_verified
               /\ ~(e.unintended_files_modified > 0)
    BY <2>4 DEF ClassifyReplay
  <2>5. ASSUME result.classification = "Reproducible"
        PROVE  /\ \A s \in Slots \ {"t1"} : ended[s] # <<>> /\ ended[s][1].logged
               /\ ended["baseline"][1].outcome \in {"green"}
               /\ ended["drift"][1].outcome \in Outcomes \ {"green"}
               /\ ended["post_patch"][1].outcome \in {"green"}
               /\ ended["t1"] # <<>> => ended["t1"][1].outcome \in {"green"}
               /\ ~input.of.placeholder /\ input.of.verified /\ input.of.unintended = 0
    <3>1. /\ "baseline" \in Slots \ {"t1"} /\ "drift" \in Slots \ {"t1"}
          /\ "post_patch" \in Slots \ {"t1"} /\ "t1" \in Slots
      BY DEF Slots
    <3>2. \A s \in Slots \ {"t1"} : ended[s] # <<>> /\ ended[s][1].logged
      BY <2>1, <2>2, <2>4, <2>5
    <3>3. input.of.unintended = 0
      <4>1. input.of \in Replays
        BY DEF Served, Answered
      <4>2. input.of.unintended \in Nat /\ ~(input.of.unintended > 0)
        BY <2>1, <2>3, <2>4, <2>5, <4>1, ServicesAssumption
      <4> QED BY <4>2
    <3> QED BY <2>1, <2>2, <2>3, <2>4, <2>5, <3>1, <3>2, <3>3
  <2>6. result.mergeable => result.classification = "Reproducible" /\ input.of.files > 0
    BY <2>1, <2>3 DEF MergeablePr
  <2>7. "baseline" \in Slots \ {"t1"} /\ "drift" \in Slots \ {"t1"} /\ "post_patch" \in Slots \ {"t1"}
    BY DEF Slots
  <2> QED BY <2>5, <2>6, <2>7 DEF VerdictIsEarned
<1> QED BY <1>1, ServedHolds, PTL

-----------------------------------------------------------------------------
\* The audit.

CallsFor(tree, i) == {[found_for |-> i, id |-> CallId(s), site |-> s] : s \in SitesOf(tree, Providers[i])}
CallsIn(tree) == UNION {CallsFor(tree, i) : i \in ProviderIds}
Found(tree) == {i \in ProviderIds : SitesOf(tree, Providers[i]) # {}}
Counted(tree, I) == MapThenSumSet(LAMBDA i : Cardinality(SitesOf(tree, Providers[i])), I)

LEMMA CountedSums ==
  ASSUME NEW tree, NEW I, IsFiniteSet(I)
  PROVE  \E g : /\ SumsUp(g, [i \in I |-> Cardinality(SitesOf(tree, Providers[i]))], I)
               /\ Counted(tree, I) = g[I]
<1> DEFINE Of(i) == Cardinality(SitesOf(tree, Providers[i]))
           w == [i \in I |-> Of(i)]
           sum == CHOOSE g : g = [s \in SUBSET I |-> IF s = {} THEN 0
                                                   ELSE Of(First(s)) + g[s \ {First(s)}]]
<1>1. Counted(tree, I) = sum[I]
  BY DEF Counted, MapThenSumSet, MapThenFoldSet, First
<1>2. \A s \in SUBSET I : s # {} => w[First(s)] = Of(First(s))
  BY FirstIn
<1>3. PICK g : SumsUp(g, w, I)
  <2> HIDE DEF w
  <2> QED BY SumExists
<1>4. g = [s \in SUBSET I |-> IF s = {} THEN 0 ELSE Of(First(s)) + g[s \ {First(s)}]]
  BY <1>2, <1>3 DEF SumsUp
<1>5. sum = [s \in SUBSET I |-> IF s = {} THEN 0 ELSE Of(First(s)) + sum[s \ {First(s)}]]
  BY <1>4
<1>6. SumsUp(sum, w, I)
  BY <1>2, <1>5 DEF SumsUp
<1> HIDE DEF sum
<1> QED BY <1>1, <1>6

LEMMA AuditedSitesFinite ==
  ASSUME NEW a \in Audited, NEW i \in ProviderIds
  PROVE  IsFiniteSet(SitesOf(a.repo, Providers[i]))
<1>1. Providers[i].packages \in Seq(Range(Providers[i].packages))
  BY ServicesAssumption
<1>2. IsFiniteSet(Range(Providers[i].packages))
  <2> DEFINE p == Providers[i].packages
             S == 1..Len(p)
             T == {p[k] : k \in S}
  <2>1. Len(p) \in Nat /\ DOMAIN p = S
    BY <1>1
  <2>2. IsFiniteSet(S)
    BY <2>1, FS_Interval
  <2>3. Range(p) = T
    BY <2>1 DEF Range
  <2>4. IsFiniteSet(T)
    <3> HIDE DEF S, p
    <3> QED BY <2>2, Image
  <2> QED BY <2>3, <2>4
<1>3. Searchable(ConfigOf(Providers[i]))
  BY <1>2, ServicesAssumption DEF Searchable, ConfigOf
<1>4. IsFiniteSet(DOMAIN a.repo) /\ \A f \in DOMAIN a.repo : IsFiniteSet(DOMAIN a.repo[f].lines)
  BY ServicesAssumption
<1> QED BY <1>3, <1>4, SitesFinite DEF SitesOf

\* The callers of a provider are its own callsites, if no callsite is shared.
LEMMA CallersAre ==
  ASSUME NEW tree, NEW dir, NoSharedCalls(tree)
  PROVE  /\ BuildGraph(tree, dir).callsites = CallsIn(tree)
         /\ \A i \in ProviderIds : CallersOf(BuildGraph(tree, dir), i) = CallsFor(tree, i)
<1> DEFINE graph == BuildGraph(tree, dir)
<1>1. /\ graph.callsites = CallsIn(tree)
      /\ graph.invokes = {<<n.id, n.found_for>> : n \in CallsIn(tree)}
  BY DEF BuildGraph, CallsIn, CallsFor
<1>2. \A n : n \in CallsIn(tree) <=> \E i \in ProviderIds : n \in CallsFor(tree, i)
  BY DEF CallsIn
<1>3. \A i \in ProviderIds : \A n \in CallsFor(tree, i) :
         n.found_for = i /\ n.site \in SitesOf(tree, Providers[i]) /\ n.id = CallId(n.site)
  BY DEF CallsFor
<1> HIDE DEF graph
<1>4. ASSUME NEW i \in ProviderIds, NEW n
      PROVE  n \in CallersOf(graph, i) <=> n \in CallsFor(tree, i)
  <2>1. ASSUME n \in CallsFor(tree, i) PROVE n \in CallersOf(graph, i)
    <3>1. n \in CallsIn(tree)
      BY <1>2, <2>1
    <3>2. n.found_for = i
      BY <1>3, <2>1
    <3> QED BY <1>1, <3>1, <3>2 DEF CallersOf
  <2>2. ASSUME n \in CallersOf(graph, i) PROVE n \in CallsFor(tree, i)
    <3>1. n \in CallsIn(tree) /\ <<n.id, i>> \in graph.invokes
      BY <1>1, <2>2 DEF CallersOf
    <3>2. PICK m \in CallsIn(tree) : <<n.id, i>> = <<m.id, m.found_for>>
      BY <1>1, <3>1
    <3>3. m.id = n.id /\ m.found_for = i
      BY <3>2
    <3>4. m.site \in SitesOf(tree, Providers[i]) /\ n.id = CallId(m.site)
      BY <1>2, <1>3, <3>3
    <3>5. PICK j \in ProviderIds : n \in CallsFor(tree, j)
      BY <1>2, <3>1
    <3>6. n.site \in SitesOf(tree, Providers[j]) /\ n.id = CallId(n.site)
      BY <1>3, <3>5
    <3>7. i = j
      BY <3>4, <3>6 DEF NoSharedCalls
    <3> QED BY <3>5, <3>7
  <2> QED BY <2>1, <2>2
<1>5. \A i \in ProviderIds : CallersOf(graph, i) = CallsFor(tree, i)
  BY <1>4
<1> QED BY <1>1, <1>5 DEF graph

\* There are as many callsites of a provider in the graph as in the repository, in
\* the same files.
LEMMA CallsForAre ==
  ASSUME NEW tree, NEW i, IsFiniteSet(SitesOf(tree, Providers[i]))
  PROVE  /\ IsFiniteSet(CallsFor(tree, i))
         /\ Cardinality(CallsFor(tree, i)) = Cardinality(SitesOf(tree, Providers[i]))
         /\ (CallsFor(tree, i) # {}) = (SitesOf(tree, Providers[i]) # {})
         /\ {n.site.file : n \in CallsFor(tree, i)} = {s.file : s \in SitesOf(tree, Providers[i])}
<1> DEFINE S == SitesOf(tree, Providers[i])
           call == [s \in S |-> [found_for |-> i, id |-> CallId(s), site |-> s]]
<1>1. CallsFor(tree, i) = {call[s] : s \in S} /\ \A s \in S : call[s].site = s
  BY DEF CallsFor
<1> HIDE DEF call, S
<1>2. \A x, y \in S : call[x] = call[y] => x = y
  BY <1>1
<1>3. IsFiniteSet({call[s] : s \in S}) /\ Cardinality({call[s] : s \in S}) = Cardinality(S)
  <2>1. IsFiniteSet(S)
    BY DEF S
  <2> QED BY <1>2, <2>1, Image
<1>4. (CallsFor(tree, i) # {}) = (S # {})
  BY <1>1
<1>5. {n.site.file : n \in CallsFor(tree, i)} = {s.file : s \in S}
  BY <1>1
<1> QED BY <1>1, <1>3, <1>4, <1>5 DEF S

\* The callsites of all providers are counted once each.
LEMMA CallsAddUp ==
  ASSUME NEW a \in Audited
  PROVE  Cardinality(CallsIn(a.repo)) = Counted(a.repo, Found(a.repo))
<1> DEFINE I == Found(a.repo)
           X == [i \in I |-> CallsFor(a.repo, i)]
           w == [i \in I |-> Cardinality(SitesOf(a.repo, Providers[i]))]
<1>1. IsFiniteSet(I) /\ I \subseteq ProviderIds
  BY ServicesAssumption, FS_Subset DEF Found
<1>2. PICK g : SumsUp(g, w, I) /\ Counted(a.repo, I) = g[I]
  <2> HIDE DEF I
  <2> QED BY <1>1, CountedSums
<1>3. \A i \in I : IsFiniteSet(X[i]) /\ w[i] = Cardinality(X[i])
  BY <1>1, AuditedSitesFinite, CallsForAre
<1>4. \A i, j \in I : i # j => X[i] \cap X[j] = {}
  <2>1. \A i, j \in I : \A n \in X[i] \cap X[j] : n.found_for = i /\ n.found_for = j
    BY DEF CallsFor
  <2> HIDE DEF X, I
  <2> QED BY <2>1
<1>5. UNION {X[i] : i \in I} = CallsIn(a.repo)
  <2>1. \A i \in ProviderIds \ I : CallsFor(a.repo, i) = {}
    BY DEF Found, CallsFor
  <2>2. \A i \in I : X[i] = CallsFor(a.repo, i)
    OBVIOUS
  <2> HIDE DEF I, X
  <2> QED BY <1>1, <2>1, <2>2 DEF CallsIn
<1>6. g[I] = Cardinality(UNION {X[i] : i \in I})
  <2>1. Apart(X, w, I)
    BY <1>1, <1>3, <1>4 DEF Apart
  <2> HIDE DEF I, X, w
  <2> QED BY <1>2, <2>1, DisjointSum
<1> HIDE DEF X, I
<1> QED BY <1>2, <1>5, <1>6 DEF I

\* What the audit and the inventory say of the same repository.
LEMMA AuditIs ==
  ASSUME NEW graph, NEW C, NEW at,
         graph.callsites = C, \A i \in ProviderIds : CallersOf(graph, i) = at[i]
  PROVE  LET audit == AuditSummary(graph)
         IN  /\ DOMAIN audit.items = {i \in ProviderIds : at[i] # {}}
             /\ audit.total_callsites_mapped = Cardinality(C)
             /\ \A i \in ProviderIds : at[i] # {} =>
                   /\ audit.items[i].callsites_count = Cardinality(at[i])
                   /\ audit.items[i].affected_files = {n.site.file : n \in at[i]}
                   /\ Providers[i].deadline => audit.items[i].standing # "healthy"
<1> DEFINE detected == {i \in ProviderIds : CallersOf(graph, i) # {}}
           audit == AuditSummary(graph)
<1>1. detected = {i \in ProviderIds : at[i] # {}}
  OBVIOUS
<1>2. DOMAIN audit.items = detected /\ audit.total_callsites_mapped = Cardinality(C)
  BY DEF AuditSummary
<1>3. ASSUME NEW i \in detected
      PROVE  /\ audit.items[i].callsites_count = Cardinality(at[i])
             /\ audit.items[i].affected_files = {n.site.file : n \in at[i]}
             /\ Providers[i].deadline => audit.items[i].standing # "healthy"
  <2>1. CallersOf(graph, i) = at[i]
    OBVIOUS
  <2>2. /\ audit.items[i].callsites_count = Cardinality(CallersOf(graph, i))
        /\ audit.items[i].affected_files = {n.site.file : n \in CallersOf(graph, i)}
    BY DEF AuditSummary
  <2>3. Providers[i].deadline => audit.items[i].standing # "healthy"
    BY DEF AuditSummary
  <2> QED BY <2>1, <2>2, <2>3
<1> HIDE DEF audit
<1> QED BY <1>1, <1>2, <1>3 DEF audit

LEMMA InventoryIs ==
  ASSUME NEW tree
  PROVE  LET inventory == RunInventory(tree)
         IN  /\ DOMAIN inventory.dependencies = Found(tree)
             /\ inventory.total_callsites = Counted(tree, Found(tree))
             /\ \A i \in Found(tree) :
                   LET d == inventory.dependencies[i]
                   IN  /\ d.callsite_count = Cardinality(SitesOf(tree, Providers[i]))
                       /\ d.affected_files = {s.file : s \in SitesOf(tree, Providers[i])}
                       /\ d.health = "Deprecated" => Providers[i].deadline
<1>1. DOMAIN RunInventory(tree).dependencies = Found(tree)
  BY DEF RunInventory, Found
<1>2. RunInventory(tree).total_callsites = Counted(tree, Found(tree))
  BY DEF RunInventory, Found, Counted
<1>3. ASSUME NEW i \in Found(tree)
      PROVE  LET d == RunInventory(tree).dependencies[i]
             IN  /\ d.callsite_count = Cardinality(SitesOf(tree, Providers[i]))
                 /\ d.affected_files = {s.file : s \in SitesOf(tree, Providers[i])}
                 /\ d.health = "Deprecated" => Providers[i].deadline
  BY DEF RunInventory, Found
<1> QED BY <1>1, <1>2, <1>3

\* The audit and the inventory of a repository agree, whatever the repository and the
\* providers are.
THEOREM AuditsMatch == ServicesSpec => []AuditMatchesInventory
<1>1. Served => AuditMatchesInventory
  <2> SUFFICES ASSUME Served, Answered("audit"), NoSharedCalls(input.of.repo)
               PROVE  AuditMatchesInventory
    BY DEF AuditMatchesInventory
  <2>1. input.of \in Audited
    BY DEF Served, Answered
  <2> DEFINE tree == input.of.repo
             graph == BuildGraph(tree, input.of.dir)
             at == [i \in ProviderIds |-> CallsFor(tree, i)]
             audit == AuditSummary(graph)
             inventory == RunInventory(tree)
  <2>2. result.audit = audit /\ result.inventory = inventory
    BY DEF Served, AuditAnswer
  <2>3. graph.callsites = CallsIn(tree) /\ \A i \in ProviderIds : CallersOf(graph, i) = at[i]
    BY CallersAre
  <2>4. /\ DOMAIN audit.items = {i \in ProviderIds : at[i] # {}}
        /\ audit.total_callsites_mapped = Cardinality(CallsIn(tree))
        /\ \A i \in ProviderIds : at[i] # {} =>
              /\ audit.items[i].callsites_count = Cardinality(at[i])
              /\ audit.items[i].affected_files = {n.site.file : n \in at[i]}
              /\ Providers[i].deadline => audit.items[i].standing # "healthy"
    <3> HIDE DEF graph, at
    <3> QED BY <2>3, AuditIs
  <2>5. \A i \in ProviderIds :
           /\ Cardinality(at[i]) = Cardinality(SitesOf(tree, Providers[i]))
           /\ (at[i] # {}) = (SitesOf(tree, Providers[i]) # {})
           /\ {n.site.file : n \in at[i]} = {s.file : s \in SitesOf(tree, Providers[i])}
    BY <2>1, AuditedSitesFinite, CallsForAre
  <2>6. Cardinality(CallsIn(tree)) = Counted(tree, Found(tree))
    BY <2>1, CallsAddUp
  <2>7. /\ DOMAIN inventory.dependencies = Found(tree)
        /\ inventory.total_callsites = Counted(tree, Found(tree))
        /\ \A i \in Found(tree) :
              /\ inventory.dependencies[i].callsite_count = Cardinality(SitesOf(tree, Providers[i]))
              /\ inventory.dependencies[i].affected_files = {s.file : s \in SitesOf(tree, Providers[i])}
              /\ inventory.dependencies[i].health = "Deprecated" => Providers[i].deadline
    BY InventoryIs
  <2>8. Found(tree) = {i \in ProviderIds : at[i] # {}}
    BY <2>5 DEF Found
  <2>9. DOMAIN audit.items = Found(tree) /\ DOMAIN audit.items = DOMAIN inventory.dependencies
    BY <2>4, <2>7, <2>8
  <2>10. audit.total_callsites_mapped = inventory.total_callsites
    BY <2>4, <2>6, <2>7
  <2>11. ASSUME NEW i \in Found(tree)
         PROVE  /\ audit.items[i].callsites_count = inventory.dependencies[i].callsite_count
                /\ audit.items[i].affected_files = inventory.dependencies[i].affected_files
                /\ inventory.dependencies[i].health = "Deprecated" => audit.items[i].standing # "healthy"
    <3>1. i \in ProviderIds /\ at[i] # {}
      BY <2>8
    <3> HIDE DEF at, audit, inventory, tree
    <3> QED BY <2>4, <2>5, <2>7, <3>1
  <2> HIDE DEF audit, inventory
  <2> QED BY <2>2, <2>9, <2>10, <2>11 DEF AuditMatchesInventory
<1> QED BY <1>1, ServedHolds, PTL

-----------------------------------------------------------------------------
\* The order of a workflow.

Named(w, n) == {s \in DOMAIN w : w[s].name = n}
Positions(w, s) == DOMAIN w[s].depends_on
AskedFor(w, s, X) == {p \in Positions(w, s) : w[s].depends_on[p] \in X}
AskingFor(w, n, d) ==
    [s \in Named(w, n) |-> Cardinality({p \in Positions(w, s) : w[s].depends_on[p] = d})]
Lengths(w, n) == [s \in Named(w, n) |-> Len(w[s].depends_on)]
AskingOf(w, n, done) == [d \in done |-> Asks(w, n, d)]
MetBy(w, n, done) == [s \in Named(w, n) |-> Cardinality(AskedFor(w, s, done))]
AskedOf(w, n, done) == MapThenSumSet(LAMBDA d : Asks(w, n, d), done)

LEMMA AsksSums ==
  ASSUME NEW w, NEW n, NEW d, IsFiniteSet(Named(w, n))
  PROVE  \E g : SumsUp(g, AskingFor(w, n, d), Named(w, n)) /\ Asks(w, n, d) = g[Named(w, n)]
<1> USE DEF AskingFor
<1> DEFINE I == Named(w, n)
           Of(s) == Cardinality({p \in Positions(w, s) : w[s].depends_on[p] = d})
           v == [s \in I |-> Of(s)]
           sum == CHOOSE g : g = [s \in SUBSET I |-> IF s = {} THEN 0
                                                   ELSE Of(First(s)) + g[s \ {First(s)}]]
<1>1. Asks(w, n, d) = sum[I]
  BY DEF Asks, Named, Positions, MapThenSumSet, MapThenFoldSet, First
<1>2. \A s \in SUBSET I : s # {} => v[First(s)] = Of(First(s))
  BY FirstIn
<1>3. PICK g : SumsUp(g, v, I)
  <2> HIDE DEF v
  <2> QED BY SumExists
<1>4. g = [s \in SUBSET I |-> IF s = {} THEN 0 ELSE Of(First(s)) + g[s \ {First(s)}]]
  BY <1>2, <1>3 DEF SumsUp
<1>5. sum = [s \in SUBSET I |-> IF s = {} THEN 0 ELSE Of(First(s)) + sum[s \ {First(s)}]]
  BY <1>4
<1>6. SumsUp(sum, v, I)
  BY <1>2, <1>5 DEF SumsUp
<1> HIDE DEF sum
<1> QED BY <1>1, <1>6

LEMMA DegreeSums ==
  ASSUME NEW w, NEW n, IsFiniteSet(Named(w, n))
  PROVE  \E g : SumsUp(g, Lengths(w, n), Named(w, n)) /\ InDegree(w, n) = g[Named(w, n)]
<1> USE DEF Lengths
<1> DEFINE I == Named(w, n)
           Of(s) == Len(w[s].depends_on)
           v == [s \in I |-> Of(s)]
           sum == CHOOSE g : g = [s \in SUBSET I |-> IF s = {} THEN 0
                                                   ELSE Of(First(s)) + g[s \ {First(s)}]]
<1>1. InDegree(w, n) = sum[I]
  BY DEF InDegree, Named, MapThenSumSet, MapThenFoldSet, First
<1>2. \A s \in SUBSET I : s # {} => v[First(s)] = Of(First(s))
  BY FirstIn
<1>3. PICK g : SumsUp(g, v, I)
  <2> HIDE DEF v
  <2> QED BY SumExists
<1>4. g = [s \in SUBSET I |-> IF s = {} THEN 0 ELSE Of(First(s)) + g[s \ {First(s)}]]
  BY <1>2, <1>3 DEF SumsUp
<1>5. sum = [s \in SUBSET I |-> IF s = {} THEN 0 ELSE Of(First(s)) + sum[s \ {First(s)}]]
  BY <1>4
<1>6. SumsUp(sum, v, I)
  BY <1>2, <1>5 DEF SumsUp
<1> HIDE DEF sum
<1> QED BY <1>1, <1>6

LEMMA AskedSums ==
  ASSUME NEW w, NEW n, NEW done, IsFiniteSet(done)
  PROVE  \E g : SumsUp(g, AskingOf(w, n, done), done) /\ AskedOf(w, n, done) = g[done]
<1> USE DEF AskingOf
<1> DEFINE I == done
           Of(d) == Asks(w, n, d)
           v == [d \in I |-> Of(d)]
           sum == CHOOSE g : g = [s \in SUBSET I |-> IF s = {} THEN 0
                                                   ELSE Of(First(s)) + g[s \ {First(s)}]]
<1>1. AskedOf(w, n, done) = sum[I]
  BY DEF AskedOf, MapThenSumSet, MapThenFoldSet, First
<1>2. \A s \in SUBSET I : s # {} => v[First(s)] = Of(First(s))
  BY FirstIn
<1>3. PICK g : SumsUp(g, v, I)
  <2> HIDE DEF v
  <2> QED BY SumExists
<1>4. g = [s \in SUBSET I |-> IF s = {} THEN 0 ELSE Of(First(s)) + g[s \ {First(s)}]]
  BY <1>2, <1>3 DEF SumsUp
<1>5. sum = [s \in SUBSET I |-> IF s = {} THEN 0 ELSE Of(First(s)) + sum[s \ {First(s)}]]
  BY <1>4
<1>6. SumsUp(sum, v, I)
  BY <1>2, <1>5 DEF SumsUp
<1> HIDE DEF sum
<1> QED BY <1>1, <1>6

\* The parts of a workflow.
LEMMA WorkflowIs ==
  ASSUME NEW w \in Workflows
  PROVE  /\ Len(w) \in Nat /\ DOMAIN w = 1..Len(w) /\ IsFiniteSet(DOMAIN w)
         /\ \A s \in DOMAIN w : /\ w[s].name \in Nat /\ w[s].depends_on \in Seq(Nat)
                               /\ Len(w[s].depends_on) \in Nat
                               /\ Positions(w, s) = 1..Len(w[s].depends_on)
                               /\ IsFiniteSet(Positions(w, s))
                               /\ Cardinality(Positions(w, s)) = Len(w[s].depends_on)
         /\ Names(w) \subseteq Nat /\ IsFiniteSet(Names(w))
         /\ \A n : IsFiniteSet(Named(w, n)) /\ Named(w, n) \subseteq DOMAIN w
<1>1. w \in Seq([name : Nat, depends_on : Seq(Nat)])
  BY ServicesAssumption
<1>2. Len(w) \in Nat /\ DOMAIN w = 1..Len(w)
  BY <1>1
<1>3. IsFiniteSet(DOMAIN w)
  BY <1>2, FS_Interval
<1>4. ASSUME NEW s \in DOMAIN w
      PROVE  /\ w[s].name \in Nat /\ w[s].depends_on \in Seq(Nat)
             /\ Len(w[s].depends_on) \in Nat
             /\ Positions(w, s) = 1..Len(w[s].depends_on)
             /\ IsFiniteSet(Positions(w, s))
             /\ Cardinality(Positions(w, s)) = Len(w[s].depends_on)
  <2>1. w[s] \in [name : Nat, depends_on : Seq(Nat)]
    <3> DEFINE S == [name : Nat, depends_on : Seq(Nat)]
    <3>1. w \in Seq(S)
      BY <1>1
    <3> HIDE DEF S
    <3>2. w[s] \in S
      BY <3>1
    <3> QED BY <3>2 DEF S
  <2>2. w[s].name \in Nat /\ w[s].depends_on \in Seq(Nat)
    BY <2>1
  <2>3. Len(w[s].depends_on) \in Nat /\ Positions(w, s) = 1..Len(w[s].depends_on)
    BY <2>2 DEF Positions
  <2>4. IsFiniteSet(1..Len(w[s].depends_on))
        /\ Cardinality(1..Len(w[s].depends_on)) = Len(w[s].depends_on)
    BY <2>3, FS_Interval
  <2> QED BY <2>2, <2>3, <2>4
<1>5. Names(w) \subseteq Nat /\ IsFiniteSet(Names(w))
  <2> DEFINE name == [s \in DOMAIN w |-> w[s].name]
  <2>1. Names(w) = {name[s] : s \in DOMAIN w}
    BY DEF Names
  <2>2. IsFiniteSet({name[s] : s \in DOMAIN w})
    <3> HIDE DEF name
    <3> QED BY <1>3, Image
  <2>3. \A s \in DOMAIN w : w[s].name \in Nat
    BY <1>4
  <2> QED BY <2>1, <2>2, <2>3 DEF Names
<1>6. \A n : IsFiniteSet(Named(w, n)) /\ Named(w, n) \subseteq DOMAIN w
  BY <1>3, FS_Subset DEF Named
<1> QED BY <1>2, <1>3, <1>4, <1>5, <1>6

\* Counting the names of a set one by one is counting them at once.
LEMMA AskedAtOnce ==
  ASSUME NEW w \in Workflows, NEW n, NEW done, IsFiniteSet(done)
  PROVE  \E g : /\ SumsUp(g, MetBy(w, n, done), Named(w, n))
               /\ AskedOf(w, n, done) = g[Named(w, n)]
<1> DEFINE I == Named(w, n)
           R == done
           a == [r \in R |-> AskingFor(w, n, r)]
           b == [s \in SUBSET R |-> MetBy(w, n, s)]
           c == AskingOf(w, n, done)
<1>0. IsFiniteSet(I) /\ \A i \in I : IsFiniteSet(Positions(w, i))
  BY WorkflowIs
<1>1. \A i \in I : \A s : /\ IsFiniteSet(AskedFor(w, i, s))
                         /\ Cardinality(AskedFor(w, i, s)) \in Nat
  BY <1>0, FS_Subset, FS_CardinalityType DEF AskedFor
<1>2. \A i \in I : \A r : {p \in Positions(w, i) : w[i].depends_on[p] = r} = AskedFor(w, i, {r})
  BY DEF AskedFor
<1>3. /\ \A r \in R : \A i \in I : a[r][i] = Cardinality(AskedFor(w, i, {r}))
      /\ \A s \in SUBSET R : \A i \in I : b[s][i] = Cardinality(AskedFor(w, i, s))
  BY <1>2 DEF AskingFor, MetBy
<1>4. RowSums(c, a, I, R)
  <2>1. \A r \in R : \E g : SumsUp(g, a[r], I) /\ Asks(w, n, r) = g[I]
    <3> TAKE r \in R
    <3>1. a[r] = AskingFor(w, n, r)
      OBVIOUS
    <3> HIDE DEF a
    <3> QED BY <1>0, <3>1, AsksSums
  <2>2. \A r \in R : c[r] = Asks(w, n, r)
    BY DEF AskingOf
  <2> HIDE DEF a, c, I
  <2> QED BY <2>1, <2>2 DEF RowSums
<1>5. b[R] = MetBy(w, n, done)
  OBVIOUS
<1>6. PICK h : SumsUp(h, c, R) /\ AskedOf(w, n, done) = h[R]
  BY AskedSums
<1>7. PICK H : SumsUp(H, b[R], I)
  <2> HIDE DEF b, I
  <2> QED BY <1>0, SumExists
<1> HIDE DEF a, b, c
<1>8. Table(a, b, I, R)
  <2>1. \A i \in I : b[{}][i] = 0
    <3>1. \A i \in I : AskedFor(w, i, {}) = {}
      BY DEF AskedFor
    <3>2. \A i \in I : b[{}][i] = Cardinality(AskedFor(w, i, {}))
      BY <1>3
    <3> QED BY <3>1, <3>2, FS_EmptySet
  <2>2. \A r \in R : \A i \in I : a[r][i] \in Nat
    BY <1>1, <1>3
  <2>3. \A s \in SUBSET R : \A i \in I : b[s][i] \in Nat
    BY <1>1, <1>3
  <2>4. ASSUME NEW s \in SUBSET R, s # {}, NEW i \in I
        PROVE  b[s][i] = a[First(s)][i] + b[s \ {First(s)}][i]
    <3> DEFINE r == First(s)
               one == AskedFor(w, i, {r})
               rest == AskedFor(w, i, s \ {r})
               both == AskedFor(w, i, s)
    <3>1. r \in s
      BY <2>4, FirstIn
    <3>2. one \cup rest = both /\ one \cap rest = {}
      <4> HIDE DEF r
      <4> QED BY <3>1 DEF AskedFor
    <3>3. a[r][i] = Cardinality(one) /\ b[s \ {r}][i] = Cardinality(rest) /\ b[s][i] = Cardinality(both)
      BY <1>3, <3>1
    <3>4. /\ IsFiniteSet(one) /\ IsFiniteSet(rest)
          /\ Cardinality(one) \in Nat /\ Cardinality(rest) \in Nat /\ Cardinality({}) = 0
      BY <1>1, FS_EmptySet
    <3> HIDE DEF one, rest, both
    <3>5. Cardinality(both) = Cardinality(one) + Cardinality(rest) - Cardinality({})
      BY <3>2, <3>4, FS_Union
    <3> QED BY <3>3, <3>4, <3>5
  <2> HIDE DEF I
  <2> QED BY <1>0, <2>1, <2>2, <2>3, <2>4 DEF Table
<1> HIDE DEF I
<1>9. h[R] = H[I]
  BY ONLY <1>4, <1>6, <1>7, <1>8, SumsExchange
<1> QED BY <1>5, <1>6, <1>7, <1>9 DEF I

\* A name is in the queue exactly if everything its steps depend on was taken.
LEMMA ReadyIs ==
  ASSUME NEW w \in Workflows, NEW done, IsFiniteSet(done), NEW n \in Names(w) \ done
  PROVE  n \in Ready(w, done) <=> \A s \in Named(w, n) : Range(w[s].depends_on) \subseteq done
<1> DEFINE I == Named(w, n)
           of == Lengths(w, n)
           met == MetBy(w, n, done)
           unmet(s) == {p \in Positions(w, s) : w[s].depends_on[p] \notin done}
           missing == [s \in I |-> Cardinality(unmet(s))]
<1>1. PICK f : SumsUp(f, of, I) /\ InDegree(w, n) = f[I]
  BY WorkflowIs, DegreeSums
<1>2. PICK g : SumsUp(g, met, I) /\ AskedOf(w, n, done) = g[I]
  BY AskedAtOnce
<1>3. IsFiniteSet(I)
  BY WorkflowIs
<1>4. PICK h : SumsUp(h, missing, I)
  <2> HIDE DEF missing, I
  <2> QED BY <1>3, SumExists
<1>5. ASSUME NEW s \in I
      PROVE  /\ met[s] \in Nat /\ missing[s] \in Nat /\ of[s] = met[s] + missing[s]
             /\ (missing[s] = 0) = (Range(w[s].depends_on) \subseteq done)
  <2>1. /\ IsFiniteSet(Positions(w, s)) /\ Cardinality(Positions(w, s)) = of[s]
        /\ s \in DOMAIN w
    BY WorkflowIs DEF Lengths
  <2> DEFINE A == AskedFor(w, s, done)
             U == unmet(s)
  <2>2. A \cup U = Positions(w, s) /\ A \cap U = {} /\ A \subseteq Positions(w, s) /\ U \subseteq Positions(w, s)
    BY DEF AskedFor
  <2>3. U = {} <=> Range(w[s].depends_on) \subseteq done
    BY DEF Range, Positions
  <2>4. met[s] = Cardinality(A) /\ missing[s] = Cardinality(U)
    BY DEF MetBy
  <2> HIDE DEF A, U, met, missing, of
  <2>5. /\ IsFiniteSet(A) /\ IsFiniteSet(U) /\ Cardinality(A) \in Nat /\ Cardinality(U) \in Nat
    BY <2>1, <2>2, FS_Subset, FS_CardinalityType
  <2>6. Cardinality(Positions(w, s)) = Cardinality(A) + Cardinality(U) - Cardinality({})
    BY <2>2, <2>5, FS_Union
  <2>7. Cardinality({}) = 0 /\ (Cardinality(U) = 0 <=> U = {})
    BY <2>5, FS_EmptySet
  <2> QED BY <2>1, <2>3, <2>4, <2>5, <2>6, <2>7
<1> HIDE DEF of, met, missing, I
<1>6. f[I] = g[I] + h[I]
  <2>1. \A s \in I : met[s] \in Nat /\ missing[s] \in Nat /\ of[s] = met[s] + missing[s]
    BY <1>5
  <2> QED BY ONLY <1>1, <1>2, <1>3, <1>4, <2>1, SumsAdd
<1>7. g[I] \in Nat /\ h[I] \in Nat /\ \A s \in I : missing[s] <= h[I]
  BY <1>2, <1>3, <1>4, <1>5, SumIsNat
<1>8. h[I] = 0 <=> \A s \in I : missing[s] = 0
  <2>1. ASSUME h[I] = 0 PROVE \A s \in I : missing[s] = 0
    BY <1>5, <1>7, <2>1
  <2>2. ASSUME \A s \in I : missing[s] = 0 PROVE h[I] = 0
    BY <1>3, <1>4, <2>2, SumOfZeros
  <2> QED BY <2>1, <2>2
<1>9. n \in Ready(w, done) <=> InDegree(w, n) = AskedOf(w, n, done)
  BY DEF Ready, AskedOf
<1>10. n \in Ready(w, done) <=> h[I] = 0
  BY <1>1, <1>2, <1>6, <1>7, <1>9
<1> QED BY <1>5, <1>8, <1>10 DEF I

-----------------------------------------------------------------------------
\* What a step needs.

Pairs(w) == (DOMAIN w) \X (DOMAIN w)
Asked(w) == {p \in Pairs(w) : w[p[2]].name \in Range(w[p[1]].depends_on)}
Further(w, P) == {p \in Pairs(w) : \E u \in DOMAIN w : <<p[1], u>> \in P /\ <<u, p[2]>> \in Asked(w)}
IsPath(f, w) == f = [n \in 0..Len(w) |-> IF n = 0 THEN Asked(w) ELSE f[n - 1] \cup Further(w, f[n - 1])]
ThePath(w) == CHOOSE f : IsPath(f, w)

LEMMA PathExists ==
  ASSUME NEW w \in Workflows
  PROVE  IsPath(ThePath(w), w) /\ Needs(w) = ThePath(w)[Len(w)]
<1> DEFINE A == SUBSET Pairs(w)
           L == Len(w)
           step == [x \in A \X (1..L) |-> x[1] \cup Further(w, x[1])]
<1>1. L \in Nat /\ Asked(w) \in A
  BY WorkflowIs DEF Asked
<1>2. step \in [A \X (1..L) -> A]
  BY DEF Further
<1>3. \A a \in A : \A m \in 1..L : step[<<a, m>>] = a \cup Further(w, a)
  OBVIOUS
<1> HIDE DEF A, step, L
<1>4. PICK f : IsRun(f, Asked(w), step, L)
  BY <1>1, <1>2, RunExists
<1>5. \A m \in 0..L : m # 0 => m \in 1..L /\ m - 1 \in 0..L
  BY <1>1
<1>6. f[0] = Asked(w) /\ \A m \in 1..L : f[m] = step[<<f[m - 1], m>>]
  BY <1>1, <1>4 DEF IsRun
<1> DEFINE T == {m \in 0..L : f[m] \in A}
<1>7. \A m \in 1..L : m - 1 \in T => m \in T
  <2> SUFFICES ASSUME NEW m \in 1..L, f[m - 1] \in A PROVE f[m] \in A
    BY <1>1
  <2>1. <<f[m - 1], m>> \in A \X (1..L)
    OBVIOUS
  <2>2. step[<<f[m - 1], m>>] \in A
    BY <1>2, <2>1
  <2> QED BY <1>6, <2>2
<1>8. 0 \in T
  BY <1>1, <1>6
<1>9. T = 0..L
  <2>1. T \in SUBSET (0..L)
    OBVIOUS
  <2> HIDE DEF T
  <2> QED BY <1>1, <1>7, <1>8, <2>1, Climb
<1>10. \A m \in 0..L : f[m] \in A
  BY <1>9
<1> HIDE DEF T
<1>11. \A m \in 1..L : f[m] = f[m - 1] \cup Further(w, f[m - 1])
  <2> TAKE m \in 1..L
  <2>1. m - 1 \in 0..L
    BY <1>1
  <2>2. f[m - 1] \in A
    BY <1>10, <2>1
  <2> QED BY <1>3, <1>6, <2>2
<1>12. IsPath(f, w)
  <2>1. f = [n \in 0..L |-> IF n = 0 THEN Asked(w) ELSE step[<<f[n - 1], n>>]]
    BY <1>4 DEF IsRun
  <2>2. \A n \in 0..L : (IF n = 0 THEN Asked(w) ELSE step[<<f[n - 1], n>>])
                      = IF n = 0 THEN Asked(w) ELSE f[n - 1] \cup Further(w, f[n - 1])
    BY <1>5, <1>6, <1>11
  <2>3. f = [n \in 0..L |-> IF n = 0 THEN Asked(w) ELSE f[n - 1] \cup Further(w, f[n - 1])]
    BY <2>1, <2>2
  <2> QED BY <2>3 DEF IsPath, L
<1>13. IsPath(ThePath(w), w)
  BY <1>12 DEF ThePath
<1>14. Needs(w) = ThePath(w)[Len(w)]
  BY DEF Needs, ThePath, IsPath, Asked, Further, Pairs
<1> QED BY <1>13, <1>14

\* The paths, by their length.
LEMMA Paths ==
  ASSUME NEW w \in Workflows
  PROVE  /\ ThePath(w)[0] = Asked(w)
         /\ \A m \in 1..Len(w) : ThePath(w)[m] = ThePath(w)[m - 1] \cup Further(w, ThePath(w)[m - 1])
         /\ \A m \in 0..Len(w) : ThePath(w)[m] \subseteq Needs(w)
<1> DEFINE f == ThePath(w)
           L == Len(w)
<1>1. L \in Nat /\ IsPath(f, w) /\ Needs(w) = f[L]
  BY PathExists, WorkflowIs
<1> HIDE DEF f
<1>2. f[0] = Asked(w) /\ \A m \in 1..L : f[m] = f[m - 1] \cup Further(w, f[m - 1])
  <2>1. f = [n \in 0..L |-> IF n = 0 THEN Asked(w) ELSE f[n - 1] \cup Further(w, f[n - 1])]
    BY <1>1 DEF IsPath
  <2>2. 0 \in 0..L /\ \A m \in 1..L : m \in 0..L /\ m # 0
    BY <1>1
  <2> HIDE DEF L
  <2>3. \A m \in 0..L : f[m] = IF m = 0 THEN Asked(w) ELSE f[m - 1] \cup Further(w, f[m - 1])
    BY <2>1
  <2> QED BY <2>2, <2>3
<1>3. \A m \in 0..L : f[m] \subseteq f[L]
  <2>1. \A m \in 1..L : f[m - 1] \subseteq f[m]
    BY <1>2
  <2> HIDE DEF L
  <2> QED BY <1>1, <2>1, Growing
<1> QED BY <1>1, <1>2, <1>3 DEF f

\* A relation that has what is asked for and goes on over it has all that is needed.
LEMMA NeedsWithin ==
  ASSUME NEW w \in Workflows, NEW P, Asked(w) \subseteq P, Further(w, P) \subseteq P
  PROVE  Needs(w) \subseteq P
<1> DEFINE f == ThePath(w)
           L == Len(w)
           T == {m \in 0..L : f[m] \subseteq P}
<1>1. /\ L \in Nat /\ Needs(w) = f[L] /\ f[0] = Asked(w)
      /\ \A m \in 1..L : f[m] = f[m - 1] \cup Further(w, f[m - 1])
  BY PathExists, Paths, WorkflowIs
<1> HIDE DEF f, L
<1>2. \A m \in 1..L : m - 1 \in T => m \in T
  <2> SUFFICES ASSUME NEW m \in 1..L, f[m - 1] \subseteq P PROVE f[m] \subseteq P
    OBVIOUS
  <2>1. Further(w, f[m - 1]) \subseteq Further(w, P)
    BY DEF Further
  <2> QED BY <1>1, <2>1
<1>3. 0 \in T
  BY <1>1
<1>4. T = 0..L
  <2>1. T \in SUBSET (0..L)
    OBVIOUS
  <2> HIDE DEF T
  <2> QED BY <1>1, <1>2, <1>3, <2>1, Climb
<1>5. L \in T
  BY <1>1, <1>4
<1> QED BY <1>1, <1>5

\* A walk over what is asked for needs at each of its steps all that come later.
LEMMA WalkNeeds ==
  ASSUME NEW w \in Workflows, NEW f \in [0..Len(w) -> DOMAIN w],
         \A m \in 1..Len(w) : <<f[m - 1], f[m]>> \in Asked(w),
         NEW i \in 0..Len(w), NEW j \in 0..Len(w), i < j
  PROVE  <<f[i], f[j]>> \in Needs(w)
<1> DEFINE L == Len(w)
           g == ThePath(w)
           n == j - i - 1
           T == {k \in 0..n : <<f[i], f[i + k + 1]>> \in g[k]}
<1>1. L \in Nat /\ n \in Nat /\ n \in 0..L /\ i + n + 1 = j
  BY WorkflowIs
<1>2. /\ g[0] = Asked(w) /\ \A m \in 1..L : g[m] = g[m - 1] \cup Further(w, g[m - 1])
      /\ \A m \in 0..L : g[m] \subseteq Needs(w)
  BY Paths
<1>3. \A k \in 0..n : /\ i + k \in 0..L /\ i + k + 1 \in 1..L /\ i + k + 1 \in 0..L
                      /\ (i + k + 1) - 1 = i + k
  BY <1>1
<1> HIDE DEF g, L, n
<1>4. \A k \in 0..n : <<f[i + k], f[i + k + 1]>> \in Asked(w)
  <2> TAKE k \in 0..n
  <2>1. <<f[(i + k + 1) - 1], f[i + k + 1]>> \in Asked(w)
    BY <1>3 DEF L
  <2> QED BY <1>3, <2>1
<1>5. 0 \in T
  <2>1. i + 0 = i /\ 0 \in 0..n
    BY <1>1
  <2> QED BY <1>2, <1>4, <2>1
<1>6. \A m \in 1..n : m - 1 \in T => m \in T
  <2> SUFFICES ASSUME NEW m \in 1..n, <<f[i], f[i + (m - 1) + 1]>> \in g[m - 1]
               PROVE  <<f[i], f[i + m + 1]>> \in g[m]
    <3>1. \A m \in 1..n : m \in 0..n
      BY <1>1
    <3> QED BY <3>1
  <2>1. i + (m - 1) + 1 = i + m /\ m \in 0..n /\ m \in 1..L
    BY <1>1
  <2>2. <<f[i + m], f[i + m + 1]>> \in Asked(w)
    BY <1>4, <2>1
  <2>3. f[i] \in DOMAIN w /\ f[i + m] \in DOMAIN w /\ f[i + m + 1] \in DOMAIN w
    BY <1>3, <2>1 DEF L
  <2>4. <<f[i], f[i + m]>> \in g[m - 1]
    BY <2>1
  <2>5. <<f[i], f[i + m + 1]>> \in Further(w, g[m - 1])
    BY <2>2, <2>3, <2>4 DEF Further, Pairs
  <2> QED BY <1>2, <2>1, <2>5
<1>7. T = 0..n
  <2>1. T \in SUBSET (0..n)
    OBVIOUS
  <2> HIDE DEF T
  <2> QED BY <1>1, <1>5, <1>6, <2>1, Climb
<1>8. n \in T
  <2>1. n \in 0..n
    BY <1>1
  <2> HIDE DEF T
  <2> QED BY <1>7, <2>1
<1>9. <<f[i], f[j]>> \in g[n]
  BY <1>1, <1>8
<1> QED BY <1>1, <1>2, <1>9

\* Where each of some steps asks for one of them, one of them needs itself: a walk
\* among them is longer than they are many.
LEMMA StuckIsCyclic ==
  ASSUME NEW w \in Workflows, NEW S \in SUBSET DOMAIN w, S # {},
         \A s \in S : \E t \in S : <<s, t>> \in Asked(w)
  PROVE  \E s \in DOMAIN w : <<s, s>> \in Needs(w)
<1> DEFINE L == Len(w)
           next == [s \in S |-> CHOOSE t \in S : <<s, t>> \in Asked(w)]
           step == [x \in S \X (1..L) |-> next[x[1]]]
           first == CHOOSE s \in S : TRUE
<1>1. L \in Nat /\ DOMAIN w = 1..L /\ IsFiniteSet(DOMAIN w) /\ Cardinality(DOMAIN w) = L
  BY WorkflowIs, FS_Interval
<1>2. \A s \in S : next[s] \in S /\ <<s, next[s]>> \in Asked(w)
  OBVIOUS
<1>3. first \in S
  OBVIOUS
<1> HIDE DEF next, first
<1>4. step \in [S \X (1..L) -> S] /\ \A s \in S : \A m \in 1..L : step[<<s, m>>] = next[s]
  BY <1>2
<1> HIDE DEF step
<1>5. PICK f : IsRun(f, first, step, L)
  <2> HIDE DEF L
  <2> QED BY <1>1, <1>3, <1>4, RunExists
<1>6. f[0] = first /\ \A m \in 1..L : f[m] = step[<<f[m - 1], m>>]
  BY <1>1, <1>5 DEF IsRun
<1> HIDE DEF L
<1> DEFINE T == {m \in 0..L : f[m] \in S}
<1>7. T = 0..L
  <2>1. 0 \in T
    BY <1>1, <1>3, <1>6
  <2>2. \A m \in 1..L : m - 1 \in T => m \in T
    <3> SUFFICES ASSUME NEW m \in 1..L, f[m - 1] \in S PROVE f[m] \in S
      BY <1>1
    <3> QED BY <1>2, <1>4, <1>6
  <2>3. T \in SUBSET (0..L)
    OBVIOUS
  <2> HIDE DEF T
  <2> QED BY <1>1, <2>1, <2>2, <2>3, Climb
<1>8. \A m \in 0..L : f[m] \in S
  BY <1>7
<1> HIDE DEF T
<1>9. \A m \in 1..L : <<f[m - 1], f[m]>> \in Asked(w)
  <2> TAKE m \in 1..L
  <2>1. m - 1 \in 0..L
    BY <1>1
  <2>2. f[m - 1] \in S
    BY <1>8, <2>1
  <2>3. f[m] = next[f[m - 1]]
    BY <1>4, <1>6, <2>2
  <2> QED BY <1>2, <2>2, <2>3
<1>10. f \in [0..L -> DOMAIN w]
  <2>1. f = [m \in 0..L |-> IF m = 0 THEN first ELSE step[<<f[m - 1], m>>]]
    BY <1>5 DEF IsRun
  <2>2. DOMAIN f = 0..L
    BY <2>1
  <2>3. f = [m \in 0..L |-> f[m]]
    BY <2>1, <2>2
  <2>4. \A m \in 0..L : f[m] \in DOMAIN w
    BY <1>8
  <2> QED BY ONLY <2>3, <2>4
<1>11. PICK i \in 0..L, j \in 0..L : i # j /\ f[i] = f[j]
  <2> DEFINE I == 0..L
  <2>1. IsFiniteSet(I) /\ Cardinality(I) = L + 1
    BY <1>1, FS_Interval
  <2>2. Cardinality(DOMAIN w) < Cardinality(I)
    BY <1>1, <2>1
  <2> HIDE DEF I
  <2>3. f \in [I -> DOMAIN w]
    BY <1>10 DEF I
  <2>4. \E x, y \in I : x # y /\ f[x] = f[y]
    BY <1>1, <2>1, <2>2, <2>3, FS_PigeonHole
  <2> QED BY <2>4 DEF I
<1>12. ASSUME NEW a \in 0..L, NEW b \in 0..L, a < b
       PROVE  <<f[a], f[b]>> \in Needs(w)
  BY <1>9, <1>10, <1>12, WalkNeeds DEF L
<1>13. f[i] \in DOMAIN w
  BY <1>8
<1>14. CASE i < j
  BY <1>11, <1>12, <1>13, <1>14
<1>15. CASE j < i
  BY <1>11, <1>12, <1>13, <1>15
<1>16. i < j \/ j < i
  BY <1>1, <1>11
<1> QED BY <1>14, <1>15, <1>16

-----------------------------------------------------------------------------
\* What is taken from the queue, one name after the other.

IsOrder(o, w) ==
    o = [k \in 0..Len(w) |->
            IF k = 0 THEN <<>>
            ELSE LET ready == Ready(w, Range(o[k - 1]))
                 IN  IF ready = {} THEN o[k - 1] ELSE Append(o[k - 1], Min(ready))]
TheOrder(w) == CHOOSE o : IsOrder(o, w)
Taken(w, q) == LET ready == Ready(w, Range(q)) IN IF ready = {} THEN q ELSE Append(q, Min(ready))

LEMMA NextReady ==
  ASSUME NEW w \in Workflows, NEW done, Ready(w, done) # {}
  PROVE  Min(Ready(w, done)) \in Names(w) \ done /\ Min(Ready(w, done)) \in Ready(w, done)
<1>1. Ready(w, done) \subseteq Names(w) \ done
  BY DEF Ready
<1>2. Ready(w, done) \subseteq Nat
  BY <1>1, WorkflowIs
<1>3. Min(Ready(w, done)) \in Ready(w, done)
  BY <1>2, MinIn
<1> QED BY <1>1, <1>3

LEMMA OrderExists ==
  ASSUME NEW w \in Workflows
  PROVE  /\ IsOrder(TheOrder(w), w)
         /\ ExecutionOrder(w) = IF Len(TheOrder(w)[Len(w)]) = Len(w)
                                THEN <<TheOrder(w)[Len(w)]>> ELSE <<>>
<1> DEFINE A == Seq(Nat)
           L == Len(w)
           step == [x \in A \X (1..L) |-> Taken(w, x[1])]
<1>1. L \in Nat /\ <<>> \in A
  BY WorkflowIs
<1>2. \A q \in A : Taken(w, q) \in A
  <2> TAKE q \in A
  <2>1. CASE Ready(w, Range(q)) = {}
    BY <2>1 DEF Taken
  <2>2. CASE Ready(w, Range(q)) # {}
    <3>1. Min(Ready(w, Range(q))) \in Nat
      BY <2>2, NextReady, WorkflowIs
    <3>2. Taken(w, q) = Append(q, Min(Ready(w, Range(q))))
      BY <2>2 DEF Taken
    <3> QED BY <3>1, <3>2
  <2> QED BY <2>1, <2>2
<1>3. step \in [A \X (1..L) -> A] /\ \A q \in A : \A m \in 1..L : step[<<q, m>>] = Taken(w, q)
  BY <1>2
<1> HIDE DEF A, step, L
<1>4. PICK f : IsRun(f, <<>>, step, L)
  BY <1>1, <1>3, RunExists
<1>6. f[0] = <<>> /\ \A m \in 1..L : f[m] = step[<<f[m - 1], m>>]
  BY <1>1, <1>4 DEF IsRun
<1> DEFINE T == {m \in 0..L : f[m] \in A}
<1>7. \A m \in 1..L : m - 1 \in T => m \in T
  <2> SUFFICES ASSUME NEW m \in 1..L, f[m - 1] \in A PROVE f[m] \in A
    BY <1>1
  <2>1. step[<<f[m - 1], m>>] = Taken(w, f[m - 1])
    BY <1>3
  <2> QED BY <1>2, <1>6, <2>1
<1>8. 0 \in T
  BY <1>1, <1>6
<1>9. T = 0..L
  <2>1. T \in SUBSET (0..L)
    OBVIOUS
  <2> HIDE DEF T
  <2> QED BY <1>1, <1>7, <1>8, <2>1, Climb
<1>10. \A m \in 0..L : f[m] \in A
  BY <1>9
<1> HIDE DEF T
<1>11. \A m \in 1..L : f[m] = Taken(w, f[m - 1])
  <2> TAKE m \in 1..L
  <2>1. m - 1 \in 0..L
    BY <1>1
  <2>2. f[m - 1] \in A
    BY <1>10, <2>1
  <2> QED BY <1>3, <1>6, <2>2
<1>12. IsOrder(f, w)
  <2>1. f = [n \in 0..L |-> IF n = 0 THEN <<>> ELSE step[<<f[n - 1], n>>]]
    BY <1>4 DEF IsRun
  <2>2. \A n \in 0..L : n # 0 => n \in 1..L
    BY <1>1
  <2>3. \A n \in 0..L : (IF n = 0 THEN <<>> ELSE step[<<f[n - 1], n>>])
                      = IF n = 0 THEN <<>> ELSE Taken(w, f[n - 1])
    BY <1>6, <1>11, <2>2
  <2>4. f = [n \in 0..L |-> IF n = 0 THEN <<>> ELSE Taken(w, f[n - 1])]
    BY <2>1, <2>3
  <2> QED BY <2>4 DEF IsOrder, Taken, L
<1>13. IsOrder(TheOrder(w), w)
  BY <1>12 DEF TheOrder
<1>14. ExecutionOrder(w) = IF Len(TheOrder(w)[Len(w)]) = Len(w)
                           THEN <<TheOrder(w)[Len(w)]>> ELSE <<>>
  BY DEF ExecutionOrder, TheOrder, IsOrder
<1> QED BY <1>13, <1>14

\* What was taken has nothing twice, and each name after all it depends on.
InOrder(w, q) ==
    /\ q \in Seq(Names(w))
    /\ \A i, j \in 1..Len(q) : i # j => q[i] # q[j]
    /\ \A i \in 1..Len(q) : \A s \in Named(w, q[i]) : \A d \in Range(w[s].depends_on) :
          \E j \in 1..Len(q) : j < i /\ q[j] = d

LEMMA OrderGrows ==
  ASSUME NEW w \in Workflows, NEW q, InOrder(w, q), NEW n \in Ready(w, Range(q)), n \in Names(w)
  PROVE  InOrder(w, Append(q, n)) /\ Len(Append(q, n)) = Len(q) + 1
<1> DEFINE r == Append(q, n)
           N == Names(w)
<1>1. q \in Seq(N) /\ Len(q) \in Nat /\ Range(q) = {q[i] : i \in 1..Len(q)}
  <2>1. q \in Seq(N)
    BY DEF InOrder
  <2>2. Len(q) \in Nat /\ DOMAIN q = 1..Len(q)
    BY <2>1
  <2> QED BY <2>1, <2>2 DEF Range
<1>2. IsFiniteSet(Range(q))
  <2> DEFINE S == 1..Len(q)
  <2>1. IsFiniteSet(S)
    BY <1>1, FS_Interval
  <2>2. Range(q) = {q[i] : i \in S}
    BY <1>1
  <2> HIDE DEF S
  <2> QED BY <2>1, <2>2, Image
<1>3. n \notin Range(q) /\ \A s \in Named(w, n) : Range(w[s].depends_on) \subseteq Range(q)
  <2>1. n \in Names(w) \ Range(q)
    BY DEF Ready
  <2> QED BY <1>2, <2>1, ReadyIs
<1>4. r \in Seq(N)
  <2> HIDE DEF N
  <2>1. n \in N
    BY DEF N
  <2> QED BY <1>1, <2>1
<1>5. Len(r) = Len(q) + 1 /\ r[Len(q) + 1] = n /\ \A i \in 1..Len(q) : r[i] = q[i]
  <2>1. q \in Seq(N) /\ n \in N
    BY <1>1
  <2> HIDE DEF N
  <2> QED BY <2>1
<1> HIDE DEF r
<1>6. ASSUME NEW i \in 1..Len(r), NEW j \in 1..Len(r), i < j
      PROVE  r[i] # r[j]
  <2>1. i \in 1..Len(q)
    BY <1>1, <1>5, <1>6
  <2>2. CASE j = Len(q) + 1
    BY <1>1, <1>3, <1>5, <2>1, <2>2
  <2>3. CASE j # Len(q) + 1
    <3>1. j \in 1..Len(q)
      BY <1>1, <1>5, <2>3
    <3>2. q[i] # q[j]
      BY <1>6, <2>1, <3>1 DEF InOrder
    <3> QED BY <1>5, <2>1, <3>1, <3>2
  <2> QED BY <2>2, <2>3
<1>7. \A i, j \in 1..Len(r) : i # j => r[i] # r[j]
  <2> TAKE i, j \in 1..Len(r)
  <2> HAVE i # j
  <2>1. i < j \/ j < i
    BY <1>1, <1>5
  <2> QED BY <1>6, <2>1
<1>8. ASSUME NEW i \in 1..Len(r), NEW s \in Named(w, r[i]), NEW d \in Range(w[s].depends_on)
      PROVE  \E j \in 1..Len(r) : j < i /\ r[j] = d
  <2>1. CASE i = Len(q) + 1
    <3>1. r[i] = n
      BY <1>5, <2>1
    <3>2. d \in Range(q)
      BY <1>3, <1>8, <3>1
    <3>3. PICK j \in 1..Len(q) : q[j] = d
      BY <1>1, <3>2
    <3> QED BY <1>1, <1>5, <2>1, <3>3
  <2>2. CASE i # Len(q) + 1
    <3>1. i \in 1..Len(q)
      BY <1>1, <1>5, <2>2
    <3>2. r[i] = q[i]
      BY <1>5, <3>1
    <3>3. PICK j \in 1..Len(q) : j < i /\ q[j] = d
      BY <1>8, <3>1, <3>2 DEF InOrder
    <3> QED BY <1>1, <1>5, <3>3
  <2> QED BY <2>1, <2>2
<1>9. InOrder(w, r)
  BY <1>4, <1>7, <1>8 DEF InOrder, r
<1> QED BY <1>5, <1>9 DEF r

LEMMA OrderIs ==
  ASSUME NEW w \in Workflows, NEW q, q = TheOrder(w)[Len(w)]
  PROVE  /\ InOrder(w, q)
         /\ Len(q) = Len(w) \/ (Len(q) < Len(w) /\ Ready(w, Range(q)) = {})
<1> DEFINE o == TheOrder(w)
           L == Len(w)
           Good(p, k) == InOrder(w, p) /\ (Len(p) = k \/ (Len(p) < k /\ Ready(w, Range(p)) = {}))
           T == {k \in 0..L : Good(o[k], k)}
<1>1. L \in Nat /\ IsOrder(o, w)
  BY OrderExists, WorkflowIs
<1> HIDE DEF o, L
<1>2. o[0] = <<>> /\ \A k \in 1..L : o[k] = Taken(w, o[k - 1])
  <2>1. o = [k \in 0..L |-> IF k = 0 THEN <<>> ELSE Taken(w, o[k - 1])]
    BY <1>1 DEF IsOrder, Taken, L
  <2>2. 0 \in 0..L /\ \A k \in 1..L : k \in 0..L /\ k # 0
    BY <1>1
  <2>3. \A k \in 0..L : o[k] = IF k = 0 THEN <<>> ELSE Taken(w, o[k - 1])
    BY <2>1
  <2> QED BY <2>2, <2>3
<1>3. 0 \in T
  <2>1. InOrder(w, <<>>)
    <3> DEFINE e == <<>>
    <3>1. e \in Seq(Names(w)) /\ Len(e) = 0
      OBVIOUS
    <3> HIDE DEF e
    <3>2. \A i \in 1..Len(e) : FALSE
      BY <3>1
    <3>3. InOrder(w, e)
      <4>1. \A i \in 1..Len(e) : \A s \in Named(w, e[i]) : \A d \in Range(w[s].depends_on) :
               \E j \in 1..Len(e) : j < i /\ e[j] = d
        BY <3>2
      <4> QED BY <3>1, <3>2, <4>1 DEF InOrder
    <3> QED BY <3>3, Zenon DEF e
  <2>2. Len(<<>>) = 0 /\ 0 \in 0..L
    BY <1>1
  <2> QED BY <1>2, <2>1, <2>2
<1>4. \A k \in 1..L : k - 1 \in T => k \in T
  <2> SUFFICES ASSUME NEW k \in 1..L, Good(o[k - 1], k - 1) PROVE Good(o[k], k)
    <3>1. \A k \in 1..L : k \in 0..L
      BY <1>1
    <3> HIDE DEF Good
    <3> QED BY <3>1
  <2> DEFINE p == o[k - 1]
             n == Min(Ready(w, Range(p)))
  <2>1. o[k] = IF Ready(w, Range(p)) = {} THEN p ELSE Append(p, n)
    BY <1>2 DEF Taken
  <2>2. InOrder(w, p) /\ Len(p) \in Nat
    <3>1. InOrder(w, p) /\ p \in Seq(Names(w))
      BY DEF InOrder
    <3> QED BY <3>1
  <2>3. CASE Ready(w, Range(p)) = {}
    <3>1. o[k] = p /\ Len(p) < k
      BY <1>1, <2>1, <2>2, <2>3
    <3> QED BY <2>2, <2>3, <3>1
  <2>4. CASE Ready(w, Range(p)) # {}
    <3>1. n \in Names(w) /\ n \in Ready(w, Range(p))
      BY <2>4, NextReady
    <3>2. Len(p) = k - 1
      BY <2>4
    <3>3. o[k] = Append(p, n)
      BY <2>1, <2>4
    <3> HIDE DEF n, p
    <3>4. InOrder(w, Append(p, n)) /\ Len(Append(p, n)) = Len(p) + 1
      BY <2>2, <3>1, OrderGrows
    <3> QED BY <3>2, <3>3, <3>4
  <2> QED BY <2>3, <2>4
<1>5. T = 0..L
  <2>1. T \in SUBSET (0..L)
    OBVIOUS
  <2> HIDE DEF T
  <2> QED BY <1>1, <1>3, <1>4, <2>1, Climb
<1>6. L \in T
  <2>1. L \in 0..L
    BY <1>1
  <2> HIDE DEF T
  <2> QED BY <1>5, <2>1
<1>7. Good(o[L], L)
  BY <1>6
<1> QED BY <1>7 DEF o, L

-----------------------------------------------------------------------------
\* The order is sound.

LEMMA InOrderIs ==
  ASSUME NEW w \in Workflows, NEW q, InOrder(w, q)
  PROVE  /\ Len(q) \in Nat /\ DOMAIN q = 1..Len(q)
         /\ Range(q) \subseteq Names(w) /\ IsFiniteSet(Range(q)) /\ Cardinality(Range(q)) = Len(q)
         /\ \A i \in 1..Len(q) : q[i] \in Names(w)
         /\ \A n : n \in Range(q) <=> \E i \in 1..Len(q) : q[i] = n
<1>1. q \in Seq(Names(w))
  BY DEF InOrder
<1>2. Len(q) \in Nat /\ DOMAIN q = 1..Len(q) /\ \A i \in 1..Len(q) : q[i] \in Names(w)
  <2> DEFINE N == Names(w)
  <2>1. q \in Seq(N)
    BY <1>1
  <2> HIDE DEF N
  <2>2. Len(q) \in Nat /\ DOMAIN q = 1..Len(q) /\ \A i \in 1..Len(q) : q[i] \in N
    BY <2>1
  <2> QED BY <2>2 DEF N
<1> DEFINE S == 1..Len(q)
<1>3. IsFiniteSet(S) /\ Cardinality(S) = Len(q) /\ Range(q) = {q[i] : i \in S}
  BY <1>2, FS_Interval DEF Range
<1>4. \A i, j \in S : q[i] = q[j] => i = j
  BY DEF InOrder
<1>5. IsFiniteSet({q[i] : i \in S}) /\ Cardinality({q[i] : i \in S}) = Cardinality(S)
  <2>1. IsFiniteSet(S)
    BY <1>3
  <2> HIDE DEF S
  <2> QED BY ONLY <1>4, <2>1, Image
<1>6. \A n : n \in Range(q) <=> \E i \in 1..Len(q) : q[i] = n
  BY <1>3
<1>7. Range(q) \subseteq Names(w)
  BY <1>2, <1>6
<1> QED BY <1>2, <1>3, <1>5, <1>6, <1>7

\* The names of a workflow are at most as many as its steps, and as many only if no
\* two steps have one.
LEMMA NamesAre ==
  ASSUME NEW w \in Workflows
  PROVE  /\ Cardinality(Names(w)) \in Nat /\ Cardinality(Names(w)) <= Len(w)
         /\ Cardinality(Names(w)) = Len(w)
               <=> \A s, t \in DOMAIN w : w[s].name = w[t].name => s = t
<1> DEFINE name == [s \in DOMAIN w |-> w[s].name]
           D == DOMAIN w
<1>1. name \in Surjection(D, Names(w))
  BY DEF Surjection, Names
<1>2. IsFiniteSet(D) /\ Cardinality(D) = Len(w) /\ Len(w) \in Nat /\ IsFiniteSet(Names(w))
  <2>1. D = 1..Len(w) /\ Len(w) \in Nat /\ IsFiniteSet(Names(w))
    BY WorkflowIs
  <2>2. IsFiniteSet(1..Len(w)) /\ Cardinality(1..Len(w)) = Len(w)
    <3> DEFINE L == Len(w)
    <3>1. L \in Nat
      BY <2>1
    <3> HIDE DEF L
    <3>2. IsFiniteSet(1..L) /\ Cardinality(1..L) = L
      BY ONLY <3>1, FS_Interval
    <3> QED BY <3>2 DEF L
  <2> HIDE DEF D
  <2> QED BY <2>1, <2>2
<1>3. name \in Injection(D, Names(w)) <=> \A s, t \in D : w[s].name = w[t].name => s = t
  BY <1>1 DEF Injection, IsInjective, Surjection
<1>4. /\ Cardinality(Names(w)) <= Cardinality(D)
      /\ Cardinality(Names(w)) = Cardinality(D) <=> name \in Injection(D, Names(w))
  <2> HIDE DEF name, D
  <2> QED BY <1>1, <1>2, FS_Surjection
<1> HIDE DEF name
<1> QED BY <1>2, <1>3, <1>4, FS_CardinalityType

UniqueNames(w) == Cardinality(Names(w)) = Len(w)
KnownNames(w) == \A s \in DOMAIN w : Range(w[s].depends_on) \subseteq Names(w)
Acyclic(w) == \A s \in DOMAIN w : <<s, s>> \notin Needs(w)
Orderly(w) == UniqueNames(w) /\ KnownNames(w) /\ Acyclic(w)

Place(q, n) == CHOOSE p \in DOMAIN q : q[p] = n

\* An order of all steps shows that there is one: what a step asks for is before it.
LEMMA OrderedIsOrderly ==
  ASSUME NEW w \in Workflows, NEW q, InOrder(w, q), Len(q) = Len(w)
  PROVE  /\ Orderly(w) /\ Range(q) = Names(w)
         /\ \A s \in DOMAIN w : \A d \in Range(w[s].depends_on) : Place(q, d) < Place(q, w[s].name)
<1> DEFINE N == Names(w)
           L == Len(w)
<1>1. /\ L \in Nat /\ DOMAIN q = 1..L /\ Range(q) \subseteq N /\ Cardinality(Range(q)) = L
      /\ \A i \in 1..L : q[i] \in N
      /\ \A n : n \in Range(q) <=> \E i \in 1..L : q[i] = n
      /\ IsFiniteSet(N) /\ Cardinality(N) \in Nat /\ Cardinality(N) <= L
  BY InOrderIs, NamesAre, WorkflowIs
<1>2. Range(q) = N /\ Cardinality(N) = L
  <2>1. Cardinality(Range(q)) <= Cardinality(N) /\ (Cardinality(N) = Cardinality(Range(q)) => N = Range(q))
    <3> HIDE DEF N
    <3> QED BY <1>1, FS_Subset
  <2> QED BY <1>1, <2>1
<1>3. \A n \in N : Place(q, n) \in 1..L /\ q[Place(q, n)] = n
  BY <1>1, <1>2 DEF Place
<1>4. \A i, j \in 1..L : q[i] = q[j] => i = j
  BY DEF InOrder
<1>5. ASSUME NEW s \in DOMAIN w, NEW d \in Range(w[s].depends_on)
      PROVE  d \in N /\ w[s].name \in N /\ Place(q, d) < Place(q, w[s].name)
  <2>1. w[s].name \in N
    BY DEF Names
  <2> DEFINE i == Place(q, w[s].name)
  <2>2. i \in 1..L /\ q[i] = w[s].name
    BY <1>3, <2>1
  <2>3. s \in Named(w, q[i])
    BY <2>2 DEF Named
  <2>4. PICK j \in 1..L : j < i /\ q[j] = d
    BY <2>2, <2>3 DEF InOrder
  <2>5. d \in N
    BY <1>1, <2>4
  <2>6. Place(q, d) = j
    BY <1>3, <1>4, <2>4, <2>5
  <2> QED BY <2>1, <2>4, <2>5, <2>6
<1> DEFINE P == {p \in Pairs(w) : Place(q, w[p[2]].name) < Place(q, w[p[1]].name)}
<1>6. Asked(w) \subseteq P
  <2> SUFFICES ASSUME NEW p \in Asked(w) PROVE p \in P
    OBVIOUS
  <2>1. p \in Pairs(w) /\ p[1] \in DOMAIN w /\ w[p[2]].name \in Range(w[p[1]].depends_on)
    BY DEF Asked, Pairs
  <2> QED BY <1>5, <2>1
<1>7. Further(w, P) \subseteq P
  <2> SUFFICES ASSUME NEW p \in Further(w, P) PROVE p \in P
    OBVIOUS
  <2>1. PICK u \in DOMAIN w : p \in Pairs(w) /\ <<p[1], u>> \in P /\ <<u, p[2]>> \in P
    BY <1>6 DEF Further
  <2>2. Place(q, w[u].name) < Place(q, w[p[1]].name) /\ Place(q, w[p[2]].name) < Place(q, w[u].name)
    BY <2>1
  <2>3. p[1] \in DOMAIN w /\ p[2] \in DOMAIN w
    BY <2>1 DEF Pairs
  <2>4. w[u].name \in N /\ w[p[1]].name \in N /\ w[p[2]].name \in N
    BY <2>3 DEF Names
  <2>5. Place(q, w[u].name) \in Int /\ Place(q, w[p[1]].name) \in Int /\ Place(q, w[p[2]].name) \in Int
    BY <1>3, <2>4
  <2>6. Place(q, w[p[2]].name) < Place(q, w[p[1]].name)
    BY <2>2, <2>5
  <2> QED BY <2>1, <2>6
<1>8. Needs(w) \subseteq P
  <2> HIDE DEF P
  <2> QED BY <1>6, <1>7, NeedsWithin
<1>9. Acyclic(w)
  <2> SUFFICES ASSUME NEW s \in DOMAIN w, <<s, s>> \in Needs(w) PROVE FALSE
    BY DEF Acyclic
  <2>1. Place(q, w[s].name) < Place(q, w[s].name)
    BY <1>8
  <2>2. Place(q, w[s].name) \in Int
    BY <1>3 DEF Names
  <2> QED BY <2>1, <2>2
<1>10. KnownNames(w)
  BY <1>5 DEF KnownNames
<1> HIDE DEF P
<1> QED BY <1>2, <1>5, <1>9, <1>10 DEF Orderly, UniqueNames

\* A workflow that can be ordered is: what is left when nothing is ready asks for
\* something else that is left.
LEMMA OrderlyIsOrdered ==
  ASSUME NEW w \in Workflows, Orderly(w), NEW q, InOrder(w, q),
         Len(q) < Len(w), Ready(w, Range(q)) = {}
  PROVE  FALSE
<1> DEFINE N == Names(w)
           S == {s \in DOMAIN w : w[s].name \notin Range(q)}
<1>1. /\ Range(q) \subseteq N /\ IsFiniteSet(Range(q)) /\ Cardinality(Range(q)) = Len(q)
      /\ Cardinality(N) = Len(w) /\ Len(q) \in Nat /\ Len(w) \in Nat
  BY InOrderIs, WorkflowIs DEF Orderly, UniqueNames
<1>2. S # {}
  <2>1. Range(q) # N
    BY <1>1
  <2>2. PICK n \in N : n \notin Range(q)
    BY <1>1, <2>1
  <2> QED BY <2>2 DEF Names
<1>3. \A s, t \in DOMAIN w : w[s].name = w[t].name => s = t
  BY NamesAre DEF Orderly, UniqueNames
<1>4. \A s \in S : \E t \in S : <<s, t>> \in Asked(w)
  <2> TAKE s \in S
  <2>1. w[s].name \in N \ Range(q)
    BY DEF Names
  <2>2. PICK r \in Named(w, w[s].name) : ~(Range(w[r].depends_on) \subseteq Range(q))
    BY <1>1, <2>1, ReadyIs
  <2>3. r = s
    BY <1>3, <2>2 DEF Named
  <2>4. PICK d \in Range(w[s].depends_on) : d \notin Range(q)
    BY <2>2, <2>3
  <2>5. d \in N
    BY <2>4 DEF Orderly, KnownNames
  <2>6. PICK t \in DOMAIN w : w[t].name = d
    BY <2>5 DEF Names
  <2>7. t \in S
    BY <2>4, <2>6
  <2>8. <<s, t>> \in Asked(w)
    BY <2>4, <2>6 DEF Asked, Pairs
  <2> QED BY <2>7, <2>8
<1>5. \E s \in DOMAIN w : <<s, s>> \in Needs(w)
  <2>1. S \in SUBSET DOMAIN w
    OBVIOUS
  <2> HIDE DEF S
  <2> QED BY <1>2, <1>4, <2>1, StuckIsCyclic
<1> QED BY <1>5 DEF Orderly, Acyclic

\* What validates has unique names and knows what its steps depend on.
LEMMA ValidIsNamed ==
  ASSUME NEW w \in Workflows, ValidateWorkflow(w) = {}
  PROVE  UniqueNames(w) /\ KnownNames(w)
<1>1. DOMAIN w \subseteq Nat /\ \A s, t \in DOMAIN w : t < s => t \in 1..(s - 1)
  BY WorkflowIs
<1>2. \A s \in DOMAIN w : ~ \E t \in 1..(s - 1) : w[t].name = w[s].name
  <2> SUFFICES ASSUME NEW s \in DOMAIN w, \E t \in 1..(s - 1) : w[t].name = w[s].name PROVE FALSE
    OBVIOUS
  <2> DEFINE twice == {r \in DOMAIN w : \E t \in 1..(r - 1) : w[t].name = w[r].name}
  <2>1. s \in twice
    OBVIOUS
  <2>2. {<<"duplicate", w[r].name>> : r \in twice} \subseteq ValidateWorkflow(w)
    BY DEF ValidateWorkflow
  <2> HIDE DEF twice
  <2> QED BY <2>1, <2>2
<1>3. \A s, t \in DOMAIN w : w[s].name = w[t].name => s = t
  <2> TAKE s, t \in DOMAIN w
  <2> HAVE w[s].name = w[t].name
  <2>1. ~(t < s) /\ ~(s < t)
    BY <1>1, <1>2
  <2> QED BY <1>1, <2>1
<1>4. \A s \in DOMAIN w : Range(w[s].depends_on) \ Names(w) = {}
  <2> SUFFICES ASSUME NEW s \in DOMAIN w, NEW d \in Range(w[s].depends_on) \ Names(w) PROVE FALSE
    OBVIOUS
  <2>1. <<"unknown", d>> \in ValidateWorkflow(w)
    <3> DEFINE about(r) == {<<"unknown", x>> : x \in Range(w[r].depends_on) \ Names(w)}
    <3>1. UNION {about(r) : r \in DOMAIN w} \subseteq ValidateWorkflow(w)
      BY DEF ValidateWorkflow
    <3>2. <<"unknown", d>> \in about(s)
      OBVIOUS
    <3> HIDE DEF about
    <3> QED BY <3>1, <3>2
  <2> QED BY <2>1
<1> QED BY <1>3, <1>4, NamesAre DEF UniqueNames, KnownNames

\* The order of a workflow is sound, whatever the workflow is.
THEOREM OrdersAreSound == ServicesSpec => []OrderIsSound
<1>1. Served => OrderIsSound
  <2> SUFFICES ASSUME Served, Answered("workflow") PROVE OrderIsSound
    BY DEF OrderIsSound
  <2> DEFINE w == input.of
             q == TheOrder(w)[Len(w)]
  <2>1. w \in Workflows
    BY DEF Served, Answered
  <2>2. result.order = ExecutionOrder(w) /\ result.errors = ValidateWorkflow(w)
    BY DEF Served, OrderAnswer
  <2> HIDE DEF w
  <2>3. result.order = IF Len(q) = Len(w) THEN <<q>> ELSE <<>>
    BY <2>1, <2>2, OrderExists
  <2> HIDE DEF q
  <2>4. InOrder(w, q) /\ (Len(q) = Len(w) \/ (Len(q) < Len(w) /\ Ready(w, Range(q)) = {}))
    BY <2>1, OrderIs DEF q
  <2>5. Orderly(w) <=> Len(q) = Len(w)
    BY <2>1, <2>4, OrderedIsOrderly, OrderlyIsOrdered
  <2>6. (result.order # <<>>) = Orderly(w)
    <3>1. \A x : <<x>> # <<>>
      OBVIOUS
    <3>2. result.order # <<>> <=> Orderly(w)
      BY <2>3, <2>5, <3>1
    <3> QED BY <3>2 DEF Orderly, UniqueNames, KnownNames, Acyclic
  <2>7. Orderly(w) => LET order == result.order[1]
                     IN  /\ Range(order) = Names(w) /\ Len(order) = Len(w)
                         /\ \A s \in DOMAIN w : \A d \in Range(w[s].depends_on) :
                               Place(order, d) < Place(order, w[s].name)
    <3> HAVE Orderly(w)
    <3>1. result.order[1] = q
      BY <2>3, <2>5
    <3> QED BY <2>1, <2>4, <2>5, <3>1, OrderedIsOrderly
  <2>8. result.errors = {} /\ ~Orderly(w) => \E s \in DOMAIN w : <<s, s>> \in Needs(w)
    BY <2>1, <2>2, ValidIsNamed DEF Orderly, Acyclic
  <2>9. Orderly(w) = (/\ Cardinality(Names(w)) = Len(w)
                      /\ \A s \in DOMAIN w : Range(w[s].depends_on) \subseteq Names(w)
                      /\ \A s \in DOMAIN w : <<s, s>> \notin Needs(w))
    BY DEF Orderly, UniqueNames, KnownNames, Acyclic
  <2> QED BY <2>6, <2>7, <2>8, <2>9 DEF OrderIsSound, Place, w
<1> QED BY <1>1, ServedHolds, PTL
=============================================================================
