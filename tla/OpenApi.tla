------------------------------ MODULE OpenApi -------------------------------
(***************************************************************************)
(* The OpenAPI definitions of the API (pkg/api/generated/openapi) and what *)
(* the API server does with them: when a group is installed (Install in    *)
(* pkg/api/install.go) it builds the models of the group's kinds, and      *)
(* before it serves, the document of all its routes.  Both begin with some *)
(* types and follow the dependencies of each definition; a type without a  *)
(* definition is an error, which ends the start.  A definition is two      *)
(* lists of types: those its schema refers to (the Refs of its properties) *)
(* and those it names to the builder (its Dependencies), which builds the  *)
(* second list only.  The builder is k8s.io/kube-openapi, which is not in  *)
(* the repository.                                                         *)
(***************************************************************************)
EXTENDS Sequences, SequencesExt

VARIABLES
    stage,  \* the group that is installed, then the routes, then the end
    todo,   \* the types still to be built for this stage, innermost first
    built   \* the definitions that this stage's document has

vars == <<stage, todo, built>>

-----------------------------------------------------------------------------
(* The definitions: one for each function schema_..., named as the type.  The
   types of core/v1 other than ObjectReference are left out; so are
   runtime.Object and intstr.IntOrString, which have none in the file.  *)

NoTypes == [refs |-> {}, deps |-> {}]

\* policyreport/v1alpha2 of Kyverno, of which the ephemeral reports use two.
KyvernoClusterPolicyReport ==
    [refs |-> {"KyvernoPolicyReportResult", "KyvernoPolicyReportSummary", "ObjectReference",
               "LabelSelector", "ObjectMeta"},
     deps |-> {"KyvernoPolicyReportResult", "KyvernoPolicyReportSummary", "ObjectReference",
               "LabelSelector", "ObjectMeta"}]
KyvernoClusterPolicyReportList ==
    [refs |-> {"KyvernoClusterPolicyReport", "ListMeta"},
     deps |-> {"KyvernoClusterPolicyReport", "ListMeta"}]
KyvernoPolicyReport ==
    [refs |-> {"KyvernoPolicyReportResult", "KyvernoPolicyReportSummary", "ObjectReference",
               "LabelSelector", "ObjectMeta"},
     deps |-> {"KyvernoPolicyReportResult", "KyvernoPolicyReportSummary", "ObjectReference",
               "LabelSelector", "ObjectMeta"}]
KyvernoPolicyReportList ==
    [refs |-> {"KyvernoPolicyReport", "ListMeta"},
     deps |-> {"KyvernoPolicyReport", "ListMeta"}]
KyvernoPolicyReportResult ==
    [refs |-> {"ObjectReference", "LabelSelector", "Timestamp"},
     deps |-> {"ObjectReference", "LabelSelector", "Timestamp"}]
KyvernoPolicyReportSummary == NoTypes

\* reports/v1 of Kyverno: the ephemeral reports.
ClusterEphemeralReport ==
    [refs |-> {"EphemeralReportSpec", "ObjectMeta"},
     deps |-> {"EphemeralReportSpec", "ObjectMeta"}]
ClusterEphemeralReportList ==
    [refs |-> {"ClusterEphemeralReport", "ListMeta"},
     deps |-> {"ClusterEphemeralReport", "ListMeta"}]
EphemeralReport ==
    [refs |-> {"EphemeralReportSpec", "ObjectMeta"},
     deps |-> {"EphemeralReportSpec", "ObjectMeta"}]
EphemeralReportList ==
    [refs |-> {"EphemeralReport", "ListMeta"},
     deps |-> {"EphemeralReport", "ListMeta"}]

\* Mutant of EphemeralReportSpec: a field of a new type, for which no definition
\* was generated.
EphemeralReportSpecNewField ==
    [refs |-> {"KyvernoPolicyReportResult", "OwnerReference", "ReportSource"},
     deps |-> {"KyvernoPolicyReportResult", "OwnerReference", "ReportSource"}]

EphemeralReportSpec ==
    [refs |-> {"KyvernoPolicyReportResult", "KyvernoPolicyReportSummary", "OwnerReference"},
     deps |-> {"KyvernoPolicyReportResult", "KyvernoPolicyReportSummary", "OwnerReference"}]

\* core/v1: the one type that reports refer to.
ObjectReference == NoTypes

\* meta/v1, as a whole, since GetOpenAPIDefinitions offers it as a whole; most
\* of its types are reached from none of the roots below.
APIGroup ==
    [refs |-> {"GroupVersionForDiscovery", "ServerAddressByClientCIDR"},
     deps |-> {"GroupVersionForDiscovery", "ServerAddressByClientCIDR"}]
APIGroupList == [refs |-> {"APIGroup"}, deps |-> {"APIGroup"}]
APIResource == NoTypes
APIResourceList == [refs |-> {"APIResource"}, deps |-> {"APIResource"}]
APIVersions == [refs |-> {"ServerAddressByClientCIDR"}, deps |-> {"ServerAddressByClientCIDR"}]
ApplyOptions == NoTypes
Condition == [refs |-> {"Time"}, deps |-> {"Time"}]
CreateOptions == NoTypes
DeleteOptions == [refs |-> {"Preconditions"}, deps |-> {"Preconditions"}]
Duration == NoTypes
FieldSelectorRequirement == NoTypes
FieldsV1 == NoTypes
GetOptions == NoTypes
GroupKind == NoTypes
GroupResource == NoTypes
GroupVersion == NoTypes
GroupVersionForDiscovery == NoTypes
GroupVersionKind == NoTypes
GroupVersionResource == NoTypes
InternalEvent == [refs |-> {"Object"}, deps |-> {"Object"}]
LabelSelector == [refs |-> {"LabelSelectorRequirement"}, deps |-> {"LabelSelectorRequirement"}]
LabelSelectorRequirement == NoTypes
MetaList == [refs |-> {"ListMeta", "RawExtension"}, deps |-> {"ListMeta", "RawExtension"}]
ListMeta == NoTypes
ListOptions == NoTypes
ManagedFieldsEntry == [refs |-> {"FieldsV1", "Time"}, deps |-> {"FieldsV1", "Time"}]
MicroTime == NoTypes

\* Mutant of ObjectMeta: a field of a new type, and the list of the types to
\* build is an old one.
ObjectMetaOldList ==
    [refs |-> {"ManagedFieldsEntry", "OwnerReference", "Time"},
     deps |-> {"OwnerReference", "Time"}]

ObjectMeta ==
    [refs |-> {"ManagedFieldsEntry", "OwnerReference", "Time"},
     deps |-> {"ManagedFieldsEntry", "OwnerReference", "Time"}]

OwnerReference == NoTypes
PartialObjectMetadata == [refs |-> {"ObjectMeta"}, deps |-> {"ObjectMeta"}]
PartialObjectMetadataList ==
    [refs |-> {"ListMeta", "PartialObjectMetadata"},
     deps |-> {"ListMeta", "PartialObjectMetadata"}]
Patch == NoTypes
PatchOptions == NoTypes
Preconditions == NoTypes
RootPaths == NoTypes
ServerAddressByClientCIDR == NoTypes
Status == [refs |-> {"ListMeta", "StatusDetails"}, deps |-> {"ListMeta", "StatusDetails"}]
StatusCause == NoTypes
StatusDetails == [refs |-> {"StatusCause"}, deps |-> {"StatusCause"}]
Table ==
    [refs |-> {"ListMeta", "TableColumnDefinition", "TableRow"},
     deps |-> {"ListMeta", "TableColumnDefinition", "TableRow"}]
TableColumnDefinition == NoTypes
TableOptions == NoTypes
TableRow ==
    [refs |-> {"TableRowCondition", "RawExtension"},
     deps |-> {"TableRowCondition", "RawExtension"}]
TableRowCondition == NoTypes
Time == NoTypes
Timestamp == NoTypes
MetaTypeMeta == NoTypes
UpdateOptions == NoTypes
WatchEvent == [refs |-> {"RawExtension"}, deps |-> {"RawExtension"}]

\* runtime and version.
RawExtension == NoTypes
RuntimeTypeMeta == NoTypes
Unknown == NoTypes
Info == NoTypes

\* wgpolicyk8s.io/v1alpha2: the policy reports.
ClusterPolicyReport ==
    [refs |-> {"ObjectReference", "LabelSelector", "ObjectMeta", "PolicyReportResult",
               "PolicyReportSummary"},
     deps |-> {"ObjectReference", "LabelSelector", "ObjectMeta", "PolicyReportResult",
               "PolicyReportSummary"}]
ClusterPolicyReportList ==
    [refs |-> {"ListMeta", "ClusterPolicyReport"},
     deps |-> {"ListMeta", "ClusterPolicyReport"}]
PolicyReport ==
    [refs |-> {"ObjectReference", "LabelSelector", "ObjectMeta", "PolicyReportResult",
               "PolicyReportSummary"},
     deps |-> {"ObjectReference", "LabelSelector", "ObjectMeta", "PolicyReportResult",
               "PolicyReportSummary"}]
PolicyReportList ==
    [refs |-> {"ListMeta", "PolicyReport"},
     deps |-> {"ListMeta", "PolicyReport"}]
PolicyReportResult ==
    [refs |-> {"ObjectReference", "LabelSelector", "Timestamp"},
     deps |-> {"ObjectReference", "LabelSelector", "Timestamp"}]
PolicyReportSummary == NoTypes

\* The definitions by their names.
GetOpenAPIDefinitions ==
    [KyvernoClusterPolicyReport |-> KyvernoClusterPolicyReport,
     KyvernoClusterPolicyReportList |-> KyvernoClusterPolicyReportList,
     KyvernoPolicyReport |-> KyvernoPolicyReport, KyvernoPolicyReportList |->
     KyvernoPolicyReportList, KyvernoPolicyReportResult |-> KyvernoPolicyReportResult,
     KyvernoPolicyReportSummary |-> KyvernoPolicyReportSummary, ClusterEphemeralReport |->
     ClusterEphemeralReport, ClusterEphemeralReportList |-> ClusterEphemeralReportList,
     EphemeralReport |-> EphemeralReport, EphemeralReportList |-> EphemeralReportList,
     EphemeralReportSpec |-> EphemeralReportSpec, ObjectReference |-> ObjectReference,
     APIGroup |-> APIGroup, APIGroupList |-> APIGroupList, APIResource |-> APIResource,
     APIResourceList |-> APIResourceList, APIVersions |-> APIVersions, ApplyOptions |->
     ApplyOptions, Condition |-> Condition, CreateOptions |-> CreateOptions, DeleteOptions
     |-> DeleteOptions, Duration |-> Duration, FieldSelectorRequirement |->
     FieldSelectorRequirement, FieldsV1 |-> FieldsV1, GetOptions |-> GetOptions, GroupKind
     |-> GroupKind, GroupResource |-> GroupResource, GroupVersion |-> GroupVersion,
     GroupVersionForDiscovery |-> GroupVersionForDiscovery, GroupVersionKind |->
     GroupVersionKind, GroupVersionResource |-> GroupVersionResource, InternalEvent |->
     InternalEvent, LabelSelector |-> LabelSelector, LabelSelectorRequirement |->
     LabelSelectorRequirement, MetaList |-> MetaList, ListMeta |-> ListMeta, ListOptions
     |-> ListOptions, ManagedFieldsEntry |-> ManagedFieldsEntry, MicroTime |-> MicroTime,
     ObjectMeta |-> ObjectMeta, OwnerReference |-> OwnerReference, PartialObjectMetadata
     |-> PartialObjectMetadata, PartialObjectMetadataList |-> PartialObjectMetadataList,
     Patch |-> Patch, PatchOptions |-> PatchOptions, Preconditions |-> Preconditions,
     RootPaths |-> RootPaths, ServerAddressByClientCIDR |-> ServerAddressByClientCIDR,
     Status |-> Status, StatusCause |-> StatusCause, StatusDetails |-> StatusDetails,
     Table |-> Table, TableColumnDefinition |-> TableColumnDefinition, TableOptions |->
     TableOptions, TableRow |-> TableRow, TableRowCondition |-> TableRowCondition, Time
     |-> Time, Timestamp |-> Timestamp, MetaTypeMeta |-> MetaTypeMeta, UpdateOptions |->
     UpdateOptions, WatchEvent |-> WatchEvent, RawExtension |-> RawExtension,
     RuntimeTypeMeta |-> RuntimeTypeMeta, Unknown |-> Unknown, Info |-> Info,
     ClusterPolicyReport |-> ClusterPolicyReport, ClusterPolicyReportList |->
     ClusterPolicyReportList, PolicyReport |-> PolicyReport, PolicyReportList |->
     PolicyReportList, PolicyReportResult |-> PolicyReportResult, PolicyReportSummary |->
     PolicyReportSummary]

-----------------------------------------------------------------------------
(* What the server serves *)

\* The types of the two storages of a group (New), and of their lists (NewList).
Kinds(group) ==
    IF group = "wgpolicyk8s.io" THEN {"PolicyReport", "ClusterPolicyReport"}
                                ELSE {"EphemeralReport", "ClusterEphemeralReport"}
Lists == {"PolicyReportList", "ClusterPolicyReportList", "EphemeralReportList",
          "ClusterEphemeralReportList"}
Served == Kinds("wgpolicyk8s.io") \cup Kinds("reports.kyverno.io") \cup Lists

\* What the API server's routes name beside them: bodies and answers of
\* requests, discovery and the version.
RouteTypes == {"DeleteOptions", "Patch", "Status", "WatchEvent", "APIGroupList", "APIGroup",
               "APIResourceList", "Info"}

-----------------------------------------------------------------------------
(* The builder *)

\* The definition of a type is found and its dependencies are next, unless the
\* document has it already.  A type without a definition ends the start.
Build ==
    /\ todo # <<>> /\ stage # "failed"
    /\ LET type == Head(todo)
       IN \/ /\ type \in built
             /\ todo' = Tail(todo) /\ UNCHANGED <<stage, built>>
          \/ /\ type \notin built
             /\ IF type \in DOMAIN GetOpenAPIDefinitions
                THEN /\ built' = built \cup {type}
                     /\ todo' = SetToSeq(GetOpenAPIDefinitions[type].deps) \o Tail(todo)
                     /\ UNCHANGED stage
                ELSE /\ stage' = "failed" /\ UNCHANGED <<todo, built>>

\* The kinds of a group are asked for in any order (they are in a Go map).
Orders(group) == SetToSeqs(Kinds(group))

\* A group is installed and the other one is next, or the routes, in the order
\* in which they were registered: one order stands for it.
Install ==
    /\ todo = <<>>
    /\ \/ /\ stage = "wgpolicyk8s.io" /\ stage' = "reports.kyverno.io"
          /\ todo' \in Orders("reports.kyverno.io")
       \/ /\ stage = "reports.kyverno.io" /\ stage' = "routes"
          /\ todo' = FoldSet(LAMBDA type, types : Append(types, type), <<>>,
                            Served \cup RouteTypes)
    /\ built' = {}

\* The document of the routes is published and the server serves.
PrepareRun ==
    /\ stage = "routes" /\ todo = <<>>
    /\ stage' = "serving"
    /\ UNCHANGED <<todo, built>>

Init == stage = "wgpolicyk8s.io" /\ todo \in Orders(stage) /\ built = {}

Next == Build \/ Install \/ PrepareRun

Spec == Init /\ [][Next]_vars

-----------------------------------------------------------------------------
(* Properties *)

\* No start ends for want of a definition: the walk from the served kinds and
\* the routes meets none of the types that the file refers to and does not
\* define (runtime.Object of InternalEvent is one).
DefinitionsFound == stage # "failed"

\* The published document has a definition for everything that a schema in it
\* refers to, and for every kind that is served: no list of dependencies lacks
\* a type that only it would bring in.
PublishedWhole ==
    stage = "serving" =>
      /\ Served \subseteq built
      /\ \A type \in built : GetOpenAPIDefinitions[type].refs \subseteq built

=============================================================================
