------------------------------ MODULE Content ------------------------------
(***************************************************************************)
(* What requests and collections are made of, read from and turned into:   *)
(* the tree of the collections, cURL commands, the words of a command,     *)
(* variables, previews, samples and exports, and Postman exports.  They    *)
(* share no state; a behaviour is one of any of them, and part says of     *)
(* which.                                                                  *)
(***************************************************************************)
EXTENDS CollectionTree, CurlImport, ShellWords, RequestResolution, Derivatives, PostmanConversion

CONSTANTS
  MaxTokens,     \* bound: tokens of a command
  Samples,       \* effective requests a command is generated for
  MaxText,       \* bound: characters of a command
  QuotedWords,   \* lists of words a command is generated from
  Cases,         \* [variables, draft, template]: what is resolved
  Jobs,          \* what previews, samples and exports are asked for
  PostmanExports

ASSUME CasesAreWellFormed == Cases # {} /\ \A c \in Cases : WellFormedCase(c)
ASSUME JobsAreWellFormed == Jobs # {} /\ \A j \in Jobs : WellFormedJob(j)
ASSUME ExportsAreWellFormed == PostmanExports # {} /\ \A c \in PostmanExports : WellFormed(c)

VARIABLE part  \* what a behaviour is about

contentVars == <<treeVars, curlVars, shellVars, resolutionVars, derivativeVars, postmanVars, part>>

\* The input of the parts a behaviour is not about.
AnyCase == {CHOOSE x \in Cases : TRUE}
AnyJob == {CHOOSE x \in Jobs : TRUE}
AnyExport == {CHOOSE x \in PostmanExports : TRUE}

ContentInit ==
  /\ part \in {"tree", "curl", "words", "variables", "derivatives", "postman"}
  /\ TreeInit
  /\ CurlInit(IF part = "curl" THEN MaxTokens ELSE 0, IF part = "curl" THEN Samples ELSE {})
  /\ ShellInit(IF part = "words" THEN MaxText ELSE 0, IF part = "words" THEN QuotedWords ELSE {})
  /\ ResolutionInit(IF part = "variables" THEN Cases ELSE AnyCase)
  /\ DerivativeInit(IF part = "derivatives" THEN Jobs ELSE AnyJob)
  /\ part # "derivatives" => variable = "x-other"
  /\ PostmanInit(IF part = "postman" THEN PostmanExports ELSE AnyExport)

EditsTree ==
  /\ part = "tree" /\ TreeNext
  /\ UNCHANGED <<part, curlVars, shellVars, resolutionVars, derivativeVars, postmanVars>>
ParsesCurl ==
  /\ part = "curl" /\ CurlNext
  /\ UNCHANGED <<part, treeVars, shellVars, resolutionVars, derivativeVars, postmanVars>>
ReadsWords ==
  /\ part = "words" /\ ShellNext
  /\ UNCHANGED <<part, treeVars, curlVars, resolutionVars, derivativeVars, postmanVars>>
ResolvesVariables ==
  /\ part = "variables" /\ ResolutionNext
  /\ UNCHANGED <<part, treeVars, curlVars, shellVars, derivativeVars, postmanVars>>
MakesDerivative ==
  /\ part = "derivatives" /\ DerivativeNext
  /\ UNCHANGED <<part, treeVars, curlVars, shellVars, resolutionVars, postmanVars>>
ConvertsPostman ==
  /\ part = "postman" /\ PostmanNext
  /\ UNCHANGED <<part, treeVars, curlVars, shellVars, resolutionVars, derivativeVars>>

ContentNext ==
  EditsTree \/ ParsesCurl \/ ReadsWords \/ ResolvesVariables \/ MakesDerivative \/ ConvertsPostman

ContentSpec == ContentInit /\ [][ContentNext]_contentVars
-----------------------------------------------------------------------------
\* Whatever sequence of operations is run on the collections, a commit is refused for a limit or not at
\* all, and no operation loses an item it was not to remove (CollectionManager.ts:176-451).
TreeStaysWhole == NeverMangled /\ NothingIsLost

\* A cURL sample, pasted back, is the request it was generated from or says so: word by word through the
\* shell's quoting, and option by option (CodeGenerator.ts:225-254, CurlParser.ts:126-475).
SamplesComeBack == PastesBack /\ WordsComeBack

\* A request is sent with every variable replaced by its value, or refused with the reason
\* (VariableEngine.ts:88-345, RequestPreparationService.ts:50-110).
SentOrRefusedWithReason == SentIsSubstituted /\ RefusedWithReason

\* A Postman export is converted to what it says, with its credentials apart: what a request inherits is
\* the innermost folder's, and nothing secret stays in the documents (PostmanParser.ts:45-259).
ConversionIsFaithful == InheritedFromTheInnermost /\ SecretsAreHandedOver
=============================================================================
