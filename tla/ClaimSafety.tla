---------------------------- MODULE ClaimSafety ----------------------------
(***************************************************************************)
(* The text scanners of claim safety.  They exist twice: in                *)
(* packages/protocol-ts/src/claim-safety.ts, which the control plane, the  *)
(* host and the UI call, and in scripts/lib/protocol-utils.mjs, which the  *)
(* protocol gate calls.  A text is a sequence of tokens; two neighbours    *)
(* are separated by a space unless the token "join" (an underscore) is     *)
(* between them.  The tokens are the classes the patterns tell apart:      *)
(*   "cue"       not, no, never, without, cannot, is not ...               *)
(*   "closed"    fixed, verified, remediated, resolved                     *)
(*   "isClosed"  is fixed, was verified, already resolved, fixed by ...    *)
(*   "done"      complete, completed, accepted, approved, done             *)
(*   "concluded" verification done, remediation approved ...               *)
(*   "retest"    resolved pending retest                                   *)
(*   "phraseA", "phraseB"  the two words of a forbidden phrase             *)
(*   "assures"   a claim of an assurance family (audit-ready ...)          *)
(*   "pii", "hidden"  an e-mail address; an invisible control character    *)
(*   "soft", "colon"  a comma; a colon or a standalone dash                *)
(*   "strong"    and, but, however, though, yet                            *)
(*   "dot", "bang"  a full stop; one of ; ! ?                              *)
(*   "ref"       a typed reference such as customer:verified               *)
(*   "source"    a phrase of the source-text list (secret=, raw source)    *)
(*   "fence"     a code fence, a shebang or a dynamic call                 *)
(*   "branch"    if (...) {, which is code syntax too                      *)
(*   "access"    admin, authorize, permission, role ...                    *)
(*   "location"  a file with a line number                                 *)
(*   "pilot"     pilot metric, unit economics, private notes ...           *)
(*   "long", "word"  any other word, of 12 letters or more and of four     *)
(* Texts are shorter than the 64-character window and the 40-character gap *)
(* of the negation guard, and than CLAIM_SAFE_TEXT_MAX_LENGTH.             *)
(***************************************************************************)
EXTENDS Integers, Sequences, FiniteSets

Tokens == {"cue", "closed", "isClosed", "done", "concluded", "retest", "phraseA", "phraseB", "assures", "pii",
           "hidden", "soft", "colon", "strong", "dot", "bang", "join", "ref", "source",
           "fence", "branch", "access", "location", "pilot", "long", "word"}

Stops == {"dot", "bang"}
ClosedWords == {"closed", "isClosed", "retest", "ref"}

-----------------------------------------------------------------------------
(***************************************************************************)
(* Parts the patterns share.  splitNormalizedClauses cuts at . ; ! ?, and  *)
(* positions i and j are in one clause when no stop is between them.       *)
(***************************************************************************)
SameClause(t, i, j) == \A k \in i .. j : t[k] \notin Stops

(* Word boundaries: a cue counts only as a word of its own, and an         *)
(* underscore is a word character.                                         *)
IsCue(t, i) ==
  /\ t[i] = "cue"
  /\ i > 1 => t[i - 1] # "join"
  /\ i < Len(t) => t[i + 1] # "join"

isTypedIdentityReference(t) == t = <<"ref">>

containsHiddenControlCharacter(t) == \E i \in DOMAIN t : t[i] = "hidden"

(* firstForbiddenPhrase: a hidden character is refused outright, and in a  *)
(* text that contains a space the words of a phrase may also be joined.    *)
HasSpace(t) ==
  \E i \in 1 .. Len(t) - 1 :
     t[i] # "join" /\ t[i + 1] \notin {"join", "soft", "colon"} \cup Stops

PhraseAt(t, i) == t[i] = "phraseA" /\ i < Len(t) /\ t[i + 1] = "phraseB"

JoinedPhraseAt(t, i) ==
  t[i] = "phraseA" /\ i + 1 < Len(t) /\ t[i + 1] = "join" /\ t[i + 2] = "phraseB"

claimSafeForbiddenPhrase(t) ==
  \/ containsHiddenControlCharacter(t)
  \/ \E i \in DOMAIN t : PhraseAt(t, i) \/ (HasSpace(t) /\ JoinedPhraseAt(t, i))

Has(t, token) == \E i \in DOMAIN t : t[i] = token

sourceTextForbiddenPhrase(t) == containsHiddenControlCharacter(t) \/ Has(t, "source")

(* A location alone is allowed, and so is a condition about anything but   *)
(* access.                                                                 *)
sourceCodeLikeTextReason(t) ==
  \/ Has(t, "fence")
  \/ Has(t, "branch") /\ (Has(t, "access") \/ Has(t, "location"))

-----------------------------------------------------------------------------
(* familyClaimAppearsPositively: a cue anywhere since the last strong      *)
(* conjunction of the clause takes the claim back.                         *)
familyClaimAppearsPositively(t, i) ==
  /\ t[i] = "assures"
  /\ ~ \E c \in 1 .. i - 1 :
         /\ IsCue(t, c)
         /\ SameClause(t, c, i)
         /\ \A k \in c .. i : t[k] # "strong"

piiTextForbidden(t) ==
  /\ ~isTypedIdentityReference(t)
  /\ \E i \in DOMAIN t : t[i] = "pii"

customerVisibleTextForbidden(t) ==
  \/ claimSafeForbiddenPhrase(t)
  \/ piiTextForbidden(t)
  \/ \E i \in DOMAIN t : familyClaimAppearsPositively(t, i)

(* regexAppearsPositively: only a cue since the last boundary of any kind, *)
(* followed by white space, takes a closure phrase back.                   *)
regexAppearsPositively(t, i) ==
  /\ t[i] \in ClosedWords
  /\ ~ \E c \in 1 .. i - 1 :
         /\ IsCue(t, c)
         /\ SameClause(t, c, i)
         /\ \A k \in c .. i : t[k] \notin {"soft", "colon", "strong"}
         /\ t[i] # "ref"

claimSafePositiveClosurePhrase(t) ==
  /\ ~isTypedIdentityReference(t)
  /\ \E i \in DOMAIN t : regexAppearsPositively(t, i)

-----------------------------------------------------------------------------
(***************************************************************************)
(* The gate's own copies.                                                  *)
(***************************************************************************)
(* sharedForbiddenPhrasePresent strips the hidden characters it knows and  *)
(* matches the phrase with one space between its words.                    *)
sharedForbiddenPhrasePresent(t) == \E i \in DOMAIN t : PhraseAt(t, i)

secretPhrasePresent(t) == Has(t, "source")

gateCustomerVisibleTextForbidden(t) ==
  \/ sharedForbiddenPhrasePresent(t)
  \/ containsHiddenControlCharacter(t)
  \/ piiTextForbidden(t)
  \/ \E i \in DOMAIN t : familyClaimAppearsPositively(t, i)

(* verificationScopeTextHasClosureClaim: here a colon ends no negation.    *)
verificationScopeTextHasClosureClaim(t) ==
  /\ ~isTypedIdentityReference(t)
  /\ \E i \in DOMAIN t :
       /\ t[i] \in ClosedWords
       /\ ~ \E c \in 1 .. i - 1 :
              /\ IsCue(t, c)
              /\ SameClause(t, c, i)
              /\ \A k \in c .. i : t[k] \notin {"soft", "strong"}

forbiddenPublicContentReason(t) ==
  secretPhrasePresent(t) \/ gateCustomerVisibleTextForbidden(t)

-----------------------------------------------------------------------------
(***************************************************************************)
(* What the callers make of the scanners.  Some text must also say         *)
(* something: the control plane asks for three words, the gate for twelve  *)
(* letters.                                                                *)
(***************************************************************************)
Absent == <<>>

WordsOf(t) == {i \in DOMAIN t : /\ t[i] \notin {"soft", "colon", "join"} \cup Stops
                                /\ i > 1 => t[i - 1] # "join"}

isMeaningfulClassificationText(t) == Cardinality(WordsOf(t)) >= 3

isMeaningfulRemediationText(t) == Cardinality(WordsOf(t)) >= 3 \/ Has(t, "long")

(* The two judges of a record, and each one's idea of meaningful text. *)
ControlPlane == "control plane"
Gate == "gate"

MeaningfulTo(judge, t) ==
  IF judge = ControlPlane THEN isMeaningfulClassificationText(t) ELSE isMeaningfulRemediationText(t)

(* Mutant of textHasForbiddenClassificationContent: no source text scan. *)
textHasForbiddenClaims(t) == customerVisibleTextForbidden(t)

textHasForbiddenClassificationContent(t) ==
  sourceTextForbiddenPhrase(t) \/ customerVisibleTextForbidden(t)

textHasForbiddenClassificationOrSourceCodeContent(t) ==
  textHasForbiddenClassificationContent(t) \/ sourceCodeLikeTextReason(t)

verificationArtifactTextHasForbiddenContent(t) ==
  textHasForbiddenClassificationContent(t) \/ claimSafePositiveClosurePhrase(t)

(* The gate's verificationScopeTextHasForbiddenContent. *)
gateScopeTextHasForbiddenContent(t) ==
  \/ secretPhrasePresent(t)
  \/ gateCustomerVisibleTextForbidden(t)
  \/ verificationScopeTextHasClosureClaim(t)

customerProseForbidden(t) ==
  textHasForbiddenClassificationContent(t) \/ Has(t, "pilot")

(* The gate's collectRemediationTextViolations; `code' is its              *)
(* detectSourceCodeLikeText.                                               *)
collectRemediationTextViolations(t, code) ==
  \/ secretPhrasePresent(t)
  \/ code /\ sourceCodeLikeTextReason(t)
  \/ gateCustomerVisibleTextForbidden(t)

-----------------------------------------------------------------------------
(***************************************************************************)
(* The accepted-risk text scanners.  A claim that the finding is closed is *)
(* refused unless a negated closure word excuses it.                       *)
(***************************************************************************)
(* positiveClaimPattern, and the alternatives that only the gate's has.    *)
PositiveClaims == {"isClosed"}
GateOnlyClaims == {"concluded", "retest"}

(* The words of safeNegatedPattern, and the gate's terminalWords.          *)
NegatedWords == {"closed", "isClosed", "retest"}
TerminalWords == {"done", "concluded"}

(* safeNegatedPattern: a cue, white space, and later one of the words.     *)
NegatedAt(t, c, j, words) == c < j /\ IsCue(t, c) /\ t[j] \in words

(* The clause of the claim at i holds a negation of the gate's pattern.    *)
ExcusedInClause(t, i) ==
  \E c, j \in DOMAIN t :
    /\ NegatedAt(t, c, j, NegatedWords \cup TerminalWords)
    /\ SameClause(t, c, j)
    /\ SameClause(t, IF c < i THEN c ELSE i, IF j > i THEN j ELSE i)

(* The gate's acceptedRiskTextHasPositiveClosureClaim judges each clause   *)
(* on its own.                                                             *)
acceptedRiskTextHasPositiveClosureClaim(t) ==
  \E i \in DOMAIN t :
    t[i] \in PositiveClaims \cup GateOnlyClaims /\ ~ExcusedInClause(t, i)

(* The control plane's pattern is tested on the whole text; only a full    *)
(* stop breaks it.                                                         *)
ExcusedAnywhere(t) ==
  \E c, j \in DOMAIN t :
    NegatedAt(t, c, j, NegatedWords) /\ \A k \in c .. j : t[k] # "dot"

(* Mutant of acceptedRiskTextHasForbiddenContent: any cue excuses a claim. *)
acceptedRiskTextExcusedByAnyCue(t) ==
  \/ textHasForbiddenClassificationContent(t)
  \/ (\E i \in DOMAIN t : t[i] \in PositiveClaims) /\ ~(\E c \in DOMAIN t : IsCue(t, c))

acceptedRiskTextHasForbiddenContent(t) ==
  \/ textHasForbiddenClassificationContent(t)
  \/ (\E i \in DOMAIN t : t[i] \in PositiveClaims) /\ ~ExcusedAnywhere(t)

=============================================================================
