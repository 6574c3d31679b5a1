--------------------------------- MODULE DLP ---------------------------------
(***************************************************************************)
(* The scrubbing of egress/dlp.go as operators: the patterns in their      *)
(* order, each replacing its matches in what the earlier ones have left.   *)
(*                                                                         *)
(* A payload is a sequence of pieces: a word of six letters or more, a gap *)
(* (one character that is no word character and no newline), a secret in   *)
(* the form one pattern looks for, or a labelled key ("secret=" and forty  *)
(* characters), which is a secret only behind "aws". Numbers carry their   *)
(* digits. Scrub leaves redaction tokens, and the stub "[REDACTED:" of a   *)
(* token that a later match has eaten.                                     *)
(***************************************************************************)
EXTENDS Integers, SequencesExt

CONSTANTS
    Payloads,  \* the payloads to be scrubbed
    DigitRuns  \* the runs of digits that occur in payloads

\* The names of NewDLPPipeline's patterns, in their order.
Patterns ==
    << "aws_access_key_id", "aws_secret_access_key", "ssh_private_key_header",
       "pem_private_key", "generic_api_key", "bearer_token", "us_ssn", "credit_card",
       "nexiscore_internal_uuid", "private_key_pem_content" >>

Word == [type |-> "word"]
Gap == [type |-> "gap"]
Labelled == [type |-> "labelled"]
Stub == [type |-> "stub"]
Secret(name) == [type |-> "secret", name |-> name]
Number(digits) == [type |-> "secret", name |-> "credit_card", digits |-> digits]
Token(name) == [type |-> "token", name |-> name]

IsSecret(p, name) == p.type = "secret" /\ p.name = name

\* The piece begins and ends with a word character in the sense of \b: the headers
\* of keys begin and end with "-", tokens with brackets.
WordEdges(p) ==
    \/ p.type \in {"word", "labelled"}
    \/ p.type = "secret" /\ p.name \notin {"ssh_private_key_header", "pem_private_key"}

-----------------------------------------------------------------------------
\* A doubled digit, with its own digits added up.
Doubled(d) == IF 2 * d > 9 THEN 2 * d - 9 ELSE 2 * d

\* The loop of luhnCheck: w[1] + ... + w[n].
SumTo(w, n) ==
    LET sum[i \in 0..n] == IF i = 0 THEN 0 ELSE sum[i - 1] + w[i]
    IN  sum[n]

\* Mutant: the parity is taken for granted.
LuhnCheckEven(digits) ==
    LET n == Len(digits)
        Weighed(i) == IF (i - 1) % 2 = 0 THEN Doubled(digits[i]) ELSE digits[i]
    IN  /\ n \in 13..19
        /\ SumTo([i \in 1..n |-> Weighed(i)], n) % 10 = 0

(***************************************************************************)
(* luhnCheck: from the left, double the digits at the positions (from 0)   *)
(* that have the parity of the length.                                     *)
(***************************************************************************)
LuhnCheck(digits) ==
    LET n == Len(digits)
        Weighed(i) == IF (i - 1) % 2 = n % 2 THEN Doubled(digits[i]) ELSE digits[i]
    IN  /\ n \in 13..19
        /\ SumTo([i \in 1..n |-> Weighed(i)], n) % 10 = 0

\* The expression of credit_card, without its boundaries.
CardShape(digits) == Len(digits) \in 13..19 /\ digits[1] \in 3..9

\* \b on both sides of the piece at i.
Bounded(b, i) ==
    /\ i > 1 => ~WordEdges(b[i - 1])
    /\ i < Len(b) => ~WordEdges(b[i + 1])

\* aws.{0,20}secret also spans from the "aws" in the token of an access key to a
\* labelled key up to five characters further on, or to the "secret" of an AWS
\* secret up to one character further on.
Reach(p) == CASE p.type = "labelled"                    -> 5
              [] IsSecret(p, "aws_secret_access_key")   -> 1
              [] OTHER                                  -> -1

Spans(b, i, j) ==
    /\ b[i] = Token("aws_access_key_id")
    /\ \A k \in (i + 1)..(j - 1) : b[k] = Gap
    /\ j - i - 1 <= Reach(b[j])

-----------------------------------------------------------------------------
(***************************************************************************)
(* FindAllIndex and Validate: what one pattern replaces in buffer b, as    *)
(* pairs of first and last piece, without overlaps.                        *)
(***************************************************************************)
Eaten(b) == {s \in (1..Len(b)) \X (1..Len(b)) : s[1] < s[2] /\ Spans(b, s[1], s[2])}

Matches(b, name) ==
    LET plain == {i \in 1..Len(b) : IsSecret(b[i], name)}
        at(S) == {<<i, i>> : i \in S}
    IN  CASE name = "us_ssn" -> at({i \in plain : Bounded(b, i)})
          [] name = "credit_card" ->
                at({i \in plain : /\ Bounded(b, i)
                                  /\ CardShape(b[i].digits) /\ LuhnCheck(b[i].digits)})
          [] name = "aws_secret_access_key" ->
                Eaten(b) \cup at({i \in plain : \A s \in Eaten(b) : s[2] # i})
          [] OTHER -> at(plain)

\* One match is replaced; the token of an access key is eaten up to its "aws".
Replace(state, span, name) ==
    LET b == state.body
        token == IF span[1] = span[2] THEN <<Token(name)>> ELSE <<Stub, Token(name)>>
    IN  [body     |-> SubSeq(b, 1, span[1] - 1) \o token \o SubSeq(b, span[2] + 1, Len(b)),
         findings |-> Append(state.findings, name)]

\* The match that starts at piece i is replaced, if there is one.
ReplaceFrom(state, found, i, name) ==
    LET starting == {s \in found : s[1] = i}
    IN  IF starting = {} THEN state ELSE Replace(state, CHOOSE s \in starting : TRUE, name)

\* The matches of a pattern are found first and replaced from the last to the first:
\* gone[k] is what the replacements in the last k pieces make of the buffer.
ApplyPattern(state, name) ==
    LET n == Len(state.body)
        found == Matches(state.body, name)
        gone[k \in 0..n] ==
            IF k = 0 THEN state ELSE ReplaceFrom(gone[k - 1], found, n - k + 1, name)
    IN  gone[n]

\* Scrub: the body and the findings, by name, in reverse order of their making.
Scrub(payload) ==
    LET pass[k \in 0..Len(Patterns)] ==
            IF k = 0 THEN [body |-> payload, findings |-> << >>]
            ELSE ApplyPattern(pass[k - 1], Patterns[k])
        done == pass[Len(Patterns)]
    IN  [body |-> done.body, findings |-> Reverse(done.findings)]

-----------------------------------------------------------------------------
(***************************************************************************)
(* The payloads pieces describe exactly: the expressions that take all     *)
(* they can are followed by a gap, and digits that run together are too    *)
(* many for a card.                                                        *)
(***************************************************************************)
OpenEnded == {"generic_api_key", "bearer_token", "private_key_pem_content"}

Numeric(p) == p.type = "secret" /\ p.name \in {"us_ssn", "credit_card"}

Delimited(b) == \A i \in 1..Len(b) - 1 :
    /\ b[i].type = "secret" /\ b[i].name \in OpenEnded => b[i + 1] = Gap
    /\ Numeric(b[i]) /\ Numeric(b[i + 1]) => \A p \in {b[i], b[i + 1]} :
          p.name = "credit_card" => Len(p.digits) > 16

Pieces ==
    {Word, Gap, Labelled} \cup {Number(digits) : digits \in DigitRuns}
    \cup {Secret(Patterns[k]) : k \in {j \in 1..Len(Patterns) : Patterns[j] # "credit_card"}}

ASSUME PayloadAssumption ==
    /\ DigitRuns \subseteq Seq(0..9)
    /\ \A p \in Payloads : p \in Seq(Pieces) /\ Delimited(p)

-----------------------------------------------------------------------------
(***************************************************************************)
(* Properties                                                              *)
(***************************************************************************)

\* Luhn's rule as it is defined: from the right, double every second digit.
ValidNumber(digits) ==
    LET n == Len(digits)
        fromRight == Reverse(digits)
    IN  /\ n \in 13..19 /\ digits[1] \in 3..9
        /\ SumTo([i \in 1..n |-> IF i % 2 = 0 THEN Doubled(fromRight[i]) ELSE fromRight[i]],
                 n) % 10 = 0

\* What is redacted, read off the payload alone.  A key is redacted wherever it
\* stands, a number where it stands free; a key found before the numbers are looked
\* for counts as free space, one found after them does not.
EatsKeyAt(b, k, i) ==
    /\ k < i /\ IsSecret(b[k], "aws_access_key_id")
    /\ \A m \in (k + 1)..(i - 1) : b[m] = Gap
    /\ i - k - 1 <= Reach(b[i])

EatsKey(b, i) == \E k \in 1..Len(b) : EatsKeyAt(b, k, i)

Late == {"us_ssn", "credit_card", "nexiscore_internal_uuid", "private_key_pem_content"}

FreeSide(b, i) ==
    \/ i \notin 1..Len(b)
    \/ ~WordEdges(b[i])
    \/ b[i].type = "secret" /\ b[i].name \notin Late
    \/ EatsKey(b, i)

Redacted(b, i) ==
    \/ EatsKey(b, i)
    \/ /\ b[i].type = "secret"
       /\ Numeric(b[i]) => FreeSide(b, i - 1) /\ FreeSide(b, i + 1)
       /\ b[i].name = "credit_card" => ValidNumber(b[i].digits)

Outcome(b, i) ==
    IF \E k \in 1..Len(b) : EatsKeyAt(b, i, k) THEN <<Stub>>
    ELSE IF EatsKey(b, i) THEN <<Token("aws_secret_access_key")>>
    ELSE IF Redacted(b, i) THEN <<Token(b[i].name)>>
    ELSE IF \E k, m \in 1..Len(b) : k < i /\ i < m /\ EatsKeyAt(b, k, m) THEN << >>
    ELSE <<b[i]>>

\* The passes of Scrub (dlp.go:133-178) come to just that, for every payload: no
\* pattern undoes, hides or forges what another looks for except where a number stands
\* directly against a key that is found later; everything else survives in its place;
\* and there is one finding for every piece redacted.
ScrubIsExact == \A b \in Payloads :
    /\ Scrub(b).body = FlattenSeq([i \in 1..Len(b) |-> Outcome(b, i)])
    /\ Len(Scrub(b).findings) = Cardinality({i \in 1..Len(b) : Redacted(b, i)})

=============================================================================
