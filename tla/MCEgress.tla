------------------------------- MODULE MCEgress ------------------------------
(***************************************************************************)
(* An instance of Egress for TLC.  The default policy lists a domain with  *)
(* a subdomain, strict nothing but a block, and open another name; inner   *)
(* resolves into the block or out of it, so it is admitted by some lookups *)
(* under some policies.  Bodies: nothing, and a key against a number with  *)
(* more behind them than the cap lets through.                             *)
(*                                                                         *)
(* PipelineIsExact is about MCPayloads: all sequences of up to four pieces *)
(* of every interacting kind that pieces describe exactly, and numbers of  *)
(* every length around 13..19.                                             *)
(***************************************************************************)
EXTENDS Egress

CONSTANTS default, strict, open,  \* policies
          domain, sub, inner,     \* names
          local, public           \* addresses

MCCovers == [n \in Names |-> IF n = domain THEN {domain, sub} ELSE {n}]

MCDomains == [p \in Policies |-> CASE p = default -> {domain}
                                   [] p = strict  -> {}
                                   [] p = open    -> {inner}]

MCCidrs == [p \in Policies |-> IF p = open THEN {} ELSE {local}]

MCAnswers == [n \in Names |-> IF n = inner THEN {{local, public}, {public}} ELSE {{public}}]

Digits(n, first, second, last) ==
    [i \in 1..n |-> CASE i = 1 -> first
                      [] i = 2 -> second
                      [] i = n -> last
                      [] OTHER -> 7]

MCDigitRuns == {Digits(n, first, second, last) :
                n \in 12..20, first \in {2, 4}, second \in 0..9, last \in {0, 3, 9}}

Card == CHOOSE n \in MCDigitRuns : Len(n) = 17 /\ ValidNumber(n)

MCPieces ==
    {Word, Gap, Labelled, Number(Card)}
    \cup {Secret(name) : name \in {"aws_access_key_id", "aws_secret_access_key", "us_ssn",
              "pem_private_key", "generic_api_key", "nexiscore_internal_uuid",
              "private_key_pem_content"}}

MCPayloads ==
    {<<Number(n)>> : n \in MCDigitRuns}
    \cup {b \in UNION {[1..n -> MCPieces] : n \in 0..4} : Delimited(b)}

MCBodies == {<< >>, <<Secret("aws_access_key_id"), Secret("us_ssn"), Word>>}

=============================================================================
