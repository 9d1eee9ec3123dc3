------------------------------ MODULE Tokenizer ------------------------------
(***************************************************************************)
(* What the C standard promises of strtok and strtok_r: each client takes  *)
(* the tokens of its own string, one per call, with delimiters that may    *)
(* change from call to call, and tokens taken earlier stay as they are.    *)
(***************************************************************************)
EXTENDS Integers, Sequences, SequencesExt, FiniteSetsExt

CONSTANTS Clients, Strings, DelimiterSets

VARIABLES
  rest,     \* what is left of a client's string
  tokens    \* the tokens it has been given

tokenizerVars == <<rest, tokens>>

Init == rest = [c \in Clients |-> <<>>] /\ tokens = [c \in Clients |-> <<>>]

(* The first position of s, or the one after its end, that is in D or not. *)
FirstIn(s, D) == Min({i \in DOMAIN s : s[i] \in D} \cup {Len(s) + 1})
FirstNotIn(s, D) == Min({i \in DOMAIN s : s[i] \notin D} \cup {Len(s) + 1})

(* A call on string s; earlier are the tokens so far.                      *)
Token(c, s, D, earlier) ==
  LET begun == SubSeq(s, FirstNotIn(s, D), Len(s))
      n == FirstIn(begun, D)
  IN /\ rest' = [rest EXCEPT ![c] = SubSeq(begun, n + 1, Len(begun))]
     /\ tokens' = [tokens EXCEPT
          ![c] = IF begun = <<>> THEN earlier ELSE Append(earlier, SubSeq(begun, 1, n - 1))]

First(c) == \E s \in Strings, D \in DelimiterSets : Token(c, s, D, <<>>)
More(c) == \E D \in DelimiterSets : Token(c, rest[c], D, tokens[c])
Forget(c) ==
  rest' = [rest EXCEPT ![c] = <<>>] /\ tokens' = [tokens EXCEPT ![c] = <<>>]

Next == \E c \in Clients : First(c) \/ More(c) \/ Forget(c)
Spec == Init /\ [][Next]_tokenizerVars
=============================================================================
