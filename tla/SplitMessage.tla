---------------------------- MODULE SplitMessage ----------------------------
(***************************************************************************)
(* splitMessage (kh_common/telegram/__init__.py): a text longer than the   *)
(* limit is cut at the last break of the best kind, or at the limit.       *)
(* Breaks are single characters, as the default ones are.                  *)
(***************************************************************************)
EXTENDS Naturals, SequencesExt

CONSTANTS
  TextLimit,   \* text_limit
  TextBreaks,  \* text_breaks, the best first
  MaxText      \* bound on the length of a text, for model checking only

ASSUME SplitAssumption ==
  TextLimit \in Nat \ {0} /\ TextBreaks \in Seq(STRING) /\ MaxText \in Nat

VARIABLES
  original,  \* the argument
  text,      \* what is left of it
  messages,
  begins,    \* history: where in it each message begins, and then the rest
  splitting

splitVars == <<original, text, messages, begins, splitting>>

SplitInit ==
  original = <<>> /\ text = <<>> /\ messages = <<>> /\ begins = <<1>> /\ splitting = "idle"

SplitMessage ==
  /\ splitting = "idle" /\ splitting' = "cutting"
  /\ original' \in BoundedSeq(Range(TextBreaks) \cup {"letter"}, MaxText)
  /\ text' = original'
  /\ UNCHANGED <<messages, begins>>

RestBegins(left) == begins' = Append(begins, Len(original) - Len(left) + 1)

(* t.rfind(splitter), counted from 0, which no break is cut at *)
LastPlace(c) == Max({i - 1 : i \in {j \in 1 .. TextLimit : text[j] = c}} \cup {0})

(* mutant: the splitter of the last search is dropped with or without it *)
Splitter_Stale(kinds) == IF kinds = {} THEN <<TextBreaks[Len(TextBreaks)]>> ELSE <<TextBreaks[Min(kinds)]>>

Splitter(kinds) == IF kinds = {} THEN <<>> ELSE <<TextBreaks[Min(kinds)]>>

Cut ==
  /\ splitting = "cutting" /\ Len(text) > TextLimit
  /\ LET kinds == {k \in DOMAIN TextBreaks : LastPlace(TextBreaks[k]) > 0}
         split == IF kinds = {} THEN TextLimit ELSE LastPlace(TextBreaks[Min(kinds)])
     IN  /\ messages' = Append(messages, SubSeq(text, 1, split))
         /\ text' = SubSeq(text, split + Len(Splitter(kinds)) + 1, Len(text))
         /\ RestBegins(text')
  /\ UNCHANGED <<original, splitting>>

AppendRest ==
  /\ splitting = "cutting" /\ Len(text) <= TextLimit
  /\ splitting' = "split"
  /\ messages' = Append(messages, text) /\ text' = <<>> /\ RestBegins(text')
  /\ UNCHANGED original

SplitNext == SplitMessage \/ Cut \/ AppendRest

SplitSpec == SplitInit /\ [][SplitNext]_splitVars
-----------------------------------------------------------------------------
Message(i) == SubSeq(original, begins[i], begins[i] + Len(messages[i]) - 1)
Dropped(i) == SubSeq(original, begins[i] + Len(messages[i]), begins[i + 1] - 1)

(* SplitFaithful: the messages and what is left are the text in order,     *)
(* with nothing left out but one break behind a message; none is empty or  *)
(* too long; and a message ends at the limit only where it has no break    *)
(* behind its first character, and at a break of a kind only where it has  *)
(* none of a better kind there (telegram/__init__.py:76-100; line 48       *)
(* promises the priority).                                                 *)
SplitFaithful ==
  /\ begins[1] = 1 /\ text = SubSeq(original, begins[Len(messages) + 1], Len(original))
  /\ \A i \in DOMAIN messages :
       /\ messages[i] = Message(i)
       /\ Dropped(i) \in {<<>>} \cup {<<TextBreaks[k]>> : k \in DOMAIN TextBreaks}
  /\ original # <<>> => \A i \in DOMAIN messages : Len(messages[i]) \in 1 .. TextLimit
  /\ \A i \in 1 .. Len(messages) - 1 : \A j \in 2 .. Len(messages[i]) : \A k \in DOMAIN TextBreaks :
       messages[i][j] = TextBreaks[k] => \E better \in 1 .. k : Dropped(i) = <<TextBreaks[better]>>
=============================================================================
