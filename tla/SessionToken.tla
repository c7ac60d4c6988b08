----------------------------- MODULE SessionToken -----------------------------
(***************************************************************************)
(* SessionTokenIssuer (identity/session_token.py).  It keeps no state: a   *)
(* token is a text that carries what verify needs.                         *)
(*                                                                         *)
(* A text is a sequence of symbols: words, numerals, the two separators,   *)
(* and signatures, each of which can be told from the others.  Instants    *)
(* are counted in ticks, several to the second; expiry is in seconds.      *)
(***************************************************************************)
EXTENDS Naturals, Sequences, FiniteSets

CONSTANTS
  TicksPerSecond,
  TtlSeconds

ASSUME SessionTokenAssumption ==
  /\ TicksPerSecond \in Nat \ {0}
  /\ TtlSeconds \in Nat

Word(w)      == <<"word", w>>
Numeral(n)   == <<"numeral", n>>
Dot          == <<"dot">>
Colon        == <<"colon">>
IsNumeral(x) == Len(x) = 1 /\ x[1][1] = "numeral"

IsText(x) == x \in Seq({x[i] : i \in DOMAIN x})

(* An ExecutionContext, as far as its identity goes.                       *)
IsContext(x) == /\ x = [session |-> x.session, agent |-> x.agent]
                /\ IsText(x.session) /\ IsText(x.agent)

DotFree(context) == \A i \in DOMAIN (context.session \o context.agent) :
                      (context.session \o context.agent)[i] # Dot

(* hmac.new(...).hexdigest() depends on all of the message it is given.    *)
_sign(session, agent, expiry) ==
  <<"signature", session \o <<Colon>> \o agent \o <<Colon, Numeral(expiry)>> >>

(* Faulty variant: the expiry is rounded up.                               *)
MutExpiryRoundedUp(now) ==
  (now + TtlSeconds * TicksPerSecond + TicksPerSecond - 1) \div TicksPerSecond

(* int(now + ttl_seconds) drops the fraction of a second.                  *)
ExpiryEpoch(now) == (now + TtlSeconds * TicksPerSecond) \div TicksPerSecond

issue(context, now) ==
  LET expiry == ExpiryEpoch(now)
  IN  context.session \o <<Dot>> \o context.agent \o
        <<Dot, Numeral(expiry), Dot, _sign(context.session, context.agent, expiry)>>

(* credential.split(".", 3): what is left after three dots is one field.   *)
Dots(text) == {i \in DOMAIN text : text[i] = Dot}

Split(text) ==
  LET Nth(n) == CHOOSE i \in Dots(text) : Cardinality({j \in Dots(text) : j <= i}) = n
  IN  [session   |-> SubSeq(text, 1, Nth(1) - 1),
       agent     |-> SubSeq(text, Nth(1) + 1, Nth(2) - 1),
       expiry    |-> SubSeq(text, Nth(2) + 1, Nth(3) - 1),
       signature |-> SubSeq(text, Nth(3) + 1, Len(text))]

verify(credential, context, now) ==
  /\ Cardinality(Dots(credential)) >= 3
  /\ LET field == Split(credential)
     IN  /\ IsNumeral(field.expiry)
         /\ field.session = context.session
         /\ field.agent = context.agent
         /\ LET expiry == field.expiry[1][2]
            IN  /\ now <= expiry * TicksPerSecond
                /\ field.signature = <<_sign(field.session, field.agent, expiry)>>
=============================================================================
