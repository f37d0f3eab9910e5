----------------------------- MODULE DeliveryProofs -----------------------------
(***************************************************************************)
(* Theorems about Delivery, for any secrets, tokens and clipboard timers.  *)
(***************************************************************************)
EXTENDS Delivery, SequenceTheorems, WellFoundedInduction, TLAPS

\* Before the worker has a Typist the file's token is the one the daemon started with,
\* and between the grant and the save the job has the token the portal will take.
TokenInv ==
    /\ At("connect") \/ At("consent") \/ At("save") => ~typist
    /\ ~typist /\ ~At("down") => file.token = config.token
    /\ At("save") /\ valid # NoToken => job.token = valid
    /\ ConsentIsRemembered

\* A key is pressed for a character of the text.
CharacterInv == At("press") => job.at \in DOMAIN job.text

\* How many characters of the text have arrived, in a delivery under way.
Arrived ==
    IF At("release") \/ (At("unshift") /\ job.ok) THEN job.at ELSE job.at - 1

\* Shift is down for the capital that is being typed, or because it could not be released.
ShiftInv ==
    /\ job.pc \in {"press", "unshift"} => Kind = "capital"
    /\ At("press") => "shift" \in held
    /\ At("release") => Kind # "control"
    /\ "shift" \in held =>
          \/ "shift" \in lost
          \/ job.pc \in {"press", "release", "unshift"} /\ Kind = "capital"

\* What has arrived is what the characters typed so far arrive as, and all of them once
\* the delivery is reported.
ArrivedInv ==
    /\ job.at - 1 \in 0 .. Len(job.text)
    /\ job.pc \in {"press", "release", "unshift"} => job.at \in DOMAIN job.text
    /\ told = "typed" => At("idle")
    /\ lost = {} =>
          /\ \E n \in 0 .. Len(job.text) : typed = Strokes(job.text)[n]
          /\ ~At("idle") => typed = Strokes(job.text)[Arrived]
          /\ told = "typed" /\ typist => typed = Expected(job.text)

DeliveryInv == TypeOK /\ CharacterInv /\ TokenInv /\ ShiftInv /\ ArrivedInv

---------------------------------------------------------------------------
\* What a text arrives as.

\* A set of natural numbers has a least one.
LEMMA LeastOf ==
    ASSUME NEW S, S \subseteq Nat, S # {}
    PROVE  \E x \in S : \A y \in S : x =< y
<1> DEFINE less == OpToRel(<, Nat)
<1>1. IsWellFoundedOn(less, Nat)
  BY NatLessThanWellFounded
<1>2. \A x, y \in Nat : x < y => <<x, y>> \in less
  BY DEF OpToRel
<1> HIDE DEF less
<1>3. PICK x \in S : \A y \in S : ~(<<y, x>> \in less)
  BY <1>1, WFMin
<1>4. ASSUME NEW y \in S PROVE x =< y
  <2>1. x \in Nat /\ y \in Nat /\ <<y, x>> \notin less
    BY <1>3
  <2>2. ~(y < x)
    BY <1>2, <2>1
  <2>3. QED BY <2>1, <2>2
<1>5. QED BY <1>4

\* The induction over the characters of a text: a set that has 0, and with a number the
\* next one, has all up to the length.
LEMMA AllCharacters ==
    ASSUME NEW size \in Nat, NEW S, 0 \in S,
           \A n \in 0 .. size - 1 : n \in S => n + 1 \in S
    PROVE  0 .. size \subseteq S
<1> DEFINE missing == (0 .. size) \ S
<1>1. SUFFICES ASSUME missing # {} PROVE FALSE
  OBVIOUS
<1>2. missing \subseteq Nat
  OBVIOUS
<1>3. \E n \in missing : \A m \in missing : n =< m
  <2> HIDE DEF missing
  <2>1. QED BY <1>1, <1>2, LeastOf
<1>4. PICK n \in missing : \A m \in missing : n =< m
  BY <1>3
<1>5. n \in Nat /\ n # 0 /\ n =< size /\ n \notin S
  BY <1>4
<1>6. n - 1 \in 0 .. size - 1 /\ n - 1 \in S
  BY <1>4, <1>5
<1>7. QED BY <1>5, <1>6

Stroke(kind) == [kind |-> kind, shift |-> kind = "capital"]

\* One stroke more, and none for a character without a keysym.
OneMore(text, n, before) ==
    IF text[n] = "control" THEN before ELSE Append(before, Stroke(text[n]))

\* A function of the first size characters that is built up as Strokes is.
BuiltUp(f, text, size) ==
    f = [n \in 0 .. size |-> IF n = 0 THEN <<>> ELSE OneMore(text, n, f[n - 1])]

LEMMA SomethingIsBuiltUp ==
    ASSUME NEW text, Len(text) \in Nat
    PROVE  \E f : BuiltUp(f, text, Len(text))
<1> DEFINE S == {size \in 0 .. Len(text) : \E f : BuiltUp(f, text, size)}
<1>1. 0 \in S
  <2> DEFINE f == [n \in 0 .. 0 |-> <<>>]
  <2>1. BuiltUp(f, text, 0)
    BY DEF BuiltUp
  <2>2. QED BY <2>1
<1>2. ASSUME NEW size \in 0 .. Len(text) - 1, size \in S PROVE size + 1 \in S
  <2>1. PICK f : BuiltUp(f, text, size)
    BY <1>2
  <2> DEFINE g == [n \in 0 .. size + 1 |-> IF n = size + 1 THEN OneMore(text, n, f[size]) ELSE f[n]]
             h == [n \in 0 .. size + 1 |-> IF n = 0 THEN <<>> ELSE OneMore(text, n, g[n - 1])]
  <2>2. ASSUME NEW n \in 0 .. size + 1 PROVE g[n] = h[n]
    <3>1. CASE n = size + 1
      BY <3>1
    <3>2. CASE n # size + 1
      <4>1. n \in 0 .. size
        BY <3>2
      <4>2. f[n] = IF n = 0 THEN <<>> ELSE OneMore(text, n, f[n - 1])
        BY <2>1, <4>1 DEF BuiltUp
      <4>3. n # 0 => g[n - 1] = f[n - 1]
        BY <4>1
      <4>4. QED BY <3>2, <4>1, <4>2, <4>3
    <3>3. QED BY <3>1, <3>2
  <2>3. g = h
    <3> HIDE DEF OneMore
    <3>1. g = [n \in 0 .. size + 1 |-> g[n]] /\ h = [n \in 0 .. size + 1 |-> h[n]]
      OBVIOUS
    <3>2. QED BY <2>2, <3>1
  <2>4. BuiltUp(g, text, size + 1)
    BY <2>3 DEF BuiltUp
  <2>5. QED BY <2>4
<1> HIDE DEF S
<1>3. 0 .. Len(text) \subseteq S
  BY <1>1, <1>2, AllCharacters
<1>4. QED BY <1>3 DEF S

\* The equations of Strokes, by which everything else is shown of it.
LEMMA StrokesDef ==
    ASSUME NEW text, Len(text) \in Nat
    PROVE  /\ Strokes(text)[0] = <<>>
           /\ \A n \in 1 .. Len(text) :
                Strokes(text)[n] = OneMore(text, n, Strokes(text)[n - 1])
<1> DEFINE f == Strokes(text)
<1>1. f = CHOOSE g : BuiltUp(g, text, Len(text))
  BY DEF Strokes, BuiltUp, OneMore, Stroke
<1>2. BuiltUp(f, text, Len(text))
  <2>1. PICK g : BuiltUp(g, text, Len(text))
    BY SomethingIsBuiltUp
  <2> HIDE DEF f
  <2>2. QED BY <1>1, <2>1
<1> HIDE DEF f
<1>3. QED BY <1>2 DEF BuiltUp, f

Received == [kind : Kinds, shift : BOOLEAN]

LEMMA StrokesType ==
    ASSUME NEW text \in Seq(Kinds)
    PROVE  \A n \in 0 .. Len(text) : Strokes(text)[n] \in Seq(Received)
<1> DEFINE f == Strokes(text)
           S == {n \in 0 .. Len(text) : f[n] \in Seq(Received)}
<1>1. /\ Len(text) \in Nat
      /\ f[0] = <<>>
      /\ \A n \in 1 .. Len(text) : f[n] = OneMore(text, n, f[n - 1])
  BY StrokesDef
<1> HIDE DEF f
<1>2. 0 \in S
  <2>1. <<>> \in Seq(Received)
    OBVIOUS
  <2>2. f[0] \in Seq(Received) /\ 0 \in 0 .. Len(text)
    BY <1>1, <2>1
  <2>3. QED BY <2>2
<1>3. ASSUME NEW n \in 0 .. Len(text) - 1, n \in S PROVE n + 1 \in S
  <2>1. n + 1 \in 1 .. Len(text) /\ text[n + 1] \in Kinds /\ f[n + 1 - 1] = f[n]
    BY <1>1, <1>3
  <2>2. Stroke(text[n + 1]) \in Received
    BY <2>1 DEF Stroke, Received
  <2>3. f[n + 1] = OneMore(text, n + 1, f[n])
    BY <1>1, <2>1
  <2>4. f[n + 1] \in Seq(Received)
    BY <1>3, <2>2, <2>3 DEF OneMore
  <2>5. QED BY <2>1, <2>4
<1> HIDE DEF S
<1>4. 0 .. Len(text) \subseteq S
  BY <1>1, <1>2, <1>3, AllCharacters
<1>5. QED BY <1>4 DEF S, f

\* More characters arrive as what fewer do, and then more.
LEMMA StrokesGrow ==
    ASSUME NEW text \in Seq(Kinds), NEW n \in 0 .. Len(text)
    PROVE  IsPrefix(Strokes(text)[n], Expected(text))
<1> DEFINE f == Strokes(text)
           Begins(s, t) == Len(s) =< Len(t) /\ \A i \in 1 .. Len(s) : s[i] = t[i]
           S == {m \in 0 .. Len(text) : n =< m => Begins(f[n], f[m])}
<1>1. /\ Len(text) \in Nat
      /\ \A m \in 1 .. Len(text) : f[m] = OneMore(text, m, f[m - 1])
  BY StrokesDef
<1>2. \A m \in 0 .. Len(text) : f[m] \in Seq(Received) /\ Len(f[m]) \in Nat
  BY StrokesType
<1> HIDE DEF f
<1>3. 0 \in S
  BY <1>1, <1>2
<1>4. ASSUME NEW m \in 0 .. Len(text) - 1, m \in S PROVE m + 1 \in S
  <2>1. m + 1 \in 1 .. Len(text) /\ f[m + 1 - 1] = f[m]
    BY <1>1
  <2>2. f[m + 1] = OneMore(text, m + 1, f[m])
    BY <1>1, <2>1
  <2>3. Begins(f[m], f[m + 1])
    <3>1. \A stroke : LET t == Append(f[m], stroke)
                      IN  Len(t) = Len(f[m]) + 1 /\ \A i \in 1 .. Len(f[m]) : t[i] = f[m][i]
      BY <1>2
    <3>2. QED BY <1>2, <2>2, <3>1 DEF OneMore
  <2>4. CASE n = m + 1
    BY <1>2, <2>1, <2>4
  <2>5. CASE n =< m
    <3>1. Begins(f[n], f[m])
      BY <1>4, <2>5
    <3>2. Len(f[n]) \in Nat /\ Len(f[m]) \in Nat /\ Len(f[m + 1]) \in Nat
      BY <1>2, <2>1
    <3>3. ASSUME NEW s, NEW t, NEW u, Begins(s, t), Begins(t, u),
                 Len(s) \in Nat, Len(t) \in Nat, Len(u) \in Nat
          PROVE  Begins(s, u)
      BY <3>3
    <3> HIDE DEF Begins
    <3>4. Begins(f[n], f[m + 1])
      BY <2>3, <3>1, <3>2, <3>3
    <3>5. QED BY <2>1, <3>4
  <2>6. QED BY <2>1, <2>4, <2>5
<1>5. 0 .. Len(text) \subseteq S
  <2> HIDE DEF S
  <2>1. QED BY <1>1, <1>3, <1>4, AllCharacters
<1>6. Begins(f[n], f[Len(text)])
  BY <1>1, <1>5
<1>7. SubSeq(f[n], 1, Len(f[n])) = SubSeq(f[Len(text)], 1, Len(f[n]))
  BY <1>1, <1>2, <1>6
<1>8. QED BY <1>6, <1>7 DEF IsPrefix, Expected, f

---------------------------------------------------------------------------
\* Type correctness.

\* Jobs, and what they are made of, are of their types.
LEMMA JobType ==
    ASSUME NEW pc \in Pcs, NEW text \in Texts \cup {<<>>}
    PROVE  Job(pc, text) \in JobRecord
BY DEF Job, JobRecord, Token

LEMMA TextType ==
    ASSUME job \in JobRecord
    PROVE  job.text \in Seq(Kinds) /\ job.at \in Nat \ {0}
<1>1. job.text \in Texts \cup {<<>>} /\ job.at \in Nat \ {0}
  BY DEF JobRecord
<1>2. <<>> \in Seq(Kinds)
  OBVIOUS
<1>3. QED BY <1>1, <1>2, DeliveryAssumption

\* A job that only goes on to another step is a job.
LEMMA GotoType ==
    ASSUME job \in JobRecord, NEW pc \in Pcs, Goto(pc)
    PROVE  job' \in JobRecord /\ job'.pc = pc /\ job'.token = job.token
BY DEF Goto, JobRecord

\* So is one whose character is done.
LEMMA CharacterType ==
    ASSUME TypeOK, NEW ok \in BOOLEAN, Character(ok)
    PROVE  /\ job' \in JobRecord /\ told' \in {"nothing", "typed", "error"}
           /\ job'.pc \in {"char", "idle"}
<1>1. CASE ok
  <2>1. job \in JobRecord /\ job.at + 1 \in Nat \ {0}
    BY DEF TypeOK, JobRecord
  <2>2. /\ job' = [job EXCEPT !.pc = "char", !.at = job.at + 1, !.ok = TRUE]
        /\ UNCHANGED told
    BY <1>1 DEF Character
  <2>3. job' \in JobRecord /\ job'.pc = "char"
    BY <2>1, <2>2 DEF JobRecord, Pcs
  <2>4. QED BY <2>2, <2>3 DEF TypeOK
<1>2. CASE ~ok
  <2>1. Report("error") BY <1>2 DEF Character
  <2>2. job' \in JobRecord /\ job'.pc = "idle"
    BY <2>1, GotoType DEF TypeOK, Report, Pcs
  <2>3. QED BY <2>1, <2>2 DEF Report
<1>3. QED BY <1>1, <1>2

\* The end of a tap goes on to the release of Shift or is the end of the character.
LEMMA TappedType ==
    ASSUME TypeOK, NEW ok \in BOOLEAN, Tapped(ok)
    PROVE  /\ job' \in JobRecord /\ told' \in {"nothing", "typed", "error"}
           /\ job'.pc \in {"char", "idle", "unshift"}
<1>1. CASE Kind = "capital"
  <2>1. job \in JobRecord /\ told \in {"nothing", "typed", "error"}
    BY DEF TypeOK
  <2>2. job' = [job EXCEPT !.pc = "unshift", !.ok = ok] /\ UNCHANGED told
    BY <1>1 DEF Tapped
  <2>3. job' \in JobRecord /\ job'.pc = "unshift"
    BY <2>1, <2>2 DEF JobRecord, Pcs
  <2>4. QED BY <2>1, <2>2, <2>3
<1>2. CASE Kind # "capital"
  BY <1>2, CharacterType DEF Tapped
<1>3. QED BY <1>1, <1>2

\* The next token is a token.
LEMMA NextToken ==
    ASSUME TypeOK, valid # NoToken
    PROVE  (valid + 1) % Tokens \in Token
<1>1. valid \in Nat /\ Tokens \in Nat \ {0}
  BY DeliveryAssumption DEF TypeOK, Token
<1>2. \A n \in Nat, m \in Nat \ {0} : (n + 1) % m \in 0 .. m - 1
  OBVIOUS
<1>3. QED BY <1>1, <1>2 DEF Token

\* What a start of a session leaves, and what the lack of one.
LEMMA GrantedType ==
    ASSUME TypeOK, NEW token \in Token, Granted(token)
    PROVE  /\ job' \in JobRecord /\ job'.pc = "save"
           /\ token # NoToken => job'.token = token
           /\ valid' = token /\ session' = "live"
           /\ UNCHANGED <<typist, told, clipboardVars>>
<1>1. job' \in JobRecord
  BY DEF Granted, TypeOK, JobRecord, Pcs, ConfigFile
<1>2. job'.pc = "save" /\ (token # NoToken => job'.token = token)
  BY DEF Granted, TypeOK, JobRecord
<1>3. QED BY <1>1, <1>2 DEF Granted

LEMMA RefusedType ==
    ASSUME TypeOK, Refused
    PROVE  /\ job' \in JobRecord /\ job'.pc = "idle"
           /\ told' \in {"typed", "error"}
           /\ clipboard' \in {"nothing", "secret", "other"} /\ timers' \in 0 .. MaxTimers
           /\ uncleared' \in BOOLEAN
           /\ valid' \in {valid, NoToken} /\ UNCHANGED <<typist, session>>
<1>1. PICK what \in {"typed", "error"} : Report(what)
  BY DEF Refused
<1>2. job' \in JobRecord /\ job'.pc = "idle"
  BY <1>1, GotoType DEF TypeOK, Report, Pcs
<1>3. /\ clipboard' \in {"nothing", "secret", "other"} /\ timers' \in 0 .. MaxTimers
      /\ uncleared' \in BOOLEAN
  <2>1. CASE Copy
    <3>1. clipboard' = "secret" /\ timers' \in 0 .. MaxTimers
      BY <2>1, DeliveryAssumption DEF TypeOK, Copy
    <3>2. uncleared' \in BOOLEAN
      BY <2>1, Zenon DEF Copy
    <3>3. QED BY <3>1, <3>2
  <2>2. CASE UNCHANGED clipboardVars
    BY <2>2 DEF TypeOK, clipboardVars
  <2>3. QED BY <2>1, <2>2 DEF Refused
<1>4. QED BY <1>1, <1>2, <1>3 DEF Refused, Report

\* Types hold at the start, and every step keeps them.
LEMMA TypeInit ==
    Init => TypeOK
<1> SUFFICES ASSUME Init PROVE TypeOK
  OBVIOUS
<1>1. job \in JobRecord
  BY JobType DEF Init, Pcs
<1>2. typed \in Seq([kind : Kinds, shift : BOOLEAN]) /\ timers \in 0 .. MaxTimers
  BY DeliveryAssumption DEF Init
<1>3. file \in ConfigFile /\ config \in ConfigFile /\ valid \in Token
  BY DEF Init, ConfigFile, Token
<1>4. QED BY <1>1, <1>2, <1>3 DEF Init, TypeOK

\* One step per action.
LEMMA TypeStep ==
    ASSUME TypeOK, CharacterInv, Next
    PROVE  TypeOK'
<1> USE DEF TypeOK
<1> DEFINE Struck == [kind : Kinds, shift : BOOLEAN]
<1>1. CASE Use
  <2>1. PICK text \in Texts : job' = Job(IF typist THEN "wait" ELSE "connect", text)
    BY <1>1 DEF Use
  <2>2. job' \in JobRecord
    BY <2>1, JobType DEF Pcs
  <2>3. typed' \in Seq(Struck)
    BY <1>1 DEF Use
  <2>4. QED BY <1>1, <2>2, <2>3 DEF Use, configVars, portalVars, clipboardVars
<1>2. CASE Connect
  <2>1. ASSUME valid # NoToken, Granted((valid + 1) % Tokens) PROVE TypeOK'
    BY <1>2, <2>1, NextToken, GrantedType DEF Connect, configVars, keyVars, clipboardVars
  <2>2. ASSUME Goto("consent"), UNCHANGED <<portalVars, told, clipboardVars>> PROVE TypeOK'
    BY <1>2, <2>2, GotoType DEF Connect, Pcs, configVars, portalVars, keyVars, clipboardVars
  <2>3. CASE Refused
    BY <1>2, <2>3, RefusedType DEF Connect, Token, configVars, keyVars
  <2>4. QED BY <1>2, <2>1, <2>2, <2>3 DEF Connect
<1>3. CASE Consent
  <2>1. ASSUME NEW token \in Token, Granted(token) PROVE TypeOK'
    BY <1>3, <2>1, GrantedType DEF Consent, configVars, keyVars, clipboardVars
  <2>2. CASE Refused
    BY <1>3, <2>2, RefusedType DEF Consent, Token, configVars, keyVars
  <2>3. QED BY <1>3, <2>1, <2>2 DEF Consent
<1>4. CASE SaveToken
  <2>1. job' \in JobRecord
    BY <1>4, GotoType DEF SaveToken, Pcs
  <2>2. NewToken \subseteq Token
    BY DEF NewToken, JobRecord
  <2>3. file' \in ConfigFile /\ excused' \in BOOLEAN
    BY <1>4, <2>2 DEF SaveToken, ConfigFile
  <2>4. QED BY <1>4, <2>1, <2>3 DEF SaveToken, keyVars, clipboardVars
<1>5. CASE Wait \/ Skip
  <2>1. job' \in JobRecord
    <3>1. CASE Wait
      BY <3>1, GotoType DEF Wait, Pcs
    <3>2. CASE Skip
      BY <3>2 DEF Skip, JobRecord
    <3>3. QED BY <1>5, <3>1, <3>2
  <2>2. QED BY <1>5, <2>1 DEF Wait, Skip, configVars, portalVars, keyVars, clipboardVars
<1>6. CASE Finish \/ NotText
  <2>1. job' \in JobRecord
    BY <1>6, GotoType DEF Finish, NotText, Report, Pcs
  <2>2. QED BY <1>6, <2>1
            DEF Finish, NotText, Report, configVars, portalVars, keyVars, clipboardVars
<1>7. CASE PressShift
  <2>1. job' \in JobRecord
    BY <1>7, GotoType DEF PressShift, Report, Pcs
  <2>2. held' \subseteq {"shift", "key"} /\ UNCHANGED lost
    BY <1>7 DEF PressShift, Presses
  <2>3. told' \in {"nothing", "typed", "error"}
    BY <1>7 DEF PressShift, Report
  <2>4. QED BY <1>7, <2>1, <2>2, <2>3 DEF PressShift, configVars, portalVars, clipboardVars
<1>8. CASE Press
  <2>1. CASE Tapped(FALSE) /\ UNCHANGED keyVars
    BY <1>8, <2>1, TappedType DEF Press, configVars, portalVars, keyVars, clipboardVars
  <2>2. CASE /\ Presses("key")
             /\ typed' = Append(typed, [kind |-> Kind, shift |-> "shift" \in held])
             /\ Goto("release") /\ UNCHANGED told
    <3>1. job' \in JobRecord
      BY <2>2, GotoType DEF Pcs
    <3>2. Kind \in Kinds
      <4>1. job.text \in Seq(Kinds) /\ job.at \in Nat \ {0}
        BY TextType
      <4>2. job.at \in DOMAIN job.text
        BY <1>8, <4>1 DEF Press, CharacterInv
      <4>3. QED BY <4>1, <4>2 DEF Kind
    <3>3. typed' \in Seq(Struck)
      BY <2>2, <3>2
    <3>4. held' \subseteq {"shift", "key"} /\ UNCHANGED lost
      BY <2>2 DEF Presses
    <3>5. QED BY <1>8, <2>2, <3>1, <3>3, <3>4 DEF Press, configVars, portalVars, clipboardVars
  <2>3. QED BY <1>8, <2>1, <2>2 DEF Press
<1>9. CASE Release
  <2>1. \E ok \in BOOLEAN : Tapped(ok)
    BY <1>9 DEF Release
  <2>2. held' \subseteq {"shift", "key"} /\ lost' \subseteq {"shift", "key"}
    BY <1>9 DEF Release, Releases, Sticks
  <2>3. QED BY <1>9, <2>1, <2>2, TappedType DEF Release, configVars, portalVars, clipboardVars
<1>10. CASE ReleaseShift
  <2>1. \E ok \in BOOLEAN : Character(ok)
    BY <1>10 DEF ReleaseShift, JobRecord
  <2>2. held' \subseteq {"shift", "key"} /\ lost' \subseteq {"shift", "key"}
    BY <1>10 DEF ReleaseShift, Releases, Sticks
  <2>3. QED BY <1>10, <2>1, <2>2, CharacterType
            DEF ReleaseShift, configVars, portalVars, clipboardVars
<1>11. CASE Surroundings
  <2>1. CASE SessionEnds \/ OtherCopies
    <3>1. CASE SessionEnds
      BY <3>1 DEF SessionEnds, Token, configVars, keyVars, clipboardVars
    <3>2. CASE OtherCopies
      BY <3>2 DEF OtherCopies, configVars, portalVars, keyVars
    <3>3. QED BY <2>1, <3>1, <3>2
  <2>2. CASE TimerFires
    <3>1. timers' \in 0 .. MaxTimers
      BY <2>2, DeliveryAssumption DEF TimerFires
    <3>2. clipboard' \in {"nothing", "secret", "other"} /\ uncleared' \in BOOLEAN
      BY <2>2 DEF TimerFires
    <3>3. QED BY <2>2, <3>1, <3>2 DEF TimerFires, configVars, portalVars, keyVars
  <2>3. CASE EditConfig
    <3>1. file' \in ConfigFile
      BY <2>3 DEF EditConfig, ConfigFile
    <3>2. QED BY <2>3, <3>1 DEF EditConfig, portalVars, keyVars, clipboardVars
  <2>4. CASE Stops
    <3>1. job' \in JobRecord
      BY <2>4, JobType DEF Stops, Pcs
    <3>2. typed' \in Seq(Struck) /\ timers' \in 0 .. MaxTimers
      BY <2>4, DeliveryAssumption DEF Stops
    <3>3. clipboard' \in {"nothing", "secret", "other"} /\ excused' \in BOOLEAN
      BY <2>4 DEF Stops
    <3>4. QED BY <2>4, <3>1, <3>2, <3>3 DEF Stops
  <2>5. CASE Starts
    BY <2>5, GotoType DEF Starts, Pcs, portalVars, keyVars, clipboardVars
  <2>6. QED BY <1>11, <2>1, <2>2, <2>3, <2>4, <2>5 DEF Surroundings
<1>12. QED
  BY <1>1, <1>2, <1>3, <1>4, <1>5, <1>6, <1>7, <1>8, <1>9, <1>10, <1>11 DEF Next, Type

---------------------------------------------------------------------------
\* Nothing but PressShift leads to a press.
LEMMA CharacterStep ==
    ASSUME TypeOK, CharacterInv, Next
    PROVE  CharacterInv'
<1>0. job \in JobRecord /\ job.text \in Seq(Kinds)
  BY TextType DEF TypeOK
<1>1. ASSUME job'.pc # "press" PROVE CharacterInv'
  BY <1>1 DEF CharacterInv, At
<1>2. ASSUME UNCHANGED job PROVE CharacterInv'
  BY <1>2 DEF CharacterInv, At
<1>3. CASE Use
  BY <1>1, <1>3 DEF Use, Job
<1>4. CASE Connect \/ Consent
  <2>1. ASSUME NEW token \in Token, Granted(token) PROVE job'.pc = "save"
    BY <2>1, GrantedType
  <2>2. valid # NoToken => (valid + 1) % Tokens \in Token
    BY NextToken
  <2>3. ASSUME Refused PROVE job'.pc = "idle"
    BY <2>3, RefusedType
  <2>4. ASSUME Goto("consent") PROVE job'.pc = "consent"
    BY <2>4, GotoType, <1>0 DEF Pcs
  <2>5. job'.pc \in {"save", "idle", "consent"}
    BY <1>4, <2>1, <2>2, <2>3, <2>4 DEF Connect, Consent
  <2>6. QED BY <1>1, <2>5
<1>5. CASE SaveToken \/ NotText \/ Wait \/ Finish
  <2>1. job'.pc \in {"wait", "char", "idle"}
    BY <1>5, GotoType, <1>0 DEF SaveToken, NotText, Wait, Finish, Report, Pcs
  <2>2. QED BY <1>1, <2>1
<1>6. CASE Skip
  BY <1>0, <1>1, <1>6 DEF Skip, At, JobRecord
<1>7. CASE PressShift
  <2>1. CASE Report("error")
    BY <1>0, <1>1, <2>1, GotoType DEF Report, Pcs
  <2>2. CASE Goto("press")
    <3>1. job'.text = job.text /\ job'.at = job.at
      BY <1>0, <2>2 DEF Goto, JobRecord
    <3>2. job.at \in DOMAIN job.text
      BY <1>0, <1>7 DEF PressShift, JobRecord
    <3>3. QED BY <3>1, <3>2 DEF CharacterInv
  <2>3. QED BY <1>7, <2>1, <2>2 DEF PressShift
<1>8. CASE Press \/ Release \/ ReleaseShift
  <2>1. ASSUME NEW ok \in BOOLEAN, Tapped(ok) \/ Character(ok) PROVE job'.pc # "press"
    BY <2>1, TappedType, CharacterType
  <2>2. ASSUME Goto("release") PROVE job'.pc = "release"
    BY <2>2, <1>0, GotoType DEF Pcs
  <2>3. job.ok \in BOOLEAN
    BY <1>0 DEF JobRecord
  <2>4. QED BY <1>1, <1>8, <2>1, <2>2, <2>3 DEF Press, Release, ReleaseShift
<1>9. CASE Surroundings
  <2>1. CASE Stops
    BY <1>1, <2>1 DEF Stops, Job
  <2>2. CASE Starts
    BY <1>0, <1>1, <2>2, GotoType DEF Starts, Pcs
  <2>3. CASE SessionEnds \/ OtherCopies \/ TimerFires \/ EditConfig
    BY <1>2, <2>3 DEF SessionEnds, OtherCopies, TimerFires, EditConfig
  <2>4. QED BY <1>9, <2>1, <2>2, <2>3 DEF Surroundings
<1>10. QED
  BY <1>3, <1>4, <1>5, <1>6, <1>7, <1>8, <1>9 DEF Next, Type

\* The token, step by step: only the portal, the save and a start touch it.
LEMMA TokenStep ==
    ASSUME TypeOK, TokenInv, Next
    PROVE  TokenInv'
<1> USE DEF TokenInv, ConsentIsRemembered, At
<1>0. job \in JobRecord /\ typist \in BOOLEAN /\ excused \in BOOLEAN
  BY DEF TypeOK
<1>1. ASSUME job'.pc \notin {"connect", "consent", "save", "down"}, job.pc \notin {"save", "down"},
             file'.token = file.token, UNCHANGED <<config, excused, valid, typist>>
      PROVE  TokenInv'
  BY <1>1
<1>2. ASSUME UNCHANGED job, file'.token = file.token, UNCHANGED <<config, excused, typist>>,
             valid' \in {valid, NoToken}
      PROVE  TokenInv'
  BY <1>2
<1>3. CASE Use
  BY <1>0, <1>3 DEF Use, Job, configVars, portalVars
<1>4. ASSUME NEW token \in Token, Granted(token), UNCHANGED configVars,
             job.pc \in {"connect", "consent"}
      PROVE  TokenInv'
  BY <1>4, GrantedType DEF configVars
<1>5. ASSUME Refused, UNCHANGED configVars, job.pc \in {"connect", "consent"}
      PROVE  TokenInv'
  BY <1>5, RefusedType DEF configVars
<1>6. CASE Connect
  <2>1. valid # NoToken => (valid + 1) % Tokens \in Token
    BY NextToken
  <2>2. ASSUME Goto("consent"), UNCHANGED portalVars PROVE TokenInv'
    <3>1. job'.pc = "consent"
      BY <1>0, <2>2, GotoType DEF Pcs
    <3>2. QED BY <1>6, <2>2, <3>1 DEF Connect, configVars, portalVars
  <2>3. QED BY <1>4, <1>5, <1>6, <2>1, <2>2 DEF Connect
<1>7. CASE Consent
  BY <1>4, <1>5, <1>7 DEF Consent
<1>8. CASE SaveToken
  <2>1. job'.pc = "wait" /\ typist' = TRUE /\ UNCHANGED <<config, valid>>
    BY <1>0, <1>8, GotoType DEF SaveToken, Pcs
  <2>2. CASE \E token \in NewToken : file' = [config EXCEPT !.token = token] /\ excused' = FALSE
    <3>1. file'.token = job.token
      BY <2>2 DEF NewToken, TypeOK, ConfigFile
    <3>2. QED BY <1>8, <2>1, <3>1 DEF SaveToken
  <2>3. CASE NewToken = {} /\ UNCHANGED <<file, excused>>
    <3>1. job.token \in {NoToken, config.token}
      BY <2>3 DEF NewToken
    <3>2. QED BY <1>8, <2>1, <2>3, <3>1 DEF SaveToken
  <2>4. CASE excused' = TRUE /\ UNCHANGED file
    BY <2>1, <2>4
  <2>5. QED BY <1>8, <2>2, <2>3, <2>4 DEF SaveToken
<1>9. CASE Type
  <2>1. job.pc \in {"wait", "char", "press", "release", "unshift"}
    BY <1>9 DEF Type, NotText, Wait, Skip, Finish, PressShift, Press, Release, ReleaseShift
  <2>2. UNCHANGED <<configVars, portalVars>>
    BY <1>9 DEF Type, NotText, Wait, Skip, Finish, PressShift, Press, Release, ReleaseShift
  <2>3. ASSUME NEW pc \in Pcs, Goto(pc) PROVE job'.pc = pc
    BY <1>0, <2>3, GotoType
  <2>4. ASSUME NEW ok \in BOOLEAN, Tapped(ok) \/ Character(ok)
        PROVE  job'.pc \in {"char", "idle", "unshift"}
    BY <2>4, TappedType, CharacterType
  <2>5. job'.pc \in {"char", "idle", "press", "release", "unshift"}
    <3>1. CASE NotText \/ Wait \/ Finish \/ PressShift
      BY <2>3, <3>1 DEF NotText, Wait, Finish, PressShift, Report, Pcs
    <3>2. CASE Skip
      BY <1>0, <3>2 DEF Skip, JobRecord
    <3>3. CASE Press \/ Release
      BY <2>3, <2>4, <3>3 DEF Press, Release, Pcs
    <3>4. CASE ReleaseShift
      BY <1>0, <2>4, <3>4 DEF ReleaseShift, JobRecord
    <3>5. QED BY <1>9, <3>1, <3>2, <3>3, <3>4 DEF Type
  <2>6. QED BY <1>1, <2>1, <2>2, <2>5 DEF configVars, portalVars
<1>10. CASE Surroundings
  <2>1. CASE SessionEnds
    BY <1>2, <2>1 DEF SessionEnds, configVars
  <2>2. CASE OtherCopies \/ TimerFires
    BY <1>2, <2>2 DEF OtherCopies, TimerFires, configVars, portalVars
  <2>3. CASE EditConfig
    <3>1. file'.token = file.token
      BY <2>3 DEF EditConfig, TypeOK, ConfigFile
    <3>2. QED BY <1>2, <2>3, <3>1 DEF EditConfig, portalVars
  <2>4. CASE Stops
    BY <1>0, <2>4 DEF Stops, Job
  <2>5. CASE Starts
    <3>1. job'.pc = "idle"
      BY <1>0, <2>5, GotoType DEF Starts, Pcs
    <3>2. QED BY <2>5, <3>1 DEF Starts, portalVars
  <2>6. QED BY <1>10, <2>1, <2>2, <2>3, <2>4, <2>5 DEF Surroundings
<1>11. QED
  BY <1>3, <1>6, <1>7, <1>8, <1>9, <1>10 DEF Next

---------------------------------------------------------------------------
\* What arrives, step by step.

\* What a step of the delivery leaves of its job, by how it ends.
LEMMA GotoKeeps ==
    ASSUME job \in JobRecord, NEW pc, Goto(pc)
    PROVE  /\ job'.pc = pc
           /\ job'.text = job.text /\ job'.at = job.at /\ job'.ok = job.ok
BY DEF Goto, JobRecord

LEMMA CharacterKeeps ==
    ASSUME job \in JobRecord, NEW ok \in BOOLEAN, Character(ok)
    PROVE  /\ job'.text = job.text
           /\ ok => job'.pc = "char" /\ job'.at = job.at + 1 /\ told' = told
           /\ ~ok => job'.pc = "idle" /\ job'.at = job.at /\ told' = "error"
BY DEF Character, Report, Goto, JobRecord

LEMMA TappedKeeps ==
    ASSUME job \in JobRecord, NEW ok \in BOOLEAN, Tapped(ok)
    PROVE  /\ job'.text = job.text
           /\ Kind = "capital" =>
                 job'.pc = "unshift" /\ job'.at = job.at /\ job'.ok = ok /\ told' = told
           /\ Kind # "capital" /\ ok =>
                 job'.pc = "char" /\ job'.at = job.at + 1 /\ told' = told
           /\ Kind # "capital" /\ ~ok =>
                 job'.pc = "idle" /\ job'.at = job.at /\ told' = "error"
<1>1. CASE Kind = "capital"
  BY <1>1 DEF Tapped, JobRecord
<1>2. CASE Kind # "capital"
  BY <1>2, CharacterKeeps DEF Tapped
<1>3. QED BY <1>1, <1>2

\* A step that types nothing, before the first character or after the last.
LEMMA Between ==
    ASSUME job \in JobRecord, ShiftInv, ArrivedInv, UNCHANGED keyVars,
           job'.text = job.text, job'.at = job.at,
           job.pc \notin {"press", "release", "unshift"},
           job'.pc \notin {"press", "release", "unshift"},
           job.pc = "idle" => job'.pc = "idle",
           told' = "typed" =>
               /\ job'.pc = "idle"
               /\ typist' /\ lost = {} => typed = Expected(job.text)
    PROVE  ShiftInv' /\ ArrivedInv'
<1>1. Arrived = job.at - 1 /\ Arrived' = job.at - 1
  BY DEF Arrived, At
<1>2. QED BY <1>1 DEF ShiftInv, ArrivedInv, At, keyVars

\* The steps of a delivery around its typing.
LEMMA AroundStep ==
    ASSUME TypeOK, TokenInv, ShiftInv, ArrivedInv,
           Use \/ Connect \/ Consent \/ SaveToken \/ NotText \/ Wait \/ Finish
    PROVE  ShiftInv' /\ ArrivedInv'
<1>1. /\ job \in JobRecord /\ job.text \in Seq(Kinds) /\ Len(job.text) \in Nat
      /\ job.at \in Nat \ {0} /\ typist \in BOOLEAN
  BY TextType DEF TypeOK
<1>2. told = "typed" => job.pc = "idle"
  BY DEF ArrivedInv, At
<1>3. CASE Use
  <2>1. PICK text \in Texts : job' = Job(IF typist THEN "wait" ELSE "connect", text)
    BY <1>3 DEF Use
  <2>2. text \in Seq(Kinds) /\ Len(text) \in Nat
    BY DeliveryAssumption
  <2>3. /\ job'.text = text /\ job'.at = 1 /\ job'.pc \in {"wait", "connect"}
        /\ typed' = <<>> /\ told' = "nothing" /\ held' = held /\ lost' = lost \cap held
        /\ job.pc = "idle"
    BY <1>3, <2>1 DEF Use, Job, At
  <2>4. Strokes(text)[0] = <<>>
    BY <2>2, StrokesDef
  <2>5. ShiftInv'
    BY <2>3 DEF ShiftInv, At
  <2>6. Arrived' = 0
    BY <2>3 DEF Arrived, At
  <2>7. ArrivedInv'
    BY <2>2, <2>3, <2>4, <2>6 DEF ArrivedInv, At
  <2>8. QED BY <2>5, <2>7
<1>4. CASE Connect \/ Consent
  <2>1. UNCHANGED keyVars /\ job.pc \in {"connect", "consent"} /\ ~typist /\ UNCHANGED typist
    BY <1>4 DEF Connect, Consent, At, TokenInv, Granted, Refused, portalVars
  <2>2. ASSUME NEW token, Granted(token)
        PROVE  job'.text = job.text /\ job'.at = job.at /\ job'.pc = "save" /\ told' = told
    BY <1>1, <2>2 DEF Granted, JobRecord
  <2>3. ASSUME Refused
        PROVE  job'.text = job.text /\ job'.at = job.at /\ job'.pc = "idle"
    <3>1. Goto("idle")
      BY <2>3 DEF Refused, Report
    <3>2. QED BY <1>1, <3>1, GotoKeeps
  <2>4. ASSUME Goto("consent"), UNCHANGED told
        PROVE  job'.text = job.text /\ job'.at = job.at /\ job'.pc = "consent" /\ told' = told
    BY <1>1, <2>4, GotoKeeps
  <2>5. /\ job'.text = job.text /\ job'.at = job.at
        /\ \/ job'.pc \in {"save", "consent"} /\ told' = told
           \/ job'.pc = "idle"
    BY <1>4, <2>2, <2>3, <2>4 DEF Connect, Consent
  <2>6. QED BY <1>1, <1>2, <2>1, <2>5, Between
<1>5. CASE SaveToken \/ Wait
  <2>1. \/ job.pc = "save" /\ Goto("wait")
        \/ job.pc = "wait" /\ Goto("char")
    BY <1>5 DEF SaveToken, Wait, At
  <2>2. /\ job'.text = job.text /\ job'.at = job.at
        /\ job.pc \in {"save", "wait"} /\ job'.pc \in {"wait", "char"}
    BY <1>1, <2>1, GotoKeeps
  <2>3. UNCHANGED <<keyVars, told>>
    BY <1>5 DEF SaveToken, Wait
  <2>4. QED BY <1>1, <1>2, <2>2, <2>3, Between
<1>6. CASE Finish
  <2>1. job.pc = "char" /\ Goto("idle") /\ UNCHANGED keyVars /\ job.at > Len(job.text)
    BY <1>6 DEF Finish, Report, At, keyVars
  <2>2. job'.text = job.text /\ job'.at = job.at /\ job'.pc = "idle"
    BY <1>1, <2>1, GotoKeeps
  <2>3. job.at - 1 = Len(job.text)
    BY <1>1, <2>1 DEF ArrivedInv
  <2>4. lost = {} => typed = Expected(job.text)
    BY <2>1, <2>3 DEF ArrivedInv, Arrived, At, Expected
  <2>5. QED BY <1>1, <2>1, <2>2, <2>4, Between
<1>7. CASE NotText
  <2>1. job.pc = "wait" /\ Goto("idle") /\ UNCHANGED keyVars /\ told' = "error"
    BY <1>7 DEF NotText, Report, At
  <2>2. job'.text = job.text /\ job'.at = job.at /\ job'.pc = "idle"
    BY <1>1, <2>1, GotoKeeps
  <2>3. QED BY <1>1, <2>1, <2>2, Between
<1>8. QED BY <1>3, <1>4, <1>5, <1>6, <1>7

\* The calls that type a character.
LEMMA TypingStep ==
    ASSUME TypeOK, ShiftInv, ArrivedInv,
           Skip \/ PressShift \/ Press \/ Release \/ ReleaseShift
    PROVE  ShiftInv' /\ ArrivedInv'
<1> DEFINE f == Strokes(job.text)
<1>1. /\ job \in JobRecord /\ job.text \in Seq(Kinds) /\ Len(job.text) \in Nat
      /\ job.at \in Nat \ {0} /\ job.ok \in BOOLEAN
  BY TextType DEF TypeOK, JobRecord
<1>2. \A n \in 1 .. Len(job.text) : f[n] = OneMore(job.text, n, f[n - 1])
  BY <1>1, StrokesDef
<1>3. /\ job.at \in 1 .. Len(job.text) /\ DOMAIN job.text = 1 .. Len(job.text)
      /\ told # "typed"
  <2>1. \/ job.pc = "char" /\ job.at =< Len(job.text)
        \/ job.pc \in {"press", "release", "unshift"}
    BY DEF At, Skip, PressShift, Press, Release, ReleaseShift
  <2>2. QED BY <1>1, <2>1 DEF ArrivedInv, At
<1>4. f[job.at] = IF Kind = "control" THEN f[job.at - 1] ELSE Append(f[job.at - 1], Stroke(Kind))
  BY <1>2, <1>3 DEF OneMore, Kind
<1> HIDE DEF f
<1>5. lost = {} => typed = IF job.pc = "release" \/ (job.pc = "unshift" /\ job.ok)
                           THEN f[job.at] ELSE f[job.at - 1]
  BY DEF ArrivedInv, Arrived, At, f, Skip, PressShift, Press, Release, ReleaseShift
\* What has to be shown of a step.
<1>6. ASSUME job'.text = job.text,
             \/ job'.at = job.at
             \/ job'.at = job.at + 1 /\ job'.pc = "char",
             told' # "typed",
             lost' = {} =>
                 /\ lost = {}
                 /\ typed' = IF job'.pc = "release" \/ (job'.pc = "unshift" /\ job'.ok)
                             THEN f[job'.at] ELSE f[job'.at - 1]
      PROVE  ArrivedInv'
  <2>1. job'.at - 1 \in 0 .. Len(job.text)
    BY <1>1, <1>3, <1>6
  <2>2. job'.pc \in {"press", "release", "unshift"} => job'.at \in DOMAIN job'.text
    BY <1>3, <1>6
  <2>3. Arrived' \in 0 .. Len(job.text)
    BY <1>1, <1>3, <1>6, <2>1 DEF Arrived, At
  <2>4. lost' = {} => typed' = Strokes(job'.text)[Arrived']
    BY <1>6 DEF Arrived, At, f
  <2>5. QED BY <1>6, <2>1, <2>2, <2>3, <2>4 DEF ArrivedInv
<1>7. CASE Skip
  <2>1. /\ job.pc = "char" /\ Kind = "control" /\ UNCHANGED keyVars /\ told' = told
        /\ job'.text = job.text /\ job'.at = job.at + 1 /\ job'.pc = "char"
    BY <1>1, <1>7 DEF Skip, At, JobRecord
  <2>2. ArrivedInv'
    BY <1>1, <1>3, <1>4, <1>5, <1>6, <2>1 DEF keyVars
  <2>3. ShiftInv'
    BY <2>1 DEF ShiftInv, At, keyVars
  <2>4. QED BY <2>2, <2>3
<1>8. CASE PressShift
  <2>1. /\ job.pc = "char" /\ Kind = "capital" /\ typed' = typed /\ lost' = lost
        /\ \/ Goto("press") /\ held' = held \cup {"shift"} /\ told' = told
           \/ Goto("idle") /\ held' = held /\ told' = "error"
    BY <1>8 DEF PressShift, Presses, Report, At
  <2>2. /\ job'.text = job.text /\ job'.at = job.at /\ Kind' = Kind
        /\ \/ job'.pc = "press" /\ held' = held \cup {"shift"}
           \/ job'.pc = "idle" /\ held' = held
        /\ told' # "typed"
    BY <1>1, <1>3, <2>1, GotoKeeps DEF Kind
  <2>3. ArrivedInv'
    BY <1>5, <1>6, <2>1, <2>2
  <2>4. ShiftInv'
    BY <2>1, <2>2 DEF ShiftInv, At
  <2>5. QED BY <2>3, <2>4
<1>9. CASE Press
  <2>1. job.pc = "press" \/ (job.pc = "char" /\ Kind = "plain")
    BY <1>9 DEF Press, At
  <2>2. CASE /\ held' = held \cup {"key"} /\ lost' = lost /\ told' = told
             /\ typed' = Append(typed, [kind |-> Kind, shift |-> "shift" \in held])
             /\ Goto("release")
    <3>1. job'.text = job.text /\ job'.at = job.at /\ job'.pc = "release" /\ Kind' = Kind
      BY <1>1, <2>2, GotoKeeps DEF Kind
    <3>2. Kind # "control"
      BY <2>1 DEF ShiftInv, At
    <3>3. lost = {} => ("shift" \in held <=> Kind = "capital")
      BY <2>1 DEF ShiftInv, At
    <3>4. lost = {} => [kind |-> Kind, shift |-> "shift" \in held] = Stroke(Kind)
      BY <3>3 DEF Stroke
    <3>5. lost = {} => typed' = f[job.at]
      BY <1>4, <1>5, <2>1, <2>2, <3>2, <3>4
    <3>6. ArrivedInv'
      BY <1>3, <1>6, <2>2, <3>1, <3>5
    <3>7. ShiftInv'
      BY <2>1, <2>2, <3>1, <3>2 DEF ShiftInv, At
    <3>8. QED BY <3>6, <3>7
  <2>3. CASE Tapped(FALSE) /\ UNCHANGED keyVars
    <3>1. /\ job'.text = job.text /\ job'.at = job.at /\ Kind' = Kind /\ told' # "typed"
          /\ \/ Kind = "capital" /\ job'.pc = "unshift" /\ job'.ok = FALSE
             \/ Kind # "capital" /\ job'.pc = "idle"
      BY <1>1, <1>3, <2>3, TappedKeeps DEF Kind
    <3>2. ArrivedInv'
      BY <1>5, <1>6, <2>1, <2>3, <3>1 DEF keyVars
    <3>3. ShiftInv'
      BY <2>1, <2>3, <3>1 DEF ShiftInv, At, keyVars
    <3>4. QED BY <3>2, <3>3
  <2>4. QED BY <1>9, <2>2, <2>3 DEF Press, Presses
<1>10. CASE Release
  <2>1. /\ job.pc = "release" /\ typed' = typed
        /\ \/ held' = held \ {"key"} /\ lost' = lost /\ Tapped(TRUE)
           \/ held' = held /\ lost' = lost \cup {"key"} /\ Tapped(FALSE)
    BY <1>10 DEF Release, Releases, Sticks, At
  <2>2. /\ job'.text = job.text /\ told' # "typed"
        /\ Kind = "capital" => job'.at = job.at /\ Kind' = Kind /\ job'.pc = "unshift"
        /\ Kind # "capital" => \/ job'.pc = "char" /\ job'.at = job.at + 1
                               \/ job'.pc = "idle" /\ job'.at = job.at
        /\ lost' = {} => /\ lost = {}
                         /\ Kind = "capital" => job'.ok
                         /\ Kind # "capital" => job'.pc = "char" /\ job'.at = job.at + 1
    BY <1>1, <1>3, <2>1, TappedKeeps DEF Kind
  <2>3. ArrivedInv'
    BY <1>1, <1>5, <1>6, <2>1, <2>2
  <2>4. ShiftInv'
    BY <2>1, <2>2 DEF ShiftInv, At
  <2>5. QED BY <2>3, <2>4
<1>11. CASE ReleaseShift
  <2>1. /\ job.pc = "unshift" /\ typed' = typed
        /\ \/ held' = held \ {"shift"} /\ lost' = lost /\ Character(job.ok)
           \/ held' = held /\ lost' = lost \cup {"shift"} /\ Character(FALSE)
    BY <1>11 DEF ReleaseShift, Releases, Sticks, At
  <2>2. /\ job'.text = job.text /\ told' # "typed"
        /\ \/ job'.pc = "char" /\ job'.at = job.at + 1
           \/ job'.pc = "idle" /\ job'.at = job.at
        /\ lost' = {} => lost = {} /\ (job'.pc = "char" <=> job.ok)
    <3>1. CASE lost' = lost /\ Character(job.ok)
      BY <1>1, <1>3, <3>1, CharacterKeeps
    <3>2. CASE lost' = lost \cup {"shift"} /\ Character(FALSE)
      BY <1>1, <1>3, <3>2, CharacterKeeps
    <3>3. QED BY <2>1, <3>1, <3>2
  <2>3. ArrivedInv'
    BY <1>1, <1>5, <1>6, <2>1, <2>2
  <2>4. ShiftInv'
    BY <2>1, <2>2 DEF ShiftInv, At
  <2>5. QED BY <2>3, <2>4
<1>12. QED BY <1>7, <1>8, <1>9, <1>10, <1>11

\* What happens beside the delivery, and the end and the start of the daemon.
LEMMA BesideStep ==
    ASSUME TypeOK, ShiftInv, ArrivedInv, Surroundings
    PROVE  ShiftInv' /\ ArrivedInv'
<1>1. job \in JobRecord
  BY DEF TypeOK
<1>2. CASE SessionEnds \/ OtherCopies \/ TimerFires \/ EditConfig
  <2>1. UNCHANGED <<job, held, lost, typed, told, typist>>
    BY <1>2 DEF SessionEnds, OtherCopies, TimerFires, EditConfig, keyVars, portalVars
  <2>2. QED BY <2>1 DEF ShiftInv, ArrivedInv, Arrived, At, Kind
<1>3. CASE Stops
  <2>1. /\ job'.pc = "down" /\ job'.text = <<>> /\ job'.at = 1
        /\ held' = {} /\ lost' = {} /\ typed' = <<>> /\ told' = "nothing"
    BY <1>3 DEF Stops, Job
  <2>2. Strokes(<<>>)[0] = <<>>
    BY StrokesDef
  <2>3. Arrived' = 0
    BY <2>1 DEF Arrived, At
  <2>4. QED BY <2>1, <2>2, <2>3 DEF ShiftInv, ArrivedInv, At
<1>4. CASE Starts
  <2>1. job.pc = "down" /\ Goto("idle") /\ UNCHANGED keyVars /\ told' = told
    BY <1>4 DEF Starts, At
  <2>2. job'.text = job.text /\ job'.at = job.at /\ job'.pc = "idle"
    BY <1>1, <2>1, GotoKeeps
  <2>3. told # "typed"
    BY <2>1 DEF ArrivedInv, At
  <2>4. QED BY <1>1, <2>1, <2>2, <2>3, Between
<1>5. QED BY <1>2, <1>3, <1>4 DEF Surroundings

---------------------------------------------------------------------------
\* What holds in every reachable state.
THEOREM DeliveryInductive == Spec => []DeliveryInv
<1>1. Init => DeliveryInv
  <2>1. Strokes(<<>>)[0] = <<>>
    BY StrokesDef
  <2>2. Init => ShiftInv /\ ArrivedInv
    BY <2>1 DEF Init, ShiftInv, ArrivedInv, Arrived, At, Job
  <2>3. QED BY TypeInit, <2>2
            DEF Init, DeliveryInv, CharacterInv, TokenInv, ConsentIsRemembered, At, Job
<1>2. DeliveryInv /\ [Next]_vars => DeliveryInv'
  <2> SUFFICES ASSUME DeliveryInv, [Next]_vars PROVE DeliveryInv'
    OBVIOUS
  <2>1. CASE Next
    <3>1. TypeOK' /\ CharacterInv' /\ TokenInv'
      BY <2>1, TypeStep, CharacterStep, TokenStep DEF DeliveryInv
    <3>2. ShiftInv' /\ ArrivedInv'
      BY <2>1, AroundStep, TypingStep, BesideStep DEF DeliveryInv, Next, Type
    <3>3. QED BY <3>1, <3>2 DEF DeliveryInv
  <2>2. CASE UNCHANGED vars
    BY <2>2 DEF DeliveryInv, TypeOK, CharacterInv, TokenInv, ConsentIsRemembered, ShiftInv,
                ArrivedInv, Arrived, Kind, At,
                vars, configVars, portalVars, keyVars, clipboardVars
  <2>3. QED BY <2>1, <2>2
<1>3. QED BY <1>1, <1>2, PTL DEF Spec

\* Type correctness (daemon.rs deliver, paste.rs) for any secrets, tokens and timers.
THEOREM DeliveryTypeCorrect == Spec => []TypeOK
<1>1. DeliveryInv => TypeOK
  BY DEF DeliveryInv
<1>2. QED BY <1>1, DeliveryInductive, PTL

\* config.json has the token that the portal will take, unless it was lost between the
\* grant and the save (daemon.rs 632-648), however many tokens there are.
THEOREM ConsentIsKept == Spec => []ConsentIsRemembered
<1>1. DeliveryInv => ConsentIsRemembered
  BY DEF DeliveryInv, TokenInv
<1>2. QED BY <1>1, DeliveryInductive, PTL

\* Unless a release could not be sent, capitals and nothing else arrive under Shift, in
\* the order of the secret, and what is reported as typed through the portal has arrived
\* whole (paste.rs 167-261), for secrets of any length and however deliveries follow each
\* other, fail, or end with the daemon.
THEOREM ArrivesAsWritten == Spec => []AsWritten
<1>1. DeliveryInv => AsWritten
  <2> SUFFICES ASSUME DeliveryInv PROVE AsWritten
    OBVIOUS
  <2>1. job.text \in Seq(Kinds)
    BY TextType DEF DeliveryInv, TypeOK
  <2>2. ASSUME lost = {} PROVE IsPrefix(typed, Expected(job.text))
    BY <2>1, <2>2, StrokesGrow DEF DeliveryInv, ArrivedInv
  <2>3. QED BY <2>2 DEF AsWritten, DeliveryInv, ArrivedInv
<1>2. QED BY <1>1, DeliveryInductive, PTL
=================================================================================
