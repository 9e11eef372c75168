----------------------------- MODULE Dissector -----------------------------
(***************************************************************************)
(* disector.c on a connection in COPY: what copy_w sends, to either side,  *)
(* in pieces of any size, is searched for POP3 credentials, which are      *)
(* logged when the origin accepts them. The monitor may switch it on and   *)
(* off at any time.                                                        *)
(*                                                                         *)
(* The POP3 client and server (RFC 1939) are the environment. Letters are  *)
(* their ASCII codes.                                                      *)
(***************************************************************************)
EXTENDS Integers, SequencesExt

CONSTANTS
  Greetings,     \* first lines the origin may send
  Names,         \* user names
  Passwords,
  MaxLines,      \* bound: lines the client sends
  MaxToggles     \* bound: times the monitor flips the switch


VARIABLES
  eager,            \* the client sends USER and PASS without waiting between them
  up,               \* bytes the client has sent, and ...
  upSent,           \* ... how many of them copy_w has sent to the origin
  down,             \* bytes the origin has sent, and ...
  downSent,         \* ... how many of them copy_w has sent to the client
  lines,            \* the lines the client has sent
  replied,          \* how many of them the origin has answered
  accepted,         \* the credentials the origin accepted, in order
  dp,               \* the dissector's parser
  is_disector_on,
  logged,           \* the credentials log_credentials printed, in order
  gap,              \* bytes went unseen while the switch was off: see Gap
  toggles

envVars == <<eager, lines, replied, accepted>>
vars == <<envVars, up, upSent, down, downSent, dp, is_disector_on, logged, gap, toggles>>

CR == 13
LF == 10
EOL == <<CR, LF>>
OK   == <<43, 79, 75>>           \* +OK
ERR  == <<45, 69, 82, 82>>       \* -ERR
USER == <<85, 83, 69, 82, 32>>   \* USER and a blank
PASS == <<80, 65, 83, 83, 32>>
CAPA == <<67, 65, 80, 65>>
FTP  == <<50, 51, 48>>           \* 230, a positive answer of FTP, which has USER and PASS too

(* Greetings are lines; names and passwords fit in the arrays of struct    *)
(* disector.                                                               *)
ASSUME DissectorAssumption ==
  /\ MaxLines \in Nat /\ MaxToggles \in Nat
  /\ \A g \in Greetings : g \in Seq(Nat) /\ Len(g) >= 3 /\ g[Len(g)] = LF
  /\ \A arg \in Names \cup Passwords : arg \in Seq(Nat \ {0, LF}) /\ Len(arg) <= 253

-----------------------------------------------------------------------------
(* disector.c                                                              *)

(* user and pass are the arrays up to where they were last written.        *)
disector_parser_init ==
  [state |-> "wait_pop", i |-> 0, user_carry |-> FALSE, user |-> <<>>, pass |-> <<>>]

(* Mutant: the letter that already belongs to the next USER is forgotten.  *)
ResetForgetsCarry(p) == [p EXCEPT !.state = "user", !.i = 0, !.user_carry = FALSE]

disector_parser_reset(p) ==
  [p EXCEPT !.state = "user", !.i = IF p.user_carry THEN 1 ELSE 0, !.user_carry = FALSE]

TO_UPPER(c) == IF c >= 97 THEN c - 32 ELSE c

(* Looks for the next letter of a keyword, all but whose last letter is    *)
(* enough: `found' follows it, `missed' any other letter.                  *)
Match(p, c, keyword, found, missed) ==
  IF c # keyword[p.i + 1] THEN [p EXCEPT !.state = missed, !.i = 0]
  ELSE IF p.i + 1 >= Len(keyword) - 1 THEN [p EXCEPT !.state = found, !.i = 0]
  ELSE [p EXCEPT !.i = @ + 1]

(* Mutant: the byte before the LF stays.                                   *)
CollectKeepsCR(p, c, array, next) ==
  IF c = LF
  THEN [p EXCEPT !.state = next, !.i = 0, ![array] = SubSeq(@, 1, p.i)]
  ELSE [p EXCEPT !.i = @ + 1, ![array] = Append(SubSeq(@, 1, p.i), c)]

(* Collects the argument of a keyword. The byte before the LF is replaced  *)
(* by the final 0, which leaves the array as it was if there is none.      *)
Collect(p, c, array, next) ==
  IF c = LF
  THEN [p EXCEPT !.state = next, !.i = 0, ![array] = IF p.i = 0 THEN @ ELSE SubSeq(@, 1, p.i - 1)]
  ELSE [p EXCEPT !.i = @ + 1, ![array] = Append(SubSeq(@, 1, p.i), c)]

password(p, c) ==
  LET q == Match(p, TO_UPPER(c), PASS, "password_copy", "restart")
  IN  [q EXCEPT !.user_carry = @ \/ (q.state = "restart" /\ TO_UPPER(c) = USER[1])]

disector_parser_feed(p, c) ==
  CASE p.state = "wait_pop"      -> Match(p, c, OK, "user", "incompatible")
    [] p.state = "user"          -> Match(p, TO_UPPER(c), USER, "user_copy", "restart")
    [] p.state = "user_copy"     -> Collect(p, c, "user", "password")
    [] p.state = "password"      -> password(p, c)
    [] p.state = "password_copy" -> Collect(p, c, "pass", "response")
    [] p.state = "response"      -> Match(p, c, OK, "done", "restart")
    [] p.state = "done"          -> p

disector_consume(p, bytes) ==
  LET run[k \in 0 .. Len(bytes)] ==
        IF k = 0 THEN p
        ELSE LET q == run[k - 1]
                 r == disector_parser_feed(q, bytes[k])
             IN  IF q.state = "incompatible" THEN q
                 ELSE IF r.state = "restart" THEN disector_parser_reset(r) ELSE r
  IN  run[Len(bytes)]

(* copy_w's condition: the commands go to the origin, the replies to the   *)
(* client.                                                                 *)
Watches(toOrigin) ==
  /\ is_disector_on
  /\ dp.state \in (IF toOrigin THEN {"user", "user_copy", "password", "password_copy"}
                               ELSE {"wait_pop", "response"})

(* For the properties: "mid" if bytes were ever skipped with credentials   *)
(* half collected, "idle" if only with none.                               *)
Gap == IF is_disector_on THEN gap
       ELSE IF dp.state \in {"wait_pop", "incompatible"} \/ (dp.state = "user" /\ dp.i = 0)
       THEN IF gap = "none" THEN "idle" ELSE gap
       ELSE "mid"

(* copy_w has sent these bytes.                                            *)
Dissect(bytes, toOrigin) ==
  IF Watches(toOrigin)
  THEN LET p == disector_consume(dp, bytes)
       IN  /\ dp' = IF p.state = "done" THEN disector_parser_reset(p) ELSE p
           /\ logged' = IF p.state = "done" THEN Append(logged, <<p.user, p.pass>>) ELSE logged
           /\ UNCHANGED gap
  ELSE /\ gap' = Gap
       /\ UNCHANGED <<dp, logged>>

copy_w_origin(n) ==
  /\ n \in 1 .. Len(up) - upSent
  /\ upSent' = upSent + n
  /\ Dissect(SubSeq(up, upSent + 1, upSent + n), TRUE)
  /\ UNCHANGED <<envVars, up, down, downSent, is_disector_on, toggles>>

copy_w_client(n) ==
  /\ n \in 1 .. Len(down) - downSent
  /\ downSent' = downSent + n
  /\ Dissect(SubSeq(down, downSent + 1, downSent + n), FALSE)
  /\ UNCHANGED <<envVars, up, upSent, down, is_disector_on, toggles>>

socksv5_toggle_disector ==
  /\ toggles < MaxToggles
  /\ toggles' = toggles + 1
  /\ is_disector_on' = ~is_disector_on
  /\ UNCHANGED <<envVars, up, upSent, down, downSent, dp, logged, gap>>

-----------------------------------------------------------------------------
(* The POP3 client and server.                                             *)

(* Commands are read in either case.                                       *)
Keyword(line) ==
  CASE line.cmd = "USER" -> <<85, 115, 69, 114, 32>>     \* UsEr
    [] line.cmd = "PASS" -> <<112, 65, 115, 83, 32>>     \* pAsS
    [] line.cmd = "CAPA" -> CAPA

LineBytes(line) == Keyword(line) \o line.arg \o EOL

Lines == [cmd : {"USER"}, arg : Names] \cup [cmd : {"PASS"}, arg : Passwords]
           \cup [cmd : {"CAPA"}, arg : {<<>>}]

(* A PASS follows a USER; nothing follows accepted credentials.            *)
MayFollow(line) ==
  /\ line.cmd = "PASS" => lines # <<>> /\ Last(lines).cmd = "USER"
  /\ accepted = <<>>

(* The client has the replies to all of its lines, and the greeting.       *)
AllReplied == replied = Len(lines) /\ downSent = Len(down)

Pop3Client(line) ==
  /\ Len(lines) < MaxLines
  /\ MayFollow(line)
  /\ AllReplied \/ (eager /\ line.cmd = "PASS")
  /\ lines' = Append(lines, line)
  /\ up' = up \o LineBytes(line)
  /\ UNCHANGED <<eager, replied, accepted, upSent, down, downSent, dp, is_disector_on, logged,
                 gap, toggles>>

(* Where the k-th line ends.                                               *)
EndOf(k) == LET e[j \in 0 .. k] == IF j = 0 THEN 0 ELSE e[j - 1] + Len(LineBytes(lines[j]))
            IN  e[k]

Pop3 == IsPrefix(OK, down)

(* The server answers a line it has whole: it may refuse any, and accepts  *)
(* credentials by accepting PASS after an accepted USER.                   *)
Pop3Server(positive) ==
  LET k == replied + 1
  IN  /\ k <= Len(lines)
      /\ upSent >= EndOf(k)
      /\ replied' = k
      /\ down' = down \o (IF ~positive THEN ERR ELSE IF Pop3 THEN OK ELSE FTP) \o EOL
      /\ accepted' = IF positive /\ lines[k].cmd = "PASS"
                     THEN Append(accepted, <<lines[k - 1].arg, lines[k].arg>>) ELSE accepted
      /\ UNCHANGED <<eager, lines, up, upSent, downSent, dp, is_disector_on, logged, gap, toggles>>

-----------------------------------------------------------------------------
Init ==
  /\ eager \in BOOLEAN
  /\ up = <<>> /\ upSent = 0
  /\ down \in Greetings /\ downSent = 0
  /\ lines = <<>> /\ replied = 0 /\ accepted = <<>>
  /\ dp = disector_parser_init
  /\ is_disector_on = TRUE
  /\ logged = <<>>
  /\ gap = "none"
  /\ toggles = 0

Next ==
  \/ \E n \in 1 .. Len(up) - upSent : copy_w_origin(n)
  \/ \E n \in 1 .. Len(down) - downSent : copy_w_client(n)
  \/ socksv5_toggle_disector
  \/ \E line \in Lines : Pop3Client(line)
  \/ \E positive \in BOOLEAN : Pop3Server(positive)

Spec == Init /\ [][Next]_vars

-----------------------------------------------------------------------------
(* Properties.                                                             *)

(* As the log shows credentials: the blank after USER and PASS is part of  *)
(* the argument, because the keyword is found one letter early.            *)
AsLogged(cred) == <<<<32>> \o cred[1], <<32>> \o cred[2]>>

Expected == IF Pop3 THEN [k \in DOMAIN accepted |-> AsLogged(accepted[k])] ELSE <<>>

(* The greeting has no letter that starts USER, which would be counted if  *)
(* a piece of it ended there.                                              *)
PlainGreeting == \A i \in DOMAIN down : TO_UPPER(down[i]) # USER[1]

(* The pairs of adjacent USER and PASS lines.                              *)
Given == {AsLogged(<<lines[k].arg, lines[k + 1].arg>>) :
            k \in {j \in 1 .. Len(lines) - 1 : lines[j].cmd = "USER" /\ lines[j + 1].cmd = "PASS"}}

(* USER is not spelled, in either case, in the bytes.                      *)
Spells(bytes, i) == \A m \in 1 .. 4 : TO_UPPER(bytes[i + m]) = USER[m]
Plain(bytes) == \A i \in 0 .. Len(bytes) - 4 : ~Spells(bytes, i)

(* The switch was never off while credentials were half collected (the     *)
(* parser is not told). Otherwise, and after a greeting that was counted,  *)
(* the parser may meet the middle of a line: there it takes for the        *)
(* command whatever spells it.                                             *)
Followed ==
  /\ gap # "mid"
  /\ \/ gap = "none" /\ PlainGreeting
     \/ Plain(down) /\ \A k \in 1 .. Len(lines) : lines[k].cmd = "USER" => Plain(lines[k].arg)

(* Credentials are logged only as the client gave them, however both       *)
(* streams are cut, and if it waits for the reply to USER only those that  *)
(* the origin accepted, once: as long as the parser can follow.            *)
LoggedWereAccepted ==
  Followed => /\ Range(logged) \subseteq (IF eager THEN Given ELSE Range(Expected))
              /\ ~eager => Len(logged) <= Len(Expected)

(* ... and if the switch was on all along none is missed: when all bytes   *)
(* are copied, the log has every accepted pair.                            *)
AcceptedAreLogged ==
  ~eager /\ gap = "none" /\ PlainGreeting /\ downSent = Len(down) => logged = Expected
=============================================================================
