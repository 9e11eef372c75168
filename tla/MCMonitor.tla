----------------------------- MODULE MCMonitor -----------------------------
(* Monitor for TLC: names of one and two letters, tokens of one byte.      *)
EXTENDS Monitor

CONSTANTS c1, c2

MCMaxRequests == (c1 :> 1) @@ (c2 :> 1)

MCRootName  == <<114>>
MCRootToken == <<84>>

MCStartUsers == socksv5_register_user(NoUsers, <<97>>, <<112>>)

(* The second administrator's token.                                       *)
MCToken == <<90>>

AsRoot(opt, name, extra)   == parse_args(opt, name, extra, MCRootToken)
AsSecond(opt, name, extra) == parse_args(opt, name, extra, MCToken)

MCAdds == AsRoot("u", <<99>>, <<120>>) \cup AsRoot("u", <<98, 98>>, <<121>>)

(* What only other programs ask for.                                       *)
MCWrong == [cmd : {"bad_version", "bad_method", "bad_target"}, token : {MCRootToken},
            name : {<<>>}, secret : {<<>>}]

MCAsked ==
  UNION {MCAdds,
         AsRoot("d", <<97>>, <<>>), AsRoot("d", <<>>, <<>>),
         AsRoot("a", <<>>, <<>>), AsRoot("c", <<>>, <<>>), AsRoot("N", <<>>, <<>>),
         AsRoot("U", <<101>>, MCToken), AsRoot("D", <<114>>, <<>>),
         AsSecond("D", <<101>>, <<>>), AsSecond("A", <<>>, <<>>)}

MCRequests == (c1 :> MCAsked \cup MCWrong) @@ (c2 :> MCAsked)
MCOnlyAdds == [c \in {c1, c2} |-> MCAdds]
=============================================================================
