---- MODULE MCDevices ----
(* The people and devices that talk to the daemon through its channels: a Xiaozhi device on *)
(* its WebSocket, and one account of WeChat.  They share the backend, whose turns are        *)
(* abstract in both, so a behaviour is about one of the two; or it is about one text, which  *)
(* is split into messages and goes no further.                                               *)
EXTENDS XiaozhiConnection, TLC

CONSTANTS User, Inbound, Notice, Target, Chunks, Limit, MaxBot, MaxMessage, MaxSession,
          u1, u2, n1, n2, Lines, MaxLines, Limits
VARIABLES inbound, arrived, bot, running, poll, token, tasks, known, userMap, mapFile,
          sessions, rows, poller, seen, overwritten,
          message, limit,
          about

T == INSTANCE Chunking
W == INSTANCE WechatChannel
        WITH scenario <- inbound, Scenarios <- Inbound, MaxTask <- MaxMessage

\* Manual listening, closed by another connection; automatic listening with music, on a
\* socket that may be lost; an exit or a silence; an interruption while music is replaced;
\* and one of a reply spoken while it is written, on a socket that may be lost.
MCScenarios ==
    { [local |-> FALSE, modes |-> {"manual"}, messages |-> 2, utterances |-> 1, streams |-> 1,
       recognitions |-> 2, ends |-> {"replaced"}],
      [local |-> FALSE, modes |-> {"auto"}, messages |-> 2, utterances |-> 2, streams |-> 1,
       recognitions |-> 3, ends |-> {"disconnect"}],
      [local |-> FALSE, modes |-> {"auto"}, messages |-> 2, utterances |-> 1, streams |-> 0,
       recognitions |-> 2, ends |-> {"exit", "silence"}],
      [local |-> FALSE, modes |-> {"realtime"}, messages |-> 1, utterances |-> 2, streams |-> 2,
       recognitions |-> 2, ends |-> {}],
      [local |-> TRUE, modes |-> {"realtime"}, messages |-> 1, utterances |-> 2, streams |-> 0,
       recognitions |-> 3, ends |-> {"disconnect"}] }

Sends(u, k, n) == [user |-> u, kind |-> k, says |-> n]

\* A reply of two texts; a user who asks for a new session while the channel restarts; a
\* picture, and a token that expires; two notifications; and one while the channel
\* restarts.
MCInbound ==
    { [writes |-> << Sends(u2, "text", 2) >>, notices |-> {}, bots |-> 1, tokens |-> 1, tasks |-> 1],
      [writes |-> << Sends(u1, "text", 0), Sends(u1, "new", 0) >>, notices |-> {},
       bots |-> 2, tokens |-> 1, tasks |-> 3],
      [writes |-> << Sends(u1, "media", 0), Sends(u2, "text", 0) >>, notices |-> {},
       bots |-> 2, tokens |-> 2, tasks |-> 2],
      [writes |-> << Sends(u1, "text", 0) >>, notices |-> {n1, n2}, bots |-> 1, tokens |-> 1,
       tasks |-> 1],
      [writes |-> << Sends(u1, "new", 0) >>, notices |-> {n1}, bots |-> 2, tokens |-> 1,
       tasks |-> 1] }

\* Words, and fences of every kind that matters to another one.
Marks(n) == [k \in 1 .. n |-> "backtick"]
MCLines == { <<"x">>, <<"x", "x", "x", " ", "x", "x", "x">>, Marks(3), Marks(6),
             Marks(3) \o <<" ", " ">>, <<"tilde", "tilde", "tilde">> }

MCTarget == n1 :> u1 @@ n2 :> u1

ASSUME W!WechatAssumption /\ MaxLines \in Nat /\ Limits \subseteq Nat

wechat == <<inbound, arrived, bot, running, poll, token, tasks, known, userMap, mapFile,
            sessions, rows, poller, seen, overwritten>>

\* The scenario of the part a behaviour is not about is some fixed one.
MCInit ==
    /\ Init /\ W!Init
    /\ about \in {"xiaozhi", "wechat", "text"}
    /\ about # "wechat" => inbound = CHOOSE s \in Inbound : TRUE
    /\ about # "xiaozhi" => scenario = CHOOSE s \in Scenarios : TRUE
    /\ IF about = "text" THEN message \in T!Texts /\ limit \in Limits
                         ELSE message = <<>> /\ limit = 1

MCXiaozhi == about = "xiaozhi" /\ Next /\ UNCHANGED <<wechat, message, limit, about>>
MCWechat == about = "wechat" /\ W!Next /\ UNCHANGED <<vars, message, limit, about>>

MCSpec == MCInit /\ [][MCXiaozhi \/ MCWechat]_<<vars, wechat, message, limit, about>> /\ Fairness /\ W!Fairness

\* The speaker has one owner, and an abort discards what it should.
VoiceIsSound == OneVoice /\ AbortDiscards

\* Notifications and replies reach their users in full and in order, and the map of users is
\* on disk; a long text arrives whole, in messages that are not too long, with its code.
WechatIsSound == W!DeliveryIsExact /\ W!MapIsDurable /\ T!ChunkingIsSound(message, limit)

\* A connection settles, and nobody who wrote to WeChat waits for ever.
TalkersAreServed == ConnectionSettles /\ W!NobodyIsForgotten
====
