--------------------------------- MODULE MCLogon ---------------------------------
(* Two clients, free to use any of the log-on flows and to mix them.  fish *)
(* has an account without a realm and one in it.  The bytes the clients    *)
(* send and are sent are not part of the state: what Wire, Http, Names,    *)
(* Federation, Statstrings and Replies say of them is checked before the   *)
(* first packet, for all the inputs their bounds give.                     *)
EXTENDS Logon, Http, Federation, Replies

CONSTANTS s1, s2, fish, here

MCSession == {s1, s2}
Row(n, f) == [name |-> n, family |-> f, secret |-> 1]
MCAccounts == (1 :> Row(<<fish, None>>, "xsha1")) @@ (2 :> Row(<<fish, here>>, "srp"))
MCTyped == {<<fish, None>>, <<fish, here>>}
MCSecret == {1}
MCInvalidName == {}
MCExpected == [d \in {0} |-> 500]

BeforeTheFirstPacket == alive /\ events = 0 /\ \A s \in Session : state[s] = "connected"

(* However the stream is cut into reads, the read loops of the session,    *)
(* the realm and the chat gateway see the frames, lines and file requests  *)
(* that were sent, in their order, and stop at the first bad one; so do    *)
(* the HTTP servers with a request and its form, and the federation link   *)
(* with its messages.                                                      *)
FramesArriveWhole == BeforeTheFirstPacket => FramingIndependent /\ FormsAnyCut /\ LinksAgree

(* A statstring that this server builds is read back by the parser of the  *)
(* other side as the character or record it was built from, and every      *)
(* Diablo II statstring let out keeps its client's buffers.                *)
StatstringsArriveWhole == BeforeTheFirstPacket => StatstringsReadBack

(* Spellings of a channel, an account, a file and an attribute key mean    *)
(* one thing each to every part of the server that reads them, and the     *)
(* names a bridge gives its users lead back to them.                       *)
NamesMeanOneThing == BeforeTheFirstPacket => NamesUnambiguous /\ BridgedNamesHold

(* Replies of variable length are read back by their client as what was    *)
(* put in, within the lengths it has room for.                             *)
RepliesArriveWhole == BeforeTheFirstPacket => RepliesReadBack
==================================================================================
