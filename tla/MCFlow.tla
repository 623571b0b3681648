------------------------------- MODULE MCFlow -------------------------------
(* Instances of Flow for TLC. *)
EXTENDS Flow, Functions

CONSTANTS
  m1, m2, m3,    \* messages
  alice, bob,        \* users
  feishu, telegram, cli, dashboard

MCUsers == {alice, bob}
MCChats == {feishu, telegram, cli, dashboard}
RequestChats == {cli, dashboard}

NothingLinked == alice :> {} @@ bob :> {}
\* Alice has linked her telegram chat, bob has linked none.
MCLinked == alice :> {telegram} @@ bob :> {}

ThreeMsgs == {m1, m2, m3}

\* Two channel messages, one of them by a stranger, and one on the dashboard.
ChannelChatOf == m1 :> telegram  @@ m2 :> feishu    @@ m3 :> dashboard
ChannelUserOf == m1 :> alice     @@ m2 :> NoUser    @@ m3 :> alice
ChannelVia    == m1 :> "channel" @@ m2 :> "channel" @@ m3 :> "websocket"

\* Requests in cli:direct by alice and by two clients without a user.
CliChatOf     == m1 :> cli       @@ m2 :> cli       @@ m3 :> cli
CliUserOf     == m1 :> alice     @@ m2 :> NoUser    @@ m3 :> NoUser
CliVia        == m1 :> "gateway" @@ m2 :> "gateway" @@ m3 :> "gateway"
Strangers     == Permutations({m2, m3})

\* Requests in cli:direct by alice and bob, and alice on telegram.
UserChatOf    == m1 :> cli       @@ m2 :> telegram  @@ m3 :> cli
UserUserOf    == m1 :> alice     @@ m2 :> alice     @@ m3 :> bob
UserVia       == m1 :> "gateway" @@ m2 :> "channel" @@ m3 :> "gateway"

\* Two requests by alice.
TwoMsgs       == {m1, m2}
TwinUserOf    == m1 :> alice     @@ m2 :> alice
TwinChatOf    == m1 :> cli       @@ m2 :> cli
TwinVia       == m1 :> "gateway" @@ m2 :> "gateway"
=============================================================================
