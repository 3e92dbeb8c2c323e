--------------------------- MODULE MCMessageCodec ---------------------------
(* An instance of MessageCodec. *)
EXTENDS MessageCodec

\* Names of different lengths, a string and a longer one, a list of none and of two.
Names == [t \in DOMAIN MembersOf |->
            IF t \in {"LoginRequestMessage", "DSMessage", "LoginResponseMessage"} THEN <<7, 8>> ELSE <<9>>]
AllTypes == DOMAIN MembersOf
\* registerMessageType in the login, game and gateway servers.
ServerTypes == {"TimestampMessage", "HeartBeatPacket", "LoginRequestMessage", "LoginCharacterRequestMessage",
                "DSMessage", "DSLoadOrUploadCharacterMessage", "EnterGameRequestMessage"}
ShortAndLong == {<<1>>, <<2, 3>>}
NoneOrTwo == {<<>>, <<<<1>>, <<2, 3>>>>}
=============================================================================
