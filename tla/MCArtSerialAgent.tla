-------------------------- MODULE MCArtSerialAgent --------------------------
EXTENDS ArtSerialAgent

\* An empty packet, a three-byte command with id 5, a six-byte one that needs two fragments
\* of four, and the disconnect command (byte 2 is 16).
MCCmds == {<<>>, <<1, 0, 5>>, <<2, 0, 7, 8, 9, 4>>, <<1, 0, 16>>}

\* Replies of another length than the commands they answer.
MCReplies == {<<0, 1, 6, 6, 6>>, <<0, 9>>}
=============================================================================
