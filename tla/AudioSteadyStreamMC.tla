------------------------- MODULE AudioSteadyStreamMC ------------------------
EXTENDS AudioSteadyStream
MCSession == {1}
MCPayload == {pcm}
=============================================================================
