----------------------------- MODULE MC_Channel -----------------------------
EXTENDS ChannelKick
=============================================================================
