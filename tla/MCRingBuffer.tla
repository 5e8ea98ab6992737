---- MODULE MCRingBuffer ----
EXTENDS RingBufferRace
====
