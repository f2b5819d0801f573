----------------------------- MODULE MidiTraffic ----------------------------
\* What applications and the rack say to each other in the runs of MidiBridge.
EXTENDS UsbMidi

Note    == <<144, 60, 100>>
Program == <<192, 5>>
SysEx(n) == <<SysExStart>> \o [i \in 1..(n - 2) |-> i] \o <<SysExEnd>>

\* Lists of whole messages: every status, SysEx of every remainder by three, one
\* with a clock byte in it, and lists of two packets.
WholeLists ==
    {<<Note \o Program, <<242, 1, 2>>>>, <<SysEx(3)>>, <<<<248>>, SysEx(4)>>,
     <<<<240, 126, 248, 6, 247, 243, 1>>>>}

Identity == <<[cable |-> 0, cin |-> 4, bytes |-> <<240, 126, 6>>],
              [cable |-> 0, cin |-> 6, bytes |-> <<2, 247, 0>>]>>
RackSayings == {Identity, <<[cable |-> 0, cin |-> 12, bytes |-> Program \o <<0>>]>>}

\* One SysEx as two packets, and one that is longer than Room for two events.
SplitLists == {<<SubSeq(SysEx(5), 1, 3), SubSeq(SysEx(5), 4, 5)>>}
LongLists == {<<SysEx(7)>>}
CutLists == SplitLists \cup LongLists
=============================================================================
