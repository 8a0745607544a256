------------------------- MODULE MCConnectionThread -------------------------
(* Instances of ConnectionThread for TLC, with a receive buffer of eight   *)
(* bytes and number arrays of three: a number may have two digits.         *)
EXTENDS ConnectionThread

CONSTANTS c1, c2

Two == {c1, c2}

A == 97
B == 98
C == 99
One == 49

Zero == 48

Plainly(t) == [text |-> t, seek |-> NULL]
Repeated(byte, n) == [i \in 1..n |-> byte]

Messages ==
    { Plainly(<<A, NL>>),                               \* a short line
      Plainly(Repeated(B, 8) \o <<NL>>),                \* one longer than the buffer
      Plainly(<<A, NL, C, NL>>),                        \* two lines in one message
      Plainly(<<C>>),                                   \* a command without its end
      Plainly(<<A, NL, COLON, MINUS, One, COMMA, NL>>),  \* a line and what looks like a seek
      Plainly(<<COLON, One, COMMA, 0, NL>>),            \* that, cut by a zero byte
      Plainly(<<COLON, One, COMMA, C, C, C, C, C, NL>>),  \* that, across two buffers
      Plainly(<<COLON, COMMA, A, A, A, A, NL>>),        \* it overflows second_num_str
      [text |-> <<COLON, Zero, One, COMMA, One, NL>>, seek |-> <<1, 1>>],
      [text |-> <<COLON, Zero, Zero, One, COMMA, NL>>, seek |-> <<1, 0>>] }  \* a digit too many

(* Exactly one buffer.                                                     *)
FullMessages == { Plainly(Repeated(B, 7) \o <<NL>>) }

(* The device is new, or keeps what earlier runs of the server stored.     *)
Logs == { <<>>, << <<C, NL>>, <<A, B, NL>> >> }

(* Behind recv_buffer lies output_fd: its low byte ends the search, or is  *)
(* the newline when the descriptor is 10.                                  *)
DescriptorByte == { <<>>, <<NL>> }
=============================================================================
