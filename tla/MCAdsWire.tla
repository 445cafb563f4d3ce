----------------------------- MODULE MCAdsWire -----------------------------
(* AdsWire for TLC: a ReadReq of the PLC, a frame of an unknown command, a
   WriteReq of one byte, at their real sizes. *)
EXTENDS AdsWire

MCOff == <<0, 50, 88, 139>>

Us == <<1, 2, 3, 4, 5, 6, 7, 8>>
Plc == <<8, 7, 6, 5, 4, 3, 2, 1>>
MCFrames ==
    <<Packet(Us, Plc, 2, 4, 4660, Command(<<16416, 20, 4>>, <<>>)),
      Packet(Us, Plc, 8, 4, 77, Command(<<>>, <<>>)),
      Packet(Us, Plc, 3, 4, 258, Command(<<16416, 2, 1>>, <<9>>))>>
MCRequests == {[id |-> 301, command_id |-> 3, command |-> Command(<<16432, 1, 3>>, <<2, 3, 4>>)]}
MCMisread == {Packet(Plc, Us, 2, 4, 10, Command(<<0, 0, 0>>, <<>>))}
=============================================================================
