------------------------------ MODULE MCObjects ------------------------------
(***************************************************************************)
(* The objects that one thread uses by itself: the URL and the response of *)
(* a request, a buffer, a packet and an emitter.  None of them knows of    *)
(* another, so a behaviour is one of one of them, the part that its first  *)
(* state chooses, while the others rest.                                   *)
(***************************************************************************)
EXTENDS MCHttpUrl, HttpResponse, ByteBuffer, PacketCodec, EventEmitter

VARIABLE part

\* Bytes of two bits: sixteen bytes are as many as a size of two bytes can count.
MCMagicBytes == <<3, 1>>
MCNumbers == {<<1, 2>>, <<2, 0>>, <<2, 7>>, <<4, 27>>}
MCStrings == {<< >>, <<1>>, <<0, 3, 2>>}

objects == <<vars, responseVars, bufferVars, packetVars, emitterVars>>

MCInit == /\ part \in {"url", "response", "buffer", "codec", "emitter"}
          /\ PacketInit /\ (part # "codec" => cmd = 0)
          /\ ResponseInit /\ BufferInit /\ EmitterInit
          /\ Init /\ (part # "url" => target = Star /\ ~connect)

RunUrl == /\ part = "url" /\ Next
          /\ UNCHANGED <<responseVars, bufferVars, packetVars, emitterVars>>

RunResponse == /\ part = "response" /\ ResponseNext
               /\ UNCHANGED <<vars, bufferVars, packetVars, emitterVars>>

RunBuffer == /\ part = "buffer" /\ BufferNext
             /\ UNCHANGED <<vars, responseVars, packetVars, emitterVars>>

RunCodec == /\ part = "codec" /\ PacketNext
            /\ UNCHANGED <<vars, responseVars, bufferVars, emitterVars>>

RunEmitter == /\ part = "emitter" /\ EmitterNext
              /\ UNCHANGED <<vars, responseVars, bufferVars, packetVars>>

MCNext == (RunUrl \/ RunResponse \/ RunBuffer \/ RunCodec \/ RunEmitter) /\ UNCHANGED part

MCSpec == MCInit /\ [][MCNext]_<<part, objects>>

=============================================================================
