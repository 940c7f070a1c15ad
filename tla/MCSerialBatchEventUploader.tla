--------------------- MODULE MCSerialBatchEventUploader ---------------------
(* Instances of SerialBatchEventUploader. *)
EXTENDS SerialBatchEventUploader

NoEvent == {}
SecondEvent == {2}
=============================================================================
