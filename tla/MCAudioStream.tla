--------------------------- MODULE MCAudioStream ----------------------------
(* AudioStream with constants given by the configurations: small pools and  *)
(* limits scaled down (XrunLimit 10, SentinelRetries 100 in the code).      *)
EXTENDS AudioStream
=============================================================================
