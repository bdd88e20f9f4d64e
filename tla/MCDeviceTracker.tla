-------------------------- MODULE MCDeviceTracker --------------------------
(* DeviceTracker for TLC: a user with two devices, whose row id 1 is the
   Telegram ID of the other user, and that user, with one device, whose row
   id 2 is the Telegram ID of nobody. *)
EXTENDS DeviceTracker

CONSTANTS d1, d2, d3

Owners == [d \in Device |-> IF d = d3 THEN 2 ELSE 1]

OneBucket == [d \in Device |-> 1]

TelegramIds == <<9, 1>>
=============================================================================
