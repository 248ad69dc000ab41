---------------------------- MODULE MCScanTiming ----------------------------
(* ScanTiming on small instances: the scan and one other client of the feed. *)
EXTENDS ScanTiming

CONSTANTS scan, page

\* The log takes no time, Telegram does.
MCNotifyTime == <<0, 1>>
=============================================================================
