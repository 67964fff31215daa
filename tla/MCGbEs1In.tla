------------------------------ MODULE MCGbEs1In ------------------------------
(* Constants of GbEs1In for TLC.                                          *)
EXTENDS GbEs1In

\* Completions of a live device: data (resubmitted) and a babbling frame,
\* -EOVERFLOW, which check_urb_status lets through to the "device is gone"
\* statuses, so cport_in_callback drops the urb.
MCStatuses == {"ok", "EOVERFLOW"}
=============================================================================
