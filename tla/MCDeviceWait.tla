---------------------------- MODULE MCDeviceWait ----------------------------
\* The root, a root of bcachefs, a device for persistence, and a filesystem of two
\* bcachefs devices, each waited for before mounting is tried.
EXTENDS DeviceWait

MCJobs == {<<"root">>, <<"bcachefs">>, <<"device">>, <<"device", "device", "bcachefs">>}
=============================================================================
