SPECIFICATION Spec
CONSTANTS
    BUFFER_SIZE = 2
    NoFile = NoFile
    Uploads <- MCUploads
INVARIANT FileTransferComplete
