SPECIFICATION FairSpec
CONSTANTS Posts = {} Users = {}
PROPERTIES LoggedInAgain
